------------------------ MODULE ConfigurationProofs ------------------------
(***************************************************************************)
(* Proofs about what configures a deployment: the synchronization of its   *)
(* routing rules at run time (module RoutingSync), for any number of       *)
(* isolates, rules and addresses, any size of a page and any orders of the *)
(* addresses, and the commands of its operator (module OperatorTools), for *)
(* any providers, keys and shells and any number of commands, stops,       *)
(* values and commits.                                                     *)
(***************************************************************************)
EXTENDS RoutingSync, OperatorTools, SequenceTheorems, TLAPS

-----------------------------------------------------------------------------
(* PART ONE: the synchronization of routing rules                          *)

\* The constants are numbers.
LEMMA Constants ==
  /\ NoAddress \notin Addresses
  /\ PageSize \in Nat \ {0} /\ MaxRules \in Nat /\ MaxEdits \in Nat /\ MaxSyncs \in Nat
BY RoutingAssumption

-----------------------------------------------------------------------------
(* Sequences of rules *)

\* A part of a sequence of rules has its rules only.
LEMMA PartOfRules ==
  ASSUME NEW s \in Seq(Rule), NEW m \in Nat \ {0}, NEW n \in Nat, n <= Len(s)
  PROVE  SubSeq(s, m, n) \in Seq(Rule) /\ Seen(SubSeq(s, m, n)) \subseteq Seen(s)
<1>1. Len(s) \in Nat /\ \A k \in 1..Len(s) : s[k] \in Rule
  BY ElementOfSeq, LenProperties
<1>2. \A k \in m..n : k \in 1..Len(s) /\ s[k] \in Rule
  BY <1>1
<1>3. /\ SubSeq(s, m, n) \in Seq(Rule)
      /\ Len(SubSeq(s, m, n)) = IF m <= n THEN n - m + 1 ELSE 0
      /\ \A k \in 1..(n - m + 1) : SubSeq(s, m, n)[k] = s[m + k - 1]
  BY <1>2, SubSeqProperties
<1>4. ASSUME NEW k \in 1..Len(SubSeq(s, m, n))
      PROVE  SubSeq(s, m, n)[k] \in Seen(s)
  <2>1. k \in 1..(n - m + 1) /\ m + k - 1 \in 1..Len(s)
    BY <1>1, <1>3
  <2>. QED
    BY <1>3, <2>1 DEF Seen
<1>. QED
  BY <1>3, <1>4 DEF Seen

\* The length and the members of a part.
LEMMA PartLength ==
  ASSUME NEW s \in Seq(Rule), NEW m \in Nat \ {0}, NEW n \in Nat, n <= Len(s)
  PROVE  /\ Len(SubSeq(s, m, n)) = IF m <= n THEN n - m + 1 ELSE 0
         /\ \A k \in 1..Len(SubSeq(s, m, n)) : SubSeq(s, m, n)[k] = s[m + k - 1]
<1>1. Len(s) \in Nat /\ \A k \in 1..Len(s) : s[k] \in Rule
  BY ElementOfSeq, LenProperties
<1>2. \A k \in m..n : s[k] \in Rule
  BY <1>1
<1>3. /\ Len(SubSeq(s, m, n)) = IF m <= n THEN n - m + 1 ELSE 0
      /\ \A k \in 1..(n - m + 1) : SubSeq(s, m, n)[k] = s[m + k - 1]
  BY <1>2, SubSeqProperties
<1>. QED
  BY <1>3

\* A concatenation has the rules of both parts only.
LEMMA JoinedRules ==
  ASSUME NEW s \in Seq(Rule), NEW t \in Seq(Rule)
  PROVE  s \o t \in Seq(Rule) /\ Seen(s \o t) \subseteq Seen(s) \union Seen(t)
<1>1. /\ s \o t \in Seq(Rule)
      /\ Len(s \o t) = Len(s) + Len(t)
      /\ \A k \in 1..(Len(s) + Len(t)) : (s \o t)[k] = IF k <= Len(s) THEN s[k] ELSE t[k - Len(s)]
  BY ConcatProperties
<1>2. Len(s) \in Nat /\ Len(t) \in Nat
  BY LenProperties
<1>3. ASSUME NEW k \in 1..Len(s \o t)
      PROVE  (s \o t)[k] \in Seen(s) \union Seen(t)
  <2>1. CASE k <= Len(s)
    BY <1>1, <1>2, <2>1 DEF Seen
  <2>2. CASE ~(k <= Len(s))
    <3>1. k - Len(s) \in 1..Len(t)
      BY <1>1, <1>2, <2>2
    <3>. QED
      BY <1>1, <1>2, <2>2, <3>1 DEF Seen
  <2>. QED
    BY <2>1, <2>2
<1>. QED
  BY <1>1, <1>3 DEF Seen

\* The length of a concatenation.
LEMMA JoinedLength ==
  ASSUME NEW s \in Seq(Rule), NEW t \in Seq(Rule)
  PROVE  Len(s \o t) = Len(s) + Len(t)
BY ConcatProperties

\* A page is as long as PageSize.
LEMMA NextPage ==
  ASSUME NEW p \in Nat \ {0}, NEW size \in Nat
  PROVE  /\ (p - 1) * size \in Nat /\ p * size \in Nat
         /\ p * size = (p - 1) * size + size
<1>1. p - 1 \in Nat
  OBVIOUS
<1>2. \A x, y \in Nat : x * y \in Nat
  OBVIOUS
<1>3. \A x \in Nat : (x + 1) * size = x * size + size
  OBVIOUS
<1>4. (p - 1) + 1 = p
  OBVIOUS
<1>. QED
  BY <1>1, <1>2, <1>3, <1>4

\* A page has rules of the zone.
LEMMA PageOfRules ==
  ASSUME TypeOK, NEW n \in Nat \ {0}
  PROVE  Page(n) \in Seq(Rule) /\ Seen(Page(n)) \subseteq Seen(rules)
<1>1. Len(rules) \in Nat /\ rules \in Seq(Rule)
  BY LenProperties DEF TypeOK
<1>2. (n - 1) * PageSize + 1 \in Nat \ {0} /\ n * PageSize \in Nat
  BY Constants
<1>3. Smaller(n * PageSize, Len(rules)) \in Nat /\ Smaller(n * PageSize, Len(rules)) <= Len(rules)
  BY <1>1, <1>2 DEF Smaller
<1>. QED
  BY <1>1, <1>2, <1>3, PartOfRules DEF Page

\* Rules are rules, and what has been seen are rules.
LEMMA SeenRules ==
  ASSUME NEW s \in Seq(Rule)
  PROVE  Seen(s) \subseteq Rule
BY ElementOfSeq DEF Seen

\* The addresses they name are addresses, or none.
LEMMA AddressesOfRules ==
  ASSUME NEW s \in Seq(Rule)
  PROVE  {r.address : r \in Seen(s)} \subseteq Addresses \union {NoAddress}
<1>1. Seen(s) \subseteq Rule
  BY SeenRules
<1>. QED
  BY <1>1 DEF Rule

-----------------------------------------------------------------------------
(* Types *)

\* A plan made from rules is a plan for their addresses.
LEMMA PlanOfRules ==
  ASSUME NEW S \in SUBSET Rule
  PROVE  /\ deriveRoutingMailboxPlan(S) \in Plans
         /\ DOMAIN deriveRoutingMailboxPlan(S) = {r.address : r \in S} \ {NoAddress}
<1>. DEFINE A == {r.address : r \in S} \ {NoAddress}
<1>1. A \in SUBSET Addresses
  BY DEF Rule
<1>2. deriveRoutingMailboxPlan(S) \in [A -> BOOLEAN]
  BY DEF deriveRoutingMailboxPlan
<1>. QED
  BY <1>1, <1>2 DEF Plans, deriveRoutingMailboxPlan

\* What an isolate starts from, and a plan of no address.
LEMMA NothingIsTyped == NoPlan \in Plans /\ Nothing \in Syncs
<1>1. NoPlan \in [{} -> BOOLEAN] /\ {} \in SUBSET Addresses
  BY DEF NoPlan
<1>2. NoPlan \in Plans
  BY <1>1 DEF Plans
<1>3. <<>> \in Seq(Rule)
  BY EmptySeq
<1>. QED
  BY <1>2, <1>3 DEF Nothing, Syncs

\* A synchronization that ends leaves nothing behind.
LEMMA LeaveIsTyped ==
  ASSUME TypeOK, NEW i \in Isolates, Leave(i)
  PROVE  sync' \in [Isolates -> Syncs]
BY NothingIsTyped DEF TypeOK, Leave

\* The first state has the types.
LEMMA TypeInit == Init => TypeOK
<1>. SUFFICES ASSUME Init PROVE TypeOK
  OBVIOUS
<1>1. PICK n \in 0..MaxRules : rules \in [1..n -> Rule]
  BY DEF Init
<1>2. rules \in Seq(Rule)
  BY <1>1, Constants, SeqDef
<1>3. mailboxes \in [Addresses -> Row]
  <2>1. Absent \in Row /\ Created(TRUE) \in Row
    BY DEF Absent, Created, Row
  <2>2. [Created(TRUE) EXCEPT !.managed = FALSE] \in Row
    BY <2>1 DEF Row
  <2>. QED
    BY <2>1, <2>2, Zenon DEF Init
<1>4. named \subseteq Addresses \union {NoAddress}
  <2>1. named = {r.address : r \in Seen(rules)}
    BY Zenon DEF Init
  <2>. QED
    BY <1>2, <2>1, AddressesOfRules
<1>. QED
  BY <1>2, <1>3, <1>4, NothingIsTyped DEF Init, TypeOK

\* Every step keeps the types.
LEMMA TypeStep == TypeOK /\ [Next]_vars => TypeOK'
<1>. SUFFICES ASSUME TypeOK, [Next]_vars PROVE TypeOK'
  OBVIOUS
<1>0. rules \in Seq(Rule) /\ Len(rules) \in Nat
  BY LenProperties DEF TypeOK
<1>1. CASE Edit
  <2>1. rules' \in Seq(Rule)
    <3>1. CASE \E n \in 1..Len(rules) :
                 rules' = SubSeq(rules, 1, n - 1) \o SubSeq(rules, n + 1, Len(rules))
      <4>1. PICK n \in 1..Len(rules) :
              rules' = SubSeq(rules, 1, n - 1) \o SubSeq(rules, n + 1, Len(rules))
        BY <3>1
      <4>2. SubSeq(rules, 1, n - 1) \in Seq(Rule) /\ SubSeq(rules, n + 1, Len(rules)) \in Seq(Rule)
        <5>1. n - 1 \in Nat /\ n - 1 <= Len(rules) /\ n + 1 \in Nat \ {0} /\ Len(rules) <= Len(rules)
          BY <1>0
        <5>. QED
          BY <1>0, <5>1, PartOfRules
      <4>. QED
        BY <4>1, <4>2, JoinedRules
    <3>2. CASE \E n \in 0..Len(rules), r \in Rule :
                 rules' = SubSeq(rules, 1, n) \o <<r>> \o SubSeq(rules, n + 1, Len(rules))
      <4>1. PICK n \in 0..Len(rules), r \in Rule :
              rules' = SubSeq(rules, 1, n) \o <<r>> \o SubSeq(rules, n + 1, Len(rules))
        BY <3>2
      <4>2. SubSeq(rules, 1, n) \in Seq(Rule) /\ SubSeq(rules, n + 1, Len(rules)) \in Seq(Rule)
        <5>1. n \in Nat /\ n <= Len(rules) /\ n + 1 \in Nat \ {0} /\ Len(rules) <= Len(rules)
          BY <1>0
        <5>. QED
          BY <1>0, <5>1, PartOfRules
      <4>3. <<r>> \in Seq(Rule)
        OBVIOUS
      <4>4. SubSeq(rules, 1, n) \o <<r>> \in Seq(Rule)
        BY <4>2, <4>3, JoinedRules
      <4>. QED
        BY <4>1, <4>2, <4>4, JoinedRules
    <3>3. CASE \E n \in 1..Len(rules), r \in Rule : rules' = [rules EXCEPT ![n] = r]
      BY <1>0, <3>3, ExceptSeq
    <3>. QED
      BY <1>1, <3>1, <3>2, <3>3 DEF Edit
  <2>2. named' \subseteq Addresses \union {NoAddress}
    <3>1. named' = named \union {r.address : r \in Seen(rules')}
      BY <1>1, Zenon DEF Edit
    <3>. QED
      BY <2>1, <3>1, AddressesOfRules DEF TypeOK
  <2>. QED
    BY <1>1, <2>1, <2>2, Constants DEF Edit, TypeOK
<1>2. ASSUME NEW i \in Isolates, Start(i)
      PROVE  TypeOK'
  <2>. DEFINE begun == [Nothing EXCEPT !.at = "fetch", !.start = Seen(rules), !.edits = edits]
  <2>1. begun \in Syncs
    BY <1>0, NothingIsTyped, SeenRules DEF Syncs, TypeOK
  <2>2. sync' = [sync EXCEPT ![i] = begun]
    BY <1>2 DEF Start
  <2>. QED
    BY <1>2, <2>1, <2>2 DEF Start, TypeOK
<1>3. ASSUME NEW i \in Isolates, FetchRulesPage(i)
      PROVE  TypeOK'
  <2>1. ASSUME NEW total \in Nat, Read(i, total)
        PROVE  sync' \in [Isolates -> Syncs]
    <3>1. sync[i] \in Syncs /\ sync[i].page \in Nat \ {0} /\ sync[i].seen \in Seq(Rule)
      BY DEF TypeOK, Syncs
    <3>2. sync[i].seen \o Page(sync[i].page) \in Seq(Rule)
      BY <3>1, PageOfRules, JoinedRules
    <3>. DEFINE read == [sync[i] EXCEPT !.seen = @ \o Page(sync[i].page),
                                        !.total = total,
                                        !.page = @ + 1,
                                        !.at = IF sync[i].page < Pages(total) THEN "fetch" ELSE "plan"]
    <3>3. read \in Syncs
      <4>. DEFINE seen == sync[i].seen \o Page(sync[i].page)
                  page == sync[i].page + 1
                  at == IF sync[i].page < Pages(total) THEN "fetch" ELSE "plan"
      <4>1. seen \in Seq(Rule) /\ page \in Nat \ {0} /\ at \in {"fetch", "plan"}
        BY <3>1, <3>2
      <4>. HIDE DEF seen, page, at
      <4>2. [sync[i] EXCEPT !.seen = seen, !.total = total, !.page = page, !.at = at] \in Syncs
        BY <3>1, <4>1 DEF Syncs
      <4>. QED
        BY <4>2 DEF seen, page, at
    <3>4. sync' = [sync EXCEPT ![i] = read]
      BY <2>1 DEF Read
    <3>. QED
      BY <3>3, <3>4 DEF TypeOK
  <2>2. sync[i].total \in Nat
    BY DEF TypeOK, Syncs
  <2>3. sync' \in [Isolates -> Syncs]
    BY <1>0, <1>3, <2>1, <2>2, LeaveIsTyped DEF FetchRulesPage
  <2>. QED
    BY <1>3, <2>3 DEF FetchRulesPage, TypeOK
<1>4. ASSUME NEW i \in Isolates, ReadRows(i)
      PROVE  TypeOK'
  <2>1. CASE Counted => Len(sync[i].seen) = sync[i].total
    <3>. DEFINE planned == [sync[i] EXCEPT !.at = "batch",
                              !.plan = deriveRoutingMailboxPlan(Seen(sync[i].seen)),
                              !.rows = {a \in Addresses : mailboxes[a].there},
                              !.managed = {a \in Addresses : mailboxes[a].managed}]
    <3>1. sync[i] \in Syncs /\ sync[i].seen \in Seq(Rule)
      BY DEF TypeOK, Syncs
    <3>2. deriveRoutingMailboxPlan(Seen(sync[i].seen)) \in Plans
      BY <3>1, SeenRules, PlanOfRules
    <3>3. planned \in Syncs
      BY <3>1, <3>2 DEF Syncs
    <3>4. sync' = [sync EXCEPT ![i] = planned]
      BY <1>4, <2>1 DEF ReadRows
    <3>. QED
      BY <1>4, <3>3, <3>4 DEF ReadRows, TypeOK
  <2>2. CASE ~(Counted => Len(sync[i].seen) = sync[i].total)
    <3>1. Leave(i)
      BY <1>4, <2>2 DEF ReadRows
    <3>. QED
      BY <1>4, <3>1, LeaveIsTyped DEF ReadRows, TypeOK
  <2>. QED
    BY <2>1, <2>2
<1>5. ASSUME NEW i \in Isolates, ApplyBatch(i)
      PROVE  TypeOK'
  <2>1. sync[i] \in Syncs /\ sync[i].plan \in Plans
    BY DEF TypeOK, Syncs
  <2>2. sync' \in [Isolates -> Syncs]
    <3>1. [sync[i] EXCEPT !.at = "verify"] \in Syncs
      BY <2>1 DEF Syncs
    <3>2. CASE sync' = [sync EXCEPT ![i].at = "verify"]
      BY <3>1, <3>2 DEF TypeOK
    <3>. QED
      BY <1>5, <3>2, LeaveIsTyped DEF ApplyBatch
  <2>3. CASE Commit(i)
    <3>1. \A a \in DOMAIN sync[i].plan : sync[i].plan[a] \in BOOLEAN
      BY <2>1 DEF Plans
    <3>2. \A a \in Addresses : mailboxes[a] \in Row
      BY DEF TypeOK
    <3>3. mailboxes' \in [Addresses -> Row]
      BY <2>3, <3>1, <3>2 DEF Commit, Created, Row
    <3>4. last' \in [by : Isolates \union {"none"}, plan : Plans, ok : BOOLEAN]
      BY <2>1, <2>3 DEF Commit
    <3>. QED
      BY <1>5, <2>2, <3>3, <3>4 DEF ApplyBatch, TypeOK
  <2>4. CASE UNCHANGED <<mailboxes, last>>
    BY <1>5, <2>2, <2>4 DEF ApplyBatch, TypeOK
  <2>. QED
    BY <1>5, <2>3, <2>4 DEF ApplyBatch
<1>6. ASSUME NEW i \in Isolates, Verify(i)
      PROVE  TypeOK'
  <2>1. sync' \in [Isolates -> Syncs]
    BY <1>6, LeaveIsTyped DEF Verify
  <2>2. last' \in [by : Isolates \union {"none"}, plan : Plans, ok : BOOLEAN]
    BY <1>6 DEF Verify, TypeOK
  <2>. QED
    BY <1>6, <2>1, <2>2 DEF Verify, TypeOK
<1>7. ASSUME NEW i \in Isolates, Fail(i)
      PROVE  TypeOK'
  BY <1>7, LeaveIsTyped DEF Fail, TypeOK
<1>8. CASE UNCHANGED vars
  BY <1>8 DEF vars, TypeOK
<1>. QED
  BY <1>1, <1>2, <1>3, <1>4, <1>5, <1>6, <1>7, <1>8 DEF Next

\* The types hold in every reachable state, for all values of the constants.
THEOREM TypeCorrect == Spec => []TypeOK
BY TypeInit, TypeStep, PTL DEF Spec

-----------------------------------------------------------------------------
(* An answer is about what was committed last *)

\* A synchronization that verifies, and whose batch is the last one, verifies the plan of it.
LastPlan ==
  \A i \in Isolates : At(i, "verify") /\ last.by = i => last.plan = sync[i].plan

\* No isolate gets to verify, or changes its plan while it verifies, but by committing.
LEMMA OthersDoNotVerify ==
  ASSUME TypeOK, NEW i \in Isolates,
         Start(i) \/ FetchRulesPage(i) \/ ReadRows(i) \/ Verify(i) \/ Fail(i)
  PROVE  \A j \in Isolates : (At(j, "verify"))' => At(j, "verify") /\ sync'[j].plan = sync[j].plan
<1>1. sync \in [Isolates -> Syncs] /\ \A j \in Isolates : sync[j] \in Syncs
  BY DEF TypeOK
<1>2. \A j \in Isolates \ {i} : sync'[j] = sync[j]
  BY <1>1 DEF Start, FetchRulesPage, Read, ReadRows, Verify, Fail, Leave
<1>3. sync'[i].at # "verify"
  <2>1. CASE Leave(i)
    BY <1>1, <2>1 DEF Leave, Nothing
  <2>2. CASE Start(i)
    BY <1>1, <2>2 DEF Start, Nothing
  <2>3. ASSUME NEW total, Read(i, total)
        PROVE  sync'[i].at # "verify"
    BY <1>1, <2>3 DEF Read, Syncs
  <2>4. CASE ReadRows(i) /\ ~Leave(i)
    <3>. DEFINE planned == [sync[i] EXCEPT !.at = "batch",
                              !.plan = deriveRoutingMailboxPlan(Seen(sync[i].seen)),
                              !.rows = {a \in Addresses : mailboxes[a].there},
                              !.managed = {a \in Addresses : mailboxes[a].managed}]
    <3>1. sync' = [sync EXCEPT ![i] = planned]
      BY <2>4, Zenon DEF ReadRows
    <3>. QED
      BY <1>1, <3>1 DEF Syncs
  <2>. QED
    BY <2>1, <2>2, <2>3, <2>4 DEF FetchRulesPage, Verify, Fail
<1>. QED
  BY <1>2, <1>3 DEF At

\* It is so in the first state, and after every step.
LEMMA LastPlanStep == TypeOK /\ LastPlan /\ [Next]_vars => LastPlan'
<1>. SUFFICES ASSUME TypeOK, LastPlan, [Next]_vars PROVE LastPlan'
  OBVIOUS
<1>1. CASE Edit \/ UNCHANGED vars
  <2>1. sync' = sync /\ last' = last
    BY <1>1, Zenon DEF Edit, vars
  <2>. QED
    BY <2>1 DEF LastPlan, At
<1>2. ASSUME NEW i \in Isolates, Start(i) \/ FetchRulesPage(i) \/ ReadRows(i) \/ Verify(i) \/ Fail(i)
      PROVE  LastPlan'
  <2>1. last'.by = last.by /\ last'.plan = last.plan
    BY <1>2 DEF Start, FetchRulesPage, ReadRows, Verify, Fail, TypeOK
  <2>2. \A j \in Isolates : (At(j, "verify"))' => At(j, "verify") /\ sync'[j].plan = sync[j].plan
    BY <1>2, OthersDoNotVerify
  <2>. QED
    BY <2>1, <2>2 DEF LastPlan
<1>3. ASSUME NEW i \in Isolates, ApplyBatch(i)
      PROVE  LastPlan'
  <2>0. sync \in [Isolates -> Syncs] /\ \A j \in Isolates : sync[j] \in Syncs
    BY DEF TypeOK
  <2>1. \A j \in Isolates \ {i} : sync'[j] = sync[j]
    BY <1>3, <2>0 DEF ApplyBatch, Leave
  <2>2. CASE Commit(i) /\ sync' = [sync EXCEPT ![i].at = "verify"]
    <3>1. last'.by = i /\ last'.plan = sync[i].plan
      BY <2>2 DEF Commit
    <3>2. sync'[i].plan = sync[i].plan
      BY <2>0, <2>2 DEF Syncs
    <3>. QED
      BY <3>1, <3>2 DEF LastPlan
  <2>3. CASE Commit(i) /\ Leave(i)
    <3>1. last'.by = i /\ sync'[i].at = "none"
      BY <2>0, <2>3 DEF Commit, Leave, Nothing
    <3>. QED
      BY <3>1 DEF LastPlan, At
  <2>4. CASE Leave(i) /\ UNCHANGED <<mailboxes, last>>
    <3>1. last' = last /\ sync'[i].at = "none"
      BY <2>0, <2>4 DEF Leave, Nothing
    <3>. QED
      BY <2>1, <3>1 DEF LastPlan, At
  <2>. QED
    BY <1>3, <2>2, <2>3, <2>4 DEF ApplyBatch
<1>. QED
  BY <1>1, <1>2, <1>3 DEF Next

\* A plan that was verified is what the rows say, and only a commit changes them.
LEMMA LastAnswerStep == TypeOK /\ LastPlan /\ LastAnswerIsTrue /\ [Next]_vars => LastAnswerIsTrue'
<1>. SUFFICES ASSUME TypeOK, LastPlan, LastAnswerIsTrue, [Next]_vars PROVE LastAnswerIsTrue'
  OBVIOUS
<1>1. CASE UNCHANGED <<mailboxes, last>>
  <2>1. Managed' = Managed
    BY <1>1 DEF Managed
  <2>. QED
    BY <1>1, <2>1 DEF LastAnswerIsTrue
<1>2. ASSUME NEW i \in Isolates, Commit(i)
      PROVE  LastAnswerIsTrue'
  BY <1>2 DEF Commit, LastAnswerIsTrue
<1>3. ASSUME NEW i \in Isolates, Verify(i)
      PROVE  LastAnswerIsTrue'
  <2>1. mailboxes' = mailboxes
    BY <1>3 DEF Verify
  <2>2. Managed' = Managed
    BY <2>1 DEF Managed
  <2>3. CASE last.by # i
    BY <1>3, <2>2, <2>3 DEF Verify, LastAnswerIsTrue
  <2>4. CASE last.by = i
    <3>1. last.plan = sync[i].plan
      BY <1>3, <2>4 DEF LastPlan, Verify
    <3>2. last'.plan = last.plan /\ (last'.ok => Managed = sync[i].plan)
      BY <1>3, <2>4 DEF Verify, TypeOK
    <3>. QED
      BY <2>2, <3>1, <3>2 DEF LastAnswerIsTrue
  <2>. QED
    BY <2>3, <2>4
<1>4. CASE UNCHANGED vars
  BY <1>1, <1>4 DEF vars
<1>. QED
  BY <1>1, <1>2, <1>3, <1>4 DEF Next, Edit, Start, FetchRulesPage, ReadRows, ApplyBatch, Fail

\* An answer that the synchronization succeeded is true until the next batch, for any number of
\* isolates that synchronize at the same time.
THEOREM LastAnswer == Spec => []LastAnswerIsTrue
<1>1. Init => LastPlan /\ LastAnswerIsTrue
  <2>. SUFFICES ASSUME Init PROVE LastPlan /\ LastAnswerIsTrue
    OBVIOUS
  <2>1. sync = [i \in Isolates |-> Nothing] /\ last = [by |-> "none", plan |-> NoPlan, ok |-> FALSE]
    BY Zenon DEF Init
  <2>. QED
    BY <2>1 DEF LastPlan, LastAnswerIsTrue, At, Nothing
<1>2. TypeOK /\ LastPlan /\ LastAnswerIsTrue /\ [Next]_vars => (LastPlan /\ LastAnswerIsTrue)'
  BY LastPlanStep, LastAnswerStep
<1>. QED
  BY <1>1, <1>2, TypeCorrect, PTL DEF Spec

-----------------------------------------------------------------------------
(* Mailboxes made by hand *)

\* Managed mailboxes, the rules, and what a synchronization read, are of addresses that some
\* rule has named.
Named(s) == {r.address : r \in Seen(s)} \subseteq named

NamesKnown ==
  /\ Named(rules)
  /\ \A a \in Addresses : mailboxes[a].managed => a \in named
  /\ \A i \in Isolates : Named(sync[i].seen) /\ DOMAIN sync[i].plan \subseteq named

\* Nothing seen, nothing named.
LEMMA NothingNamed == Named(<<>>) /\ DOMAIN NoPlan = {} /\ Nothing.seen = <<>> /\ Nothing.plan = NoPlan
<1>1. Seen(<<>>) = {}
  BY DEF Seen
<1>. QED
  BY <1>1 DEF Named, NoPlan, Nothing

\* An isolate that leaves keeps the others as they are.
LEMMA LeaveKnown ==
  ASSUME TypeOK, NamesKnown, NEW i \in Isolates, Leave(i), named' = named
  PROVE  \A j \in Isolates : Named(sync[j].seen)' /\ DOMAIN sync'[j].plan \subseteq named'
<1>1. \A j \in Isolates : sync'[j] = IF j = i THEN Nothing ELSE sync[j]
  BY DEF Leave, TypeOK
<1>. QED
  BY <1>1, NothingNamed DEF NamesKnown, Named

\* Every step keeps it.
LEMMA NamesStep == TypeOK /\ NamesKnown /\ [Next]_vars => NamesKnown'
<1>. SUFFICES ASSUME TypeOK, NamesKnown, [Next]_vars PROVE NamesKnown'
  OBVIOUS
<1>0. sync \in [Isolates -> Syncs] /\ \A j \in Isolates : sync[j] \in Syncs
  BY DEF TypeOK
<1>1. CASE Edit
  <2>1. named' = named \union {r.address : r \in Seen(rules')} /\ mailboxes' = mailboxes /\ sync' = sync
    BY <1>1, Zenon DEF Edit
  <2>. QED
    BY <2>1 DEF NamesKnown, Named
<1>2. ASSUME NEW i \in Isolates, Start(i)
      PROVE  NamesKnown'
  <2>. DEFINE begun == [Nothing EXCEPT !.at = "fetch", !.start = Seen(rules), !.edits = edits]
  <2>1. \A j \in Isolates : sync'[j] = IF j = i THEN begun ELSE sync[j]
    BY <1>0, <1>2 DEF Start
  <2>2. begun.seen = Nothing.seen /\ begun.plan = Nothing.plan
    BY DEF Nothing
  <2>3. rules' = rules /\ mailboxes' = mailboxes /\ named' = named
    BY <1>2 DEF Start
  <2>. HIDE DEF begun
  <2>. QED
    BY <2>1, <2>2, <2>3, NothingNamed DEF NamesKnown, Named
<1>3. ASSUME NEW i \in Isolates, FetchRulesPage(i)
      PROVE  NamesKnown'
  <2>0. rules' = rules /\ mailboxes' = mailboxes /\ named' = named
    BY <1>3 DEF FetchRulesPage
  <2>1. CASE Leave(i)
    BY <2>0, <2>1, LeaveKnown DEF NamesKnown, Named
  <2>2. ASSUME NEW total, Read(i, total)
        PROVE  NamesKnown'
    <3>0. sync[i].page \in Nat \ {0} /\ sync[i].seen \in Seq(Rule)
      BY <1>0 DEF Syncs
    <3>1. /\ Page(sync[i].page) \in Seq(Rule)
          /\ Seen(Page(sync[i].page)) \subseteq Seen(rules)
      BY <3>0, PageOfRules
    <3>2. Seen(sync[i].seen \o Page(sync[i].page)) \subseteq Seen(sync[i].seen) \union Seen(rules)
      BY <3>0, <3>1, JoinedRules
    <3>3. Named(sync[i].seen \o Page(sync[i].page))
      BY <3>2 DEF NamesKnown, Named
    <3>4. /\ sync'[i].seen = sync[i].seen \o Page(sync[i].page)
          /\ sync'[i].plan = sync[i].plan
          /\ \A j \in Isolates \ {i} : sync'[j] = sync[j]
      BY <1>0, <2>2 DEF Read, Syncs
    <3>. QED
      BY <2>0, <3>3, <3>4 DEF NamesKnown, Named
  <2>. QED
    BY <1>3, <2>1, <2>2 DEF FetchRulesPage
<1>4. ASSUME NEW i \in Isolates, ReadRows(i)
      PROVE  NamesKnown'
  <2>0. rules' = rules /\ mailboxes' = mailboxes /\ named' = named
    BY <1>4 DEF ReadRows
  <2>1. CASE Leave(i)
    BY <2>0, <2>1, LeaveKnown DEF NamesKnown, Named
  <2>2. CASE ~Leave(i)
    <3>. DEFINE planned == [sync[i] EXCEPT !.at = "batch",
                              !.plan = deriveRoutingMailboxPlan(Seen(sync[i].seen)),
                              !.rows = {a \in Addresses : mailboxes[a].there},
                              !.managed = {a \in Addresses : mailboxes[a].managed}]
    <3>0. sync' = [sync EXCEPT ![i] = planned]
      BY <1>4, <2>2, Zenon DEF ReadRows
    <3>1. /\ sync'[i].seen = sync[i].seen
          /\ sync'[i].plan = deriveRoutingMailboxPlan(Seen(sync[i].seen))
          /\ \A j \in Isolates \ {i} : sync'[j] = sync[j]
      BY <1>0, <3>0 DEF Syncs
    <3>2. Seen(sync[i].seen) \in SUBSET Rule
      BY <1>0, SeenRules DEF Syncs
    <3>3. DOMAIN sync'[i].plan = {r.address : r \in Seen(sync[i].seen)} \ {NoAddress}
      BY <3>1, <3>2, PlanOfRules
    <3>. QED
      BY <2>0, <3>1, <3>3 DEF NamesKnown, Named
  <2>. QED
    BY <2>1, <2>2
<1>5. ASSUME NEW i \in Isolates, ApplyBatch(i)
      PROVE  NamesKnown'
  <2>0. rules' = rules /\ named' = named
    BY <1>5 DEF ApplyBatch
  <2>1. \A j \in Isolates : Named(sync[j].seen)' /\ DOMAIN sync'[j].plan \subseteq named'
    <3>1. CASE Leave(i)
      BY <2>0, <3>1, LeaveKnown
    <3>2. CASE sync' = [sync EXCEPT ![i].at = "verify"]
      <4>1. \A j \in Isolates : sync'[j].seen = sync[j].seen /\ sync'[j].plan = sync[j].plan
        BY <1>0, <3>2 DEF Syncs
      <4>. QED
        BY <2>0, <4>1 DEF NamesKnown, Named
    <3>. QED
      BY <1>5, <3>1, <3>2 DEF ApplyBatch
  <2>2. \A a \in Addresses : mailboxes'[a].managed => a \in named'
    <3>1. CASE Commit(i)
      <4>. SUFFICES ASSUME NEW a \in Addresses, mailboxes'[a].managed
                    PROVE  a \in named
        BY <2>0
      <4>1. a \in DOMAIN sync[i].plan \/ mailboxes[a].managed
        BY <3>1 DEF Commit, TypeOK, Row
      <4>. QED
        BY <4>1 DEF NamesKnown
    <3>2. CASE mailboxes' = mailboxes
      BY <2>0, <3>2 DEF NamesKnown
    <3>. QED
      BY <1>5, <3>1, <3>2 DEF ApplyBatch
  <2>. QED
    BY <2>0, <2>1, <2>2 DEF NamesKnown, Named
<1>6. ASSUME NEW i \in Isolates, Verify(i) \/ Fail(i)
      PROVE  NamesKnown'
  <2>1. rules' = rules /\ mailboxes' = mailboxes /\ named' = named /\ Leave(i)
    BY <1>6 DEF Verify, Fail
  <2>. QED
    BY <2>1, LeaveKnown DEF NamesKnown, Named
<1>7. CASE UNCHANGED vars
  BY <1>7 DEF vars, NamesKnown, Named
<1>. QED
  BY <1>1, <1>2, <1>3, <1>4, <1>5, <1>6, <1>7 DEF Next

\* No mailbox is managed in the first state.
LEMMA NamesInit == Init => NamesKnown
<1>. SUFFICES ASSUME Init PROVE NamesKnown
  OBVIOUS
<1>1. /\ sync = [i \in Isolates |-> Nothing]
      /\ named = {r.address : r \in Seen(rules)}
  BY Zenon DEF Init
<1>2. \A a \in Addresses : ~mailboxes[a].managed
  <2>1. Absent.managed = FALSE /\ [Created(TRUE) EXCEPT !.managed = FALSE].managed = FALSE
    BY DEF Absent, Created
  <2>2. \A a \in Addresses : mailboxes[a] \in {Absent, [Created(TRUE) EXCEPT !.managed = FALSE]}
    BY Zenon DEF Init
  <2>. QED
    BY <2>1, <2>2, Zenon
<1>. QED
  BY <1>1, <1>2, NothingNamed DEF NamesKnown, Named

\* A mailbox whose address no rule ever named, which is one made by hand, is never changed,
\* whatever the isolates do and whenever the rules are edited.
THEOREM ByHand == Spec => ByHandIsLeftAlone
<1>1. TypeOK /\ NamesKnown /\ [Next]_vars =>
        [\A a \in Addresses : a \notin named => mailboxes'[a] = mailboxes[a]]_vars
  <2>. SUFFICES ASSUME TypeOK, NamesKnown, Next
                PROVE  \A a \in Addresses : a \notin named => mailboxes'[a] = mailboxes[a]
    OBVIOUS
  <2>1. ASSUME NEW i \in Isolates, Commit(i), NEW a \in Addresses, a \notin named
        PROVE  mailboxes'[a] = mailboxes[a]
    <3>1. a \notin DOMAIN sync[i].plan /\ ~Deactivated(i, a)
      BY <2>1 DEF NamesKnown, Deactivated
    <3>. QED
      BY <2>1, <3>1 DEF Commit
  <2>2. (\E i \in Isolates : Commit(i)) \/ mailboxes' = mailboxes
    BY Zenon DEF Next, Edit, Start, FetchRulesPage, ReadRows, ApplyBatch, Verify, Fail
  <2>. QED
    BY <2>1, <2>2
<1>. QED
  BY <1>1, NamesInit, NamesStep, TypeCorrect, PTL DEF Spec, ByHandIsLeftAlone

-----------------------------------------------------------------------------
(* A plan is of one moment *)

\* What a synchronization has read so far is the beginning of s.
Beginning(i, s) ==
  /\ Len(sync[i].seen) <= Len(s) /\ \A j \in 1..Len(sync[i].seen) : sync[i].seen[j] = s[j]
  /\ sync[i].page > 1 => sync[i].total = Len(s)

\* Lists of rules before and after an edit: one of them is longer, or they differ in one rule.
OneEdit(s, t) ==
  Len(s) = Len(t) => \E n \in 1..Len(s) : \A j \in 1..Len(s) : j # n => s[j] = t[j]

\* The pages before the next one were read, and they were full.
Aligned(i) ==
  IF sync[i].page = 1 THEN sync[i].seen = <<>>
  ELSE Len(sync[i].seen) = Smaller((sync[i].page - 1) * PageSize, sync[i].total)

\* The rules a reading began with.
Began(i, s) == s \in Seq(Rule) /\ Seen(s) = sync[i].start

\* As long as nothing was edited a synchronization reads the rules it began with; one edit
\* leaves it with the beginning of what it began with, or of what the rules are now.
ReadsOne(i) ==
  sync[i].at \in {"fetch", "plan"} =>
    /\ Aligned(i)
    /\ sync[i].edits = edits => Beginning(i, rules)
    /\ edits = sync[i].edits + 1 =>
         \E old \in Seq(Rule) : /\ Began(i, old) /\ OneEdit(old, rules)
                                /\ Beginning(i, old) \/ Beginning(i, rules)

Moment(i) ==
  /\ sync[i].at # "none" =>
       sync[i].edits <= edits /\ (sync[i].edits = edits => sync[i].start = Seen(rules))
  /\ sync[i].at = "plan" => sync[i].page > 1
  /\ ReadsOne(i)

\* An edit is one edit.
LEMMA EditIsOne ==
  ASSUME TypeOK, Edit
  PROVE  OneEdit(rules, rules')
<1>1. rules \in Seq(Rule) /\ Len(rules) \in Nat
  BY LenProperties DEF TypeOK
<1>2. ASSUME NEW n \in 1..Len(rules),
             rules' = SubSeq(rules, 1, n - 1) \o SubSeq(rules, n + 1, Len(rules))
      PROVE  OneEdit(rules, rules')
  <2>1. n - 1 \in Nat /\ n - 1 <= Len(rules) /\ n + 1 \in Nat \ {0} /\ Len(rules) <= Len(rules)
    BY <1>1
  <2>2. SubSeq(rules, 1, n - 1) \in Seq(Rule) /\ SubSeq(rules, n + 1, Len(rules)) \in Seq(Rule)
    BY <1>1, <2>1, PartOfRules
  <2>3. Len(SubSeq(rules, 1, n - 1)) = n - 1 /\ Len(SubSeq(rules, n + 1, Len(rules))) = Len(rules) - n
    BY <1>1, <2>1, PartLength
  <2>. DEFINE after == SubSeq(rules, 1, n - 1) \o SubSeq(rules, n + 1, Len(rules))
  <2>4. Len(after) = (n - 1) + (Len(rules) - n)
    BY <2>2, <2>3, JoinedLength
  <2>5. rules' = after
    BY <1>2
  <2>. HIDE DEF after
  <2>6. Len(rules') # Len(rules)
    BY <1>1, <2>4, <2>5
  <2>. QED
    BY <2>6 DEF OneEdit
<1>3. ASSUME NEW n \in 0..Len(rules), NEW r \in Rule,
             rules' = SubSeq(rules, 1, n) \o <<r>> \o SubSeq(rules, n + 1, Len(rules))
      PROVE  OneEdit(rules, rules')
  <2>1. n \in Nat /\ n <= Len(rules) /\ n + 1 \in Nat \ {0} /\ Len(rules) <= Len(rules)
    BY <1>1
  <2>2. SubSeq(rules, 1, n) \in Seq(Rule) /\ SubSeq(rules, n + 1, Len(rules)) \in Seq(Rule)
    BY <1>1, <2>1, PartOfRules
  <2>3. Len(SubSeq(rules, 1, n)) = n /\ Len(SubSeq(rules, n + 1, Len(rules))) = Len(rules) - n
    BY <1>1, <2>1, PartLength
  <2>4. <<r>> \in Seq(Rule) /\ Len(<<r>>) = 1
    OBVIOUS
  <2>5. SubSeq(rules, 1, n) \o <<r>> \in Seq(Rule) /\ Len(SubSeq(rules, 1, n) \o <<r>>) = n + 1
    BY <2>2, <2>3, <2>4, JoinedRules, JoinedLength
  <2>. DEFINE after == SubSeq(rules, 1, n) \o <<r>> \o SubSeq(rules, n + 1, Len(rules))
  <2>6. Len(after) = (n + 1) + (Len(rules) - n)
    BY <2>2, <2>3, <2>5, JoinedLength
  <2>7. rules' = after
    BY <1>3
  <2>. HIDE DEF after
  <2>8. Len(rules') # Len(rules)
    BY <1>1, <2>6, <2>7
  <2>. QED
    BY <2>8 DEF OneEdit
<1>4. ASSUME NEW n \in 1..Len(rules), NEW r \in Rule, rules' = [rules EXCEPT ![n] = r]
      PROVE  OneEdit(rules, rules')
  <2>1. \A j \in 1..Len(rules) : j # n => rules[j] = rules'[j]
    BY <1>1, <1>4, ExceptSeq
  <2>. QED
    BY <2>1 DEF OneEdit
<1>. QED
  BY <1>2, <1>3, <1>4 DEF Edit

\* The next page goes on where the ones before ended, if there are as many rules as before.
LEMMA PageExtends ==
  ASSUME TypeOK, NEW i \in Isolates, Aligned(i),
         sync[i].page > 1 => sync[i].total = Len(rules)
  PROVE  LET seen == sync[i].seen \o Page(sync[i].page)
         IN  /\ seen \in Seq(Rule)
             /\ Len(seen) = Smaller(sync[i].page * PageSize, Len(rules))
             /\ Len(sync[i].seen) <= Len(seen)
             /\ \A j \in 1..Len(sync[i].seen) : seen[j] = sync[i].seen[j]
             /\ \A j \in 1..Len(seen) : j > Len(sync[i].seen) => seen[j] = rules[j]
<1>. DEFINE p == sync[i].page
            old == sync[i].seen
            page == Page(p)
            a == (p - 1) * PageSize
            b == p * PageSize
            end == Smaller(b, Len(rules))
<1>1. p \in Nat \ {0} /\ old \in Seq(Rule) /\ Len(old) \in Nat
  BY LenProperties DEF TypeOK, Syncs
<1>2. rules \in Seq(Rule) /\ Len(rules) \in Nat
  BY LenProperties DEF TypeOK
<1>3. a \in Nat /\ b \in Nat /\ b = a + PageSize /\ PageSize \in Nat \ {0}
  <2>1. p \in Nat \ {0} /\ PageSize \in Nat /\ PageSize \in Nat \ {0}
    BY <1>1, Constants
  <2>. QED
    BY <2>1, NextPage
<1>4. page = SubSeq(rules, a + 1, end) /\ page \in Seq(Rule)
  BY <1>1, PageOfRules DEF Page
<1>5. end \in Nat /\ end <= Len(rules) /\ end <= b /\ (end = b \/ end = Len(rules))
  BY <1>2, <1>3 DEF Smaller
<1>6. Len(old) = IF p = 1 THEN 0 ELSE Smaller(a, Len(rules))
  BY <1>1 DEF Aligned
<1>7. p = 1 => a = 0
  BY <1>3, Constants
<1>8. Len(old) <= Len(rules) /\ Len(old) <= a /\ (Len(old) = a \/ Len(old) = Len(rules))
  BY <1>1, <1>2, <1>3, <1>6, <1>7 DEF Smaller
<1>. HIDE DEF a, b, end, page, old, p
<1>9. Len(page) = (IF a + 1 <= end THEN end - a ELSE 0)
      /\ \A k \in 1..Len(page) : page[k] = rules[a + k]
  <2>1. a + 1 \in Nat \ {0} /\ end \in Nat /\ end <= Len(rules)
    BY <1>3, <1>5
  <2>2. Len(page) = (IF a + 1 <= end THEN end - (a + 1) + 1 ELSE 0)
        /\ \A k \in 1..Len(page) : page[k] = rules[a + 1 + k - 1]
    BY <1>2, <1>4, <2>1, PartLength
  <2>3. Len(page) = IF a + 1 <= end THEN end - a ELSE 0
    BY <1>3, <1>5, <2>2
  <2>4. ASSUME NEW k \in 1..Len(page)
        PROVE  page[k] = rules[a + k]
    <3>1. Len(page) \in Nat /\ k \in Nat /\ a + 1 + k - 1 = a + k
      BY <1>3, <1>5, <2>3
    <3>. QED
      BY <2>2, <3>1
  <2>. QED
    BY <2>3, <2>4
<1>10. /\ old \o page \in Seq(Rule)
       /\ Len(old \o page) = Len(old) + Len(page)
       /\ \A k \in 1..(Len(old) + Len(page)) :
            (old \o page)[k] = IF k <= Len(old) THEN old[k] ELSE page[k - Len(old)]
  BY <1>1, <1>4, ConcatProperties
<1>11. Len(old) + Len(page) = end /\ Len(page) \in Nat /\ (Len(page) > 0 => Len(old) = a)
  BY <1>1, <1>2, <1>3, <1>5, <1>8, <1>9
<1>12. ASSUME NEW j \in 1..end, j > Len(old)
       PROVE  (old \o page)[j] = rules[j]
  <2>1. Len(old) = a /\ j - a \in 1..Len(page) /\ ~(j <= Len(old))
    BY <1>1, <1>3, <1>5, <1>11, <1>12
  <2>2. (old \o page)[j] = page[j - a]
    BY <1>10, <1>11, <2>1
  <2>3. a + (j - a) = j
    BY <1>3, <1>5
  <2>. QED
    BY <1>9, <2>1, <2>2, <2>3
<1>13. ASSUME NEW j \in 1..Len(old)
       PROVE  (old \o page)[j] = old[j]
  <2>1. j \in 1..(Len(old) + Len(page)) /\ j <= Len(old)
    BY <1>1, <1>11
  <2>. QED
    BY <1>10, <2>1
<1>14. Len(old \o page) = end /\ Len(old) <= Len(old \o page)
  BY <1>1, <1>10, <1>11
<1>. QED
  BY <1>10, <1>12, <1>13, <1>14 DEF old, page, p, end, b

\* Reading a page goes on with the rules it began with, or with those of now.
LEMMA ReadKeeps ==
  ASSUME TypeOK, NEW i \in Isolates, ReadsOne(i), sync[i].at = "fetch", NEW total,
         Read(i, total), UNCHANGED <<rules, edits>>, total = Len(rules),
         sync[i].page > 1 => sync[i].total = Len(rules)
  PROVE  ReadsOne(i)'
<1>. DEFINE seen == sync[i].seen \o Page(sync[i].page)
<1>0. /\ sync[i] \in Syncs /\ sync[i].page \in Nat \ {0} /\ sync[i].seen \in Seq(Rule)
      /\ Len(sync[i].seen) \in Nat /\ rules \in Seq(Rule) /\ Len(rules) \in Nat
  BY LenProperties DEF TypeOK, Syncs
<1>1. /\ sync'[i].seen = seen /\ sync'[i].total = Len(rules) /\ sync'[i].page = sync[i].page + 1
      /\ sync'[i].edits = sync[i].edits /\ sync'[i].start = sync[i].start
  BY <1>0 DEF Read, TypeOK, Syncs
<1>2. /\ seen \in Seq(Rule) /\ Len(seen) \in Nat
      /\ Len(seen) = Smaller(sync[i].page * PageSize, Len(rules))
      /\ Len(sync[i].seen) <= Len(seen)
      /\ \A j \in 1..Len(sync[i].seen) : seen[j] = sync[i].seen[j]
      /\ \A j \in 1..Len(seen) : j > Len(sync[i].seen) => seen[j] = rules[j]
  BY PageExtends, LenProperties DEF ReadsOne
<1>3. Len(seen) <= Len(rules)
  <2>1. sync[i].page * PageSize \in Nat
    BY <1>0, Constants
  <2>. QED
    BY <1>0, <1>2, <2>1 DEF Smaller
<1>. HIDE DEF seen
<1>4. Aligned(i)'
  <2>1. sync'[i].page # 1 /\ sync'[i].page - 1 = sync[i].page
    BY <1>0, <1>1
  <2>. QED
    BY <1>1, <1>2, <2>1 DEF Aligned
<1>5. ASSUME Beginning(i, rules)
      PROVE  Beginning(i, rules)'
  <2>1. \A j \in 1..Len(seen) : seen[j] = rules[j]
    BY <1>0, <1>2, <1>5 DEF Beginning
  <2>. QED
    BY <1>1, <1>3, <2>1 DEF Beginning
<1>6. ASSUME NEW old \in Seq(Rule), OneEdit(old, rules), Beginning(i, old)
      PROVE  (Beginning(i, old) \/ Beginning(i, rules))'
  <2>1. CASE sync[i].page = 1
    <3>1. sync[i].seen = <<>> /\ Len(sync[i].seen) = 0
      BY <2>1 DEF ReadsOne, Aligned
    <3>2. Beginning(i, rules)
      BY <1>0, <2>1, <3>1 DEF Beginning
    <3>. QED
      BY <1>5, <3>2
  <2>2. CASE sync[i].page > 1
    <3>1. Len(old) = Len(rules)
      BY <1>6, <2>2 DEF Beginning
    <3>2. PICK n \in 1..Len(old) : \A j \in 1..Len(old) : j # n => old[j] = rules[j]
      BY <1>6, <3>1 DEF OneEdit
    <3>3. \A j \in 1..Len(sync[i].seen) : sync[i].seen[j] = old[j]
      BY <1>6 DEF Beginning
    <3>4. CASE n <= Len(sync[i].seen)
      <4>1. \A j \in 1..Len(seen) : seen[j] = old[j]
        BY <1>0, <1>2, <1>3, <3>1, <3>2, <3>3, <3>4
      <4>. QED
        BY <1>1, <1>3, <3>1, <4>1 DEF Beginning
    <3>5. CASE n > Len(sync[i].seen)
      <4>1. \A j \in 1..Len(seen) : seen[j] = rules[j]
        BY <1>0, <1>2, <1>3, <3>1, <3>2, <3>3, <3>5
      <4>. QED
        BY <1>1, <1>3, <4>1 DEF Beginning
    <3>. QED
      BY <1>0, <3>1, <3>2, <3>4, <3>5
  <2>. QED
    BY <1>0, <2>1, <2>2
<1>7. edits' = edits /\ rules' = rules
  OBVIOUS
<1>8. sync'[i].edits = edits' => Beginning(i, rules)'
  BY <1>1, <1>5, <1>7 DEF ReadsOne
<1>9. ASSUME edits' = sync'[i].edits + 1
      PROVE  (\E old \in Seq(Rule) : /\ Began(i, old) /\ OneEdit(old, rules)
                                     /\ Beginning(i, old) \/ Beginning(i, rules))'
  <2>1. PICK old \in Seq(Rule) : /\ Began(i, old) /\ OneEdit(old, rules)
                                 /\ Beginning(i, old) \/ Beginning(i, rules)
    BY <1>1, <1>7, <1>9 DEF ReadsOne
  <2>2. Began(i, old)' /\ OneEdit(old, rules')
    BY <1>1, <1>7, <2>1 DEF Began
  <2>3. (Beginning(i, old) \/ Beginning(i, rules))'
    BY <1>5, <1>6, <2>1
  <2>. QED
    BY <2>2, <2>3
<1>. QED
  BY <1>4, <1>8, <1>9 DEF ReadsOne

\* An edit meets a synchronization that reads what it began with, or a second edit does not matter.
LEMMA EditKeeps ==
  ASSUME TypeOK, Edit, NEW i \in Isolates, Moment(i)
  PROVE  Moment(i)'
<1>0. /\ sync[i] \in Syncs /\ sync[i].edits \in Nat /\ edits \in Nat /\ rules \in Seq(Rule)
  BY DEF TypeOK, Syncs
<1>1. sync' = sync /\ edits' = edits + 1
  BY DEF Edit
<1>2. sync[i].at # "none" => sync[i].edits < edits'
  BY <1>0, <1>1 DEF Moment
<1>3. Aligned(i) => Aligned(i)'
  BY <1>1 DEF Aligned
<1>4. ASSUME sync[i].at \in {"fetch", "plan"}, edits' = sync[i].edits + 1
      PROVE  (\E old \in Seq(Rule) : /\ Began(i, old) /\ OneEdit(old, rules)
                                     /\ Beginning(i, old) \/ Beginning(i, rules))'
  <2>1. sync[i].edits = edits
    BY <1>0, <1>1, <1>4
  <2>2. Seen(rules) = sync[i].start /\ Beginning(i, rules)
    BY <1>4, <2>1 DEF Moment, ReadsOne
  <2>3. PICK old \in Seq(Rule) : old = rules
    BY <1>0
  <2>4. Began(i, old)' /\ OneEdit(old, rules')
    BY <1>1, <2>2, <2>3, EditIsOne DEF Began
  <2>5. Beginning(i, old)'
    BY <1>1, <2>2, <2>3 DEF Beginning
  <2>. QED
    BY <2>4, <2>5
<1>5. ReadsOne(i)'
  <2>. SUFFICES ASSUME sync'[i].at \in {"fetch", "plan"}
                PROVE  /\ Aligned(i)'
                       /\ sync'[i].edits = edits' => Beginning(i, rules)'
                       /\ edits' = sync'[i].edits + 1 =>
                            (\E old \in Seq(Rule) : /\ Began(i, old) /\ OneEdit(old, rules)
                                                    /\ Beginning(i, old) \/ Beginning(i, rules))'
    BY DEF ReadsOne
  <2>1. sync[i].at \in {"fetch", "plan"} /\ sync[i].at # "none"
    BY <1>1
  <2>2. Aligned(i)'
    BY <1>3, <2>1 DEF Moment, ReadsOne
  <2>3. sync'[i].edits # edits'
    BY <1>0, <1>1, <1>2, <2>1
  <2>4. edits' = sync'[i].edits + 1 => edits' = sync[i].edits + 1
    BY <1>1
  <2>. QED
    BY <1>4, <2>1, <2>2, <2>3, <2>4
<1>. QED
  BY <1>0, <1>1, <1>2, <1>5 DEF Moment

\* A synchronization whose locals stay, and one that is at rest, are as they were.
LEMMA Untouched ==
  ASSUME NEW i \in Isolates, Moment(i), sync'[i] = sync[i], UNCHANGED <<rules, edits>>
  PROVE  Moment(i)'
BY DEF Moment, ReadsOne, Aligned, Beginning, Began

\* An isolate that gives up leaves the others as they are.
LEMMA LeavingKeeps ==
  ASSUME TypeOK, NEW i \in Isolates, Leave(i)
  PROVE  Moment(i)'
<1>1. sync'[i] = Nothing
  BY DEF TypeOK, Leave
<1>2. sync'[i].at = "none"
  BY <1>1 DEF Nothing
<1>. QED
  BY <1>2 DEF Moment, ReadsOne

\* What has all the rules of a list from its beginning has the rules of the list.
LEMMA WholeBeginning ==
  ASSUME TypeOK, NEW i \in Isolates, NEW s \in Seq(Rule), Beginning(i, s), sync[i].page > 1,
         Len(sync[i].seen) = sync[i].total
  PROVE  Seen(sync[i].seen) = Seen(s)
BY DEF Beginning, Seen

\* The plan of an isolate is of the rules at the beginning, or of those of now.
PlannedOne(i) ==
  sync[i].at \in {"batch", "verify"} /\ edits <= sync[i].edits + 1 =>
    Seen(sync[i].seen) \in {sync[i].start, Seen(rules)}

PlanInv == Counted => \A i \in Isolates : Moment(i) /\ PlannedOne(i)

\* The last page read gives a plan of the rules of one moment.
LEMMA ReadRowsOne ==
  ASSUME TypeOK, Counted, NEW i \in Isolates, Moment(i), ReadRows(i), sync'[i].at = "batch",
         edits <= sync[i].edits + 1
  PROVE  Seen(sync'[i].seen) \in {sync'[i].start, Seen(rules)}
<1>0. /\ sync[i] \in Syncs /\ sync[i].edits \in Nat /\ edits \in Nat /\ rules \in Seq(Rule)
  BY DEF TypeOK, Syncs
<1>1. sync[i].at = "plan" /\ sync[i].page > 1
  BY DEF ReadRows, At, Moment
<1>2. CASE Len(sync[i].seen) = sync[i].total
  <2>1. sync'[i].seen = sync[i].seen /\ sync'[i].start = sync[i].start
    <3>. DEFINE planned == [sync[i] EXCEPT !.at = "batch",
                              !.plan = deriveRoutingMailboxPlan(Seen(sync[i].seen)),
                              !.rows = {a \in Addresses : mailboxes[a].there},
                              !.managed = {a \in Addresses : mailboxes[a].managed}]
    <3>1. sync' = [sync EXCEPT ![i] = planned]
      BY <1>2, Zenon DEF ReadRows
    <3>2. sync'[i] = planned
      BY <3>1 DEF TypeOK
    <3>. QED
      BY <1>0, <3>2 DEF Syncs
  <2>2. edits = sync[i].edits \/ edits = sync[i].edits + 1
    BY <1>0, <1>1 DEF Moment
  <2>3. CASE Beginning(i, rules)
    BY <1>0, <1>1, <1>2, <2>1, <2>3, WholeBeginning
  <2>4. CASE edits = sync[i].edits
    BY <1>1, <2>3, <2>4 DEF Moment, ReadsOne
  <2>5. CASE edits = sync[i].edits + 1 /\ ~Beginning(i, rules)
    <3>1. PICK old \in Seq(Rule) : Began(i, old) /\ Beginning(i, old)
      BY <1>1, <2>5 DEF Moment, ReadsOne
    <3>2. Seen(sync[i].seen) = Seen(old)
      BY <1>1, <1>2, <3>1, WholeBeginning
    <3>. QED
      BY <2>1, <3>1, <3>2 DEF Began
  <2>. QED
    BY <2>2, <2>3, <2>4, <2>5
<1>3. CASE Len(sync[i].seen) # sync[i].total
  <2>1. sync'[i] = Nothing
    BY <1>3 DEF ReadRows, Leave, TypeOK
  <2>. QED
    BY <2>1 DEF Nothing
<1>. QED
  BY <1>2, <1>3

\* The isolate that takes a step.
LEMMA OwnStep ==
  ASSUME TypeOK, Counted, NEW i \in Isolates, Moment(i), PlannedOne(i),
         Start(i) \/ FetchRulesPage(i) \/ ReadRows(i) \/ ApplyBatch(i) \/ Verify(i) \/ Fail(i)
  PROVE  Moment(i)' /\ PlannedOne(i)'
<1>0. /\ sync \in [Isolates -> Syncs] /\ sync[i] \in Syncs /\ sync[i].edits \in Nat /\ edits \in Nat
      /\ rules \in Seq(Rule) /\ sync[i].page \in Nat \ {0}
  BY DEF TypeOK, Syncs
<1>1. rules' = rules /\ edits' = edits
  BY DEF Start, FetchRulesPage, ReadRows, ApplyBatch, Verify, Fail
<1>2. CASE Leave(i)
  <2>1. sync'[i] = Nothing
    BY <1>0, <1>2 DEF Leave
  <2>2. PlannedOne(i)'
    BY <2>1 DEF PlannedOne, Nothing
  <2>. QED
    BY <1>2, <2>2, LeavingKeeps
<1>3. CASE Start(i)
  <2>1. /\ sync'[i].at = "fetch" /\ sync'[i].page = 1 /\ sync'[i].seen = <<>>
        /\ sync'[i].start = Seen(rules) /\ sync'[i].edits = edits
    BY <1>0, <1>3 DEF Start, Nothing
  <2>2. Aligned(i)'
    BY <2>1 DEF Aligned
  <2>3. Beginning(i, rules)'
    BY <1>0, <1>1, <2>1, LenProperties DEF Beginning
  <2>4. ReadsOne(i)'
    BY <1>0, <1>1, <2>1, <2>2, <2>3 DEF ReadsOne
  <2>. QED
    BY <1>0, <1>1, <2>1, <2>4 DEF Moment, PlannedOne
<1>4. CASE FetchRulesPage(i) /\ ~Leave(i)
  <2>1. PICK total : /\ Read(i, total) /\ total = Len(rules)
                     /\ sync[i].page > 1 => sync[i].total = Len(rules)
    BY <1>0, <1>4 DEF FetchRulesPage, Accepted
  <2>2. sync[i].at = "fetch" /\ ReadsOne(i)
    BY <1>4 DEF FetchRulesPage, At, Moment
  <2>3. ReadsOne(i)'
    BY <1>1, <2>1, <2>2, ReadKeeps
  <2>4. /\ sync'[i].page = sync[i].page + 1 /\ sync'[i].at \in {"fetch", "plan"}
        /\ sync'[i].edits = sync[i].edits /\ sync'[i].start = sync[i].start
    BY <1>0, <2>1 DEF Read, Syncs
  <2>5. sync'[i].page > 1
    BY <1>0, <2>4
  <2>6. sync[i].at # "none"
    BY <2>2
  <2>. QED
    BY <1>1, <2>3, <2>4, <2>5, <2>6 DEF Moment, PlannedOne
<1>5. CASE ReadRows(i) /\ ~Leave(i)
  <2>. DEFINE planned == [sync[i] EXCEPT !.at = "batch",
                            !.plan = deriveRoutingMailboxPlan(Seen(sync[i].seen)),
                            !.rows = {a \in Addresses : mailboxes[a].there},
                            !.managed = {a \in Addresses : mailboxes[a].managed}]
  <2>1. sync' = [sync EXCEPT ![i] = planned]
    BY <1>5, Zenon DEF ReadRows
  <2>2. sync'[i] = planned
    BY <1>0, <2>1
  <2>3. sync'[i].at = "batch" /\ sync'[i].edits = sync[i].edits /\ sync'[i].start = sync[i].start
    BY <1>0, <2>2 DEF Syncs
  <2>4. sync[i].at = "plan"
    BY <1>5 DEF ReadRows, At
  <2>. HIDE DEF planned
  <2>5. edits' <= sync'[i].edits + 1 => Seen(sync'[i].seen) \in {sync'[i].start, Seen(rules)}
    BY <1>1, <1>5, <2>3, ReadRowsOne
  <2>. QED
    BY <1>1, <2>3, <2>4, <2>5 DEF Moment, ReadsOne, PlannedOne
<1>6. CASE ApplyBatch(i) /\ ~Leave(i)
  <2>1. sync' = [sync EXCEPT ![i].at = "verify"] /\ sync[i].at = "batch"
    BY <1>6, Zenon DEF ApplyBatch, At
  <2>2. /\ sync'[i].at = "verify" /\ sync'[i].edits = sync[i].edits /\ sync'[i].start = sync[i].start
        /\ sync'[i].seen = sync[i].seen
    BY <1>0, <2>1 DEF Syncs
  <2>. QED
    BY <1>1, <2>1, <2>2 DEF Moment, ReadsOne, PlannedOne
<1>. QED
  BY <1>2, <1>3, <1>4, <1>5, <1>6 DEF Verify, Fail

\* It is so in the first state, and after every step.
LEMMA PlanInvStep == TypeOK /\ PlanInv /\ [Next]_vars => PlanInv'
<1>. SUFFICES ASSUME TypeOK, PlanInv, [Next]_vars, Counted, NEW i \in Isolates
              PROVE  Moment(i)' /\ PlannedOne(i)'
  BY DEF PlanInv
<1>0. Moment(i) /\ PlannedOne(i) /\ sync \in [Isolates -> Syncs]
  BY DEF PlanInv, TypeOK
<1>1. CASE sync'[i] = sync[i] /\ rules' = rules /\ edits' = edits
  <2>1. Moment(i)'
    BY <1>0, <1>1, Untouched
  <2>. QED
    BY <1>0, <1>1, <2>1 DEF PlannedOne
<1>2. CASE Edit
  <2>1. Moment(i)'
    BY <1>0, <1>2, EditKeeps
  <2>2. sync[i].edits \in Nat /\ edits \in Nat /\ edits' = edits + 1 /\ sync' = sync
    BY <1>2 DEF Edit, TypeOK, Syncs
  <2>3. PlannedOne(i)'
    <3>. SUFFICES ASSUME sync[i].at \in {"batch", "verify"}, edits' <= sync[i].edits + 1
                  PROVE  Seen(sync[i].seen) = sync[i].start
      BY <2>2 DEF PlannedOne
    <3>1. sync[i].at # "none" /\ edits = sync[i].edits
      BY <1>0, <2>2 DEF Moment
    <3>. QED
      BY <1>0, <2>2, <3>1 DEF Moment, PlannedOne
  <2>. QED
    BY <2>1, <2>3
<1>3. ASSUME NEW j \in Isolates,
             Start(j) \/ FetchRulesPage(j) \/ ReadRows(j) \/ ApplyBatch(j) \/ Verify(j) \/ Fail(j)
      PROVE  Moment(i)' /\ PlannedOne(i)'
  <2>1. CASE i = j
    BY <1>0, <1>3, <2>1, OwnStep
  <2>2. CASE i # j
    <3>1. rules' = rules /\ edits' = edits
      BY <1>3 DEF Start, FetchRulesPage, ReadRows, ApplyBatch, Verify, Fail
    <3>2. sync'[i] = sync[i]
      BY <1>0, <1>3, <2>2 DEF Start, FetchRulesPage, Read, ReadRows, ApplyBatch, Verify, Fail, Leave
    <3>. QED
      BY <1>1, <3>1, <3>2
  <2>. QED
    BY <2>1, <2>2
<1>4. CASE UNCHANGED vars
  BY <1>1, <1>4 DEF vars
<1>. QED
  BY <1>2, <1>3, <1>4 DEF Next

\* Nothing is read in the first state.
LEMMA PlanInvInit == Init => PlanInv
<1>. SUFFICES ASSUME Init, NEW i \in Isolates PROVE Moment(i) /\ PlannedOne(i)
  BY DEF PlanInv
<1>1. sync[i].at = "none"
  BY DEF Init, Nothing
<1>. QED
  BY <1>1 DEF Moment, ReadsOne, PlannedOne

\* Whatever the rules are, however long the pages, and wherever the edit falls between two of
\* them, if the API counts the rules: a plan is made from the rules of one moment, unless they were edited twice meanwhile.
THEOREM PlanOfOneMoment == Spec => []PlanIsOfOneMoment
<1>1. PlanInv => PlanIsOfOneMoment
  BY DEF PlanInv, PlannedOne, PlanIsOfOneMoment
<1>. QED
  BY <1>1, PlanInvInit, PlanInvStep, TypeCorrect, PTL DEF Spec

-----------------------------------------------------------------------------
(* PART TWO: the commands of the operator                                  *)
(*                                                                         *)
(* A command is one step after the other between the state files and the   *)
(* Worker, so what holds depends on the step it has come to: the parts of  *)
(* the invariant say so for groups of steps.                               *)

\* The steps of a switch before the journal tells of it, and those that bring the files up to it.
Switching == {"write_next", "dry_run", "apply", "reconcile", "put_webhook_secret", "deploy_next",
              "switched"}
Converging == {"generated", "state", "config", "clean_up", "remove_next", "clear"}
Removing == {"delete_webhook", "delete_secrets"}
Configuring == {"write_credentials", "write_config", "apply_active"}
Establishing ==
  {"ensure_d1", "ensure_r2", "put_sentinel", "write_generated", "write_state", "configure_secrets"}
Rotating ==
  {"set_credential", "journal_local", "put_secret", "journal_remote", "verify", "clear_rotation",
   "put_again"}

\* A command has what it works on, and so have the two journals.
RunIsNamed ==
  /\ run.at \in Switching \union Converging \union Removing \union Configuring \union Establishing
       => run.provider \in Providers
  /\ run.at \in Switching \union Converging => run.from \in Providers
  /\ run.at \in Rotating => run.key \in Keys /\ run.key = rotation.key /\ rotation.phase # "none"
  /\ rotation.phase # "none" => rotation.key \in Keys
  /\ journal.phase # "none" => journal.from \in Providers /\ journal.to \in Providers /\ resourcesNamed

\* Unless a deployment is between its steps, the Worker runs with what the setup state says.
FilesTell ==
  setup # Missing /\ ~Pending /\ gaps = {} /\ run.at \notin {"switched", "configure_secrets", "deploy"}
    => deployed = setup.provider

\* A deployment by setup is of what its files say; it overtakes a switch only with a gap;
\* and what is removed is not what the setup state names.
SetupTells ==
  /\ run.at \in {"configure_secrets", "deploy"} => setup # Missing /\ generated = setup.provider
  /\ run.at = "write_state" => generated = run.provider
  /\ run.at \in Establishing \union {"deploy"} /\ Pending => gaps # {}
  /\ run.at \in Removing => setup # Missing /\ setup.provider # run.provider /\ ~Pending

\* The journal of a switch, and its file NEXT, name the provider that is switched to.
SwitchIsJournaled ==
  /\ run.at \in Switching => journal.phase = "prepared" /\ journal.from = run.from
       /\ journal.to = run.provider
  /\ run.at \in Switching \ {"write_next"} => next = run.provider
  /\ run.at = "switched" => deployed = run.provider
  /\ Pending => next \in {Missing, journal.to} /\ (gaps = {} => deployed = journal.to)

\* The files that come before a step are brought up to the deployment already.
Converges ==
  /\ run.at \in Converging => Pending /\ run.provider = journal.to /\ run.from = journal.from
  /\ run.at \in Converging \ {"generated"} => generated = run.provider
  /\ run.at \in Converging \ {"generated", "state"} => setup = [provider |-> run.provider, sha |-> head]
  /\ run.at \in {"clean_up", "remove_next", "clear"} => config = run.provider
  /\ run.at \in {"remove_next", "clear"}
       => \A k \in Runtime[run.from] \ Runtime[run.provider] : secrets[k] = 0

\* The Worker has the keys of its provider, and what is put is a value.
ValuesAreThere ==
  /\ DeployedProviderHasItsKey
  /\ run.at = "put_webhook_secret" => run.provider \in DOMAIN WebhookKey
       /\ store[WebhookKey[run.provider]] # 0
  /\ run.at \in {"set_credential", "journal_local", "put_secret", "put_again"} => run.value # 0

\* A rotation that clears its journal has put the value that the shell shows.
RotationIsHeld ==
  /\ run.at \in {"journal_remote", "verify"} => secrets[run.key] = run.value
  /\ run.at = "put_again" => run.value = Load(run.shell)[run.key]
  /\ run.at = "clear_rotation" =>
       \/ run.key \in OperatorLocal
       \/ Load(run.shell)[run.key] \in {0, secrets[run.key]}

\* The inductive invariant.
OperatorInv ==
  /\ OperatorTypeOK /\ RunIsNamed /\ FilesTell /\ SetupTells /\ SwitchIsJournaled /\ Converges
  /\ ValuesAreThere /\ RotationIsHeld

-----------------------------------------------------------------------------
(* What the parts of the actions do to the command that runs and to the values *)

\* A command that ends leaves nothing running.
LEMMA Ends ==
  Rest \in Runs /\ Rest.at = "rest"
BY OperatorAssumption DEF Rest, Runs, Steps, Maybe, Values, NoShell

\* A step keeps what the command works on.
LEMMA Goes ==
  ASSUME run \in Runs, NEW s \in Steps, Goto(s)
  PROVE  /\ run' \in Runs /\ run'.at = s
         /\ run'.provider = run.provider /\ run'.from = run.from /\ run'.key = run.key
         /\ run'.value = run.value /\ run'.shell = run.shell /\ run'.given = run.given
         /\ run'.todo = run.todo
BY DEF Goto, Runs

\* The journals before they are written and after they are cleared.
LEMMA Cleared ==
  /\ NoJournal \in Journals /\ NoJournal.phase = "none"
  /\ NoRotation \in Rotations /\ NoRotation.phase = "none"
BY OperatorAssumption DEF NoJournal, NoRotation, Journals, Rotations, Maybe

\* The values that a command finds are values.
LEMMA Loads ==
  ASSUME OperatorTypeOK, NEW shell \in Values
  PROVE  Load(shell) \in Values
BY DEF OperatorTypeOK, Load, Values

\* So are the ones that it puts and drops.
LEMMA Puts ==
  ASSUME OperatorTypeOK, NEW K, NEW values \in Values
  PROVE  Put(K, values) \in Values
BY DEF OperatorTypeOK, Put, Values

\* What is dropped leaves values.
LEMMA Drops ==
  ASSUME OperatorTypeOK, NEW K
  PROVE  Drop(K) \in Values
BY OperatorAssumption DEF OperatorTypeOK, Drop, Values

\* One more value leaves values.
LEMMA Updates ==
  ASSUME NEW f \in Values, NEW k \in Keys, NEW v \in 0..MaxValue
  PROVE  [f EXCEPT ![k] = v] \in Values /\ [f EXCEPT ![k] = v][k] = v
BY DEF Values

\* The bounds are numbers.
LEMMA OperatorBounds ==
  MaxValue \in Nat \ {0} /\ MaxCommands \in Nat /\ MaxStops \in Nat /\ MaxCommits \in Nat
BY OperatorAssumption

\* The keys of a provider are keys, and a deployment needs no others.
LEMMA NeededKeys ==
  ASSUME NEW p \in Providers
  PROVE  /\ Runtime[p] \subseteq Keys \ (Common \union {Bootstrap})
         /\ {Pepper} \union Required[p] \subseteq Common \union Runtime[p]
         /\ \A q \in Providers : q # p => Runtime[q] \intersect Runtime[p] = {}
         /\ Common \union {Bootstrap} \union Runtime[p] \subseteq Keys
BY OperatorAssumption

\* Values that are put let a provider be deployed that could be before.
LEMMA PutKeeps ==
  ASSUME NEW p \in Providers, MayDeploy(p), NEW K, NEW values,
         \A k \in K : values[k] # 0, secrets' = Put(K, values)
  PROVE  \A k \in {Pepper} \union Required[p] : secrets'[k] # 0
BY NeededKeys DEF MayDeploy, Put

\* A provider can still be deployed without what it does not need.
LEMMA DropKeeps ==
  ASSUME NEW p \in Providers, MayDeploy(p), NEW K, K \intersect ({Pepper} \union Required[p]) = {},
         secrets' = Drop(K)
  PROVE  \A k \in {Pepper} \union Required[p] : secrets'[k] # 0
BY NeededKeys DEF MayDeploy, Drop

\* A command begins in a shell, with the values that it finds there.
LEMMA Begins ==
  ASSUME OperatorTypeOK, NEW c \in Runs, Begin(c)
  PROVE  /\ run.at = "rest" /\ commands' \in 0..MaxCommands
         /\ run' \in Runs /\ run'.shell \in Shells /\ run'.given = Load(run'.shell)
         /\ run'.at = c.at /\ run'.provider = c.provider /\ run'.from = c.from
         /\ run'.key = c.key /\ run'.value = c.value
<1>1. PICK shell \in Shells : run' = [c EXCEPT !.shell = shell, !.given = Load(shell)]
  BY DEF Begin
<1>2. shell \in Values /\ Load(shell) \in Values
  BY Loads, OperatorAssumption DEF Values
<1>3. run.at = "rest" /\ commands' \in 0..MaxCommands
  BY Ends, OperatorAssumption DEF Begin, OperatorTypeOK
<1>. QED
  BY <1>1, <1>2, <1>3 DEF Runs

-----------------------------------------------------------------------------
(* What the commands do when they begin *)

\* set.
LEMMA SetBegins ==
  ASSUME OperatorTypeOK, NEW p \in Providers, StartSet(p)
  PROVE  /\ run.at = "rest" /\ commands' \in 0..MaxCommands /\ run' \in Runs
         /\ ~Pending /\ setup # Missing /\ setup.provider \in Providers /\ resourcesNamed
         /\ run'.at = "write_next" /\ run'.provider = p /\ run'.from = setup.provider
         /\ journal' \in Journals
         /\ journal' = [phase |-> "prepared", from |-> setup.provider, to |-> p, sha |-> head]
         /\ UNCHANGED <<head, config, resourcesNamed, setup, generated, next, store, rotation,
                        invented, deployed, secrets, webhook, resources, gaps, stops>>
<1>. DEFINE c == [Rest EXCEPT !.at = "write_next", !.provider = p, !.from = setup.provider]
<1>1. setup # Missing /\ setup.provider \in Providers /\ resourcesNamed /\ Begin(c)
  BY DEF StartSet, StateIsValid, Consistent, OperatorTypeOK
<1>2. c \in Runs /\ c.at = "write_next" /\ c.provider = p /\ c.from = setup.provider
  BY <1>1, Ends DEF Runs, Steps, Maybe
<1>3. [phase |-> "prepared", from |-> setup.provider, to |-> p, sha |-> head] \in Journals
  BY <1>1 DEF OperatorTypeOK, Journals, Maybe
<1>4. run.at = "rest" /\ commands' \in 0..MaxCommands /\ run' \in Runs /\ run'.at = "write_next"
      /\ run'.provider = p /\ run'.from = setup.provider
  BY <1>1, <1>2, Begins
<1>. QED
  BY <1>1, <1>3, <1>4 DEF StartSet, files, credentials, worker

\* remove.
LEMMA RemoveBegins ==
  ASSUME OperatorTypeOK, NEW p \in Providers, StartRemove(p)
  PROVE  /\ run.at = "rest" /\ commands' \in 0..MaxCommands /\ run' \in Runs
         /\ ~Pending /\ setup # Missing /\ setup.provider # p
         /\ run'.at = "delete_webhook" /\ run'.provider = p
         /\ UNCHANGED <<head, config, resourcesNamed, setup, generated, next, journal, store,
                        rotation, invented, deployed, secrets, webhook, resources, gaps, stops>>
<1>. DEFINE c == [Rest EXCEPT !.at = "delete_webhook", !.provider = p]
<1>1. c \in Runs /\ c.at = "delete_webhook" /\ c.provider = p /\ Begin(c)
  BY Ends DEF StartRemove, OperatorTypeOK, Runs, Steps, Maybe
<1>2. run.at = "rest" /\ commands' \in 0..MaxCommands /\ run' \in Runs
      /\ run'.at = "delete_webhook" /\ run'.provider = p
  BY <1>1, Begins
<1>. QED
  BY <1>2 DEF StartRemove, files, credentials, worker, StateIsValid, Consistent

\* credentials apply.
LEMMA ApplyBegins ==
  ASSUME OperatorTypeOK, StartApply
  PROVE  /\ run.at = "rest" /\ commands' \in 0..MaxCommands /\ run' \in Runs
         /\ run'.at = "apply_active" /\ run'.provider \in Providers
         /\ UNCHANGED <<head, config, resourcesNamed, setup, generated, next, journal, store,
                        rotation, invented, deployed, secrets, webhook, resources, gaps, stops>>
<1>. DEFINE c == [Rest EXCEPT !.at = "apply_active", !.provider = config]
<1>1. c \in Runs /\ c.at = "apply_active" /\ c.provider = config /\ Begin(c)
  BY Ends DEF StartApply, OperatorTypeOK, Runs, Steps, Maybe
<1>2. run.at = "rest" /\ commands' \in 0..MaxCommands /\ run' \in Runs
      /\ run'.at = "apply_active" /\ run'.provider = config
  BY <1>1, Begins
<1>. QED
  BY <1>2 DEF StartApply, files, credentials, worker, OperatorTypeOK

\* configure.
LEMMA ConfigureBegins ==
  ASSUME OperatorTypeOK, NEW p \in Providers, StartConfigure(p)
  PROVE  /\ run.at = "rest" /\ commands' \in 0..MaxCommands /\ run' \in Runs
         /\ run'.at = "write_credentials" /\ run'.provider = p
         /\ UNCHANGED <<head, config, resourcesNamed, setup, generated, next, journal, store,
                        rotation, invented, deployed, secrets, webhook, resources, gaps, stops>>
<1>. DEFINE c == [Rest EXCEPT !.at = "write_credentials", !.provider = p]
<1>1. c \in Runs /\ c.at = "write_credentials" /\ c.provider = p /\ Begin(c)
  BY Ends DEF StartConfigure, OperatorTypeOK, Runs, Steps, Maybe
<1>2. run.at = "rest" /\ commands' \in 0..MaxCommands /\ run' \in Runs
      /\ run'.at = "write_credentials" /\ run'.provider = p
  BY <1>1, Begins
<1>. QED
  BY <1>2 DEF StartConfigure, files, credentials, worker

\* setup.
LEMMA SetupBegins ==
  ASSUME OperatorTypeOK, StartSetup
  PROVE  /\ run.at = "rest" /\ commands' \in 0..MaxCommands /\ run' \in Runs
         /\ run'.at = "ensure_d1" /\ run'.provider \in Providers
         /\ generated' = Missing /\ gaps \subseteq gaps' /\ gaps' \subseteq gaps \union {"overtaken"}
         /\ (Pending => gaps' # {})
         /\ UNCHANGED <<head, config, resourcesNamed, setup, next, journal, store, rotation,
                        invented, deployed, secrets, webhook, resources, stops>>
<1>. DEFINE c == [Rest EXCEPT !.at = "ensure_d1", !.provider = config]
<1>1. c \in Runs /\ c.at = "ensure_d1" /\ c.provider = config /\ Begin(c)
  BY Ends DEF StartSetup, OperatorTypeOK, Runs, Steps, Maybe
<1>2. run.at = "rest" /\ commands' \in 0..MaxCommands /\ run' \in Runs /\ run'.at = "ensure_d1"
      /\ run'.provider = config
  BY <1>1, Begins
<1>. QED
  BY <1>2 DEF StartSetup, files, credentials, worker, OperatorTypeOK

\* setup:deploy.
LEMMA DeployBegins ==
  ASSUME OperatorTypeOK, StartDeployOnly
  PROVE  /\ run.at = "rest" /\ commands' \in 0..MaxCommands /\ run' \in Runs
         /\ setup # Missing /\ generated = setup.provider
         /\ run'.at = "deploy"
         /\ gaps \subseteq gaps' /\ gaps' \subseteq gaps \union {"overtaken"} /\ (Pending => gaps' # {})
         /\ UNCHANGED <<head, config, resourcesNamed, setup, generated, next, journal, store,
                        rotation, invented, deployed, secrets, webhook, resources, stops>>
<1>. DEFINE c == [Rest EXCEPT !.at = "deploy"]
<1>1. c \in Runs /\ c.at = "deploy" /\ Begin(c)
  BY Ends DEF StartDeployOnly, OperatorTypeOK, Runs, Steps, Maybe
<1>2. run.at = "rest" /\ commands' \in 0..MaxCommands /\ run' \in Runs /\ run'.at = "deploy"
  BY <1>1, Begins
<1>. QED
  BY <1>2 DEF StartDeployOnly, files, credentials, worker, StateIsValid, Consistent

\* setup:remove-bootstrap.
LEMMA RemoveBootstrapBegins ==
  ASSUME OperatorTypeOK, StartRemoveBootstrap
  PROVE  /\ run.at = "rest" /\ commands' \in 0..MaxCommands /\ run' \in Runs
         /\ run'.at = "remove_bootstrap"
         /\ UNCHANGED <<head, config, resourcesNamed, setup, generated, next, journal, store,
                        rotation, invented, deployed, secrets, webhook, resources, gaps, stops>>
<1>. DEFINE c == [Rest EXCEPT !.at = "remove_bootstrap"]
<1>1. c \in Runs /\ c.at = "remove_bootstrap" /\ Begin(c)
  BY Ends DEF StartRemoveBootstrap, OperatorTypeOK, Runs, Steps, Maybe
<1>2. run.at = "rest" /\ commands' \in 0..MaxCommands /\ run' \in Runs /\ run'.at = "remove_bootstrap"
  BY <1>1, Begins
<1>. QED
  BY <1>2 DEF StartRemoveBootstrap, files, credentials, worker

\* credentials rotate.
LEMMA RotateBegins ==
  ASSUME OperatorTypeOK, NEW k \in Keys, StartRotate(k)
  PROVE  /\ run.at = "rest" /\ commands' \in 0..MaxCommands /\ run' \in Runs
         /\ run'.at = "set_credential" /\ run'.key = k /\ run'.value = invented'
         /\ rotation' \in Rotations /\ rotation' = [phase |-> "prepared", key |-> k]
         /\ invented' \in (0..MaxValue) \ {0}
         /\ UNCHANGED <<head, config, resourcesNamed, setup, generated, next, journal, store,
                        deployed, secrets, webhook, resources, gaps, stops>>
<1>. DEFINE c == [Rest EXCEPT !.at = "set_credential", !.key = k, !.value = invented']
<1>1. invented' \in (0..MaxValue) \ {0} /\ Begin(c)
  BY OperatorAssumption DEF StartRotate, OperatorTypeOK
<1>2. c \in Runs /\ c.at = "set_credential" /\ c.key = k /\ c.value = invented'
  BY <1>1, Ends DEF Runs, Steps
<1>3. run.at = "rest" /\ commands' \in 0..MaxCommands /\ run' \in Runs
      /\ run'.at = "set_credential" /\ run'.key = k /\ run'.value = invented'
  BY <1>1, <1>2, Begins
<1>. QED
  BY <1>1, <1>3 DEF StartRotate, Rotations, files, worker

\* provider recover.
LEMMA RecoverBegins ==
  ASSUME OperatorTypeOK, RunIsNamed, StartRecover
  PROVE  /\ run.at = "rest" /\ next \in Providers /\ next # Missing
         /\ Pending
         /\ run' \in Runs /\ run'.at = "generated" /\ run'.provider = next /\ run'.from = journal.from
         /\ UNCHANGED <<head, config, resourcesNamed, setup, generated, next, journal, store,
                        rotation, invented, deployed, secrets, webhook, resources, gaps,
                        commands, stops>>
<1>1. next \in Providers /\ next # Missing /\ run.at = "rest" /\ journal.from \in Providers
  BY Ends DEF StartRecover, OperatorTypeOK, Maybe, RunIsNamed, Pending
<1>. QED
  BY <1>1, Ends DEF StartRecover, Runs, Steps, Maybe, files, credentials, worker, bounds

\* credentials recover.
LEMMA RecoverRotationBegins ==
  ASSUME OperatorTypeOK, RunIsNamed, StartRecoverRotation
  PROVE  /\ run.at = "rest"
         /\ run' \in Runs /\ run'.key = rotation.key /\ run'.value = Load(run'.shell)[rotation.key]
         /\ IF rotation.key \notin OperatorLocal /\ run'.value # 0
            THEN run'.at = "put_again" ELSE run'.at = "clear_rotation"
         /\ rotation.phase # "none"
         /\ UNCHANGED <<head, config, resourcesNamed, setup, generated, next, journal, store,
                        rotation, invented, deployed, secrets, webhook, resources, gaps,
                        commands, stops>>
<1>. DEFINE put(shell) == rotation.key \notin OperatorLocal /\ Load(shell)[rotation.key] # 0
            step(shell) == IF put(shell) THEN "put_again" ELSE "clear_rotation"
<1>. rotation.key \in Keys
  BY DEF StartRecoverRotation, RotationPending, RunIsNamed
<1>1. PICK shell \in Shells :
        run' = [Rest EXCEPT !.at = step(shell), !.key = rotation.key,
                            !.value = Load(shell)[rotation.key], !.shell = shell]
  BY DEF StartRecoverRotation
<1>2. shell \in Values /\ Load(shell)[rotation.key] \in 0..MaxValue /\ step(shell) \in Steps
  BY Loads, OperatorAssumption DEF Values, Steps
<1>3. /\ run' \in Runs /\ run'.key = rotation.key /\ run'.shell = shell
      /\ run'.value = Load(shell)[rotation.key] /\ run'.at = step(shell)
  <2>. HIDE DEF step
  <2>. QED
    BY <1>1, <1>2, Ends DEF Runs
<1>. QED
  BY <1>3, Ends DEF StartRecoverRotation, RotationPending, files, credentials, worker, bounds

\* The steps of a setup that make and use the list of the secrets left to put.
LEMMA TodoMade ==
  ASSUME OperatorTypeOK, RunIsNamed, WriteState
  PROVE  /\ run.at = "write_state" /\ run' \in Runs /\ run'.at = "configure_secrets"
         /\ run'.provider = run.provider
         /\ setup' \in [provider : Providers, sha : 0..MaxCommits] /\ setup' # Missing
         /\ setup'.provider = run.provider
         /\ UNCHANGED <<head, config, resourcesNamed, generated, next, journal, store, rotation,
                        invented, deployed, secrets, webhook, resources, gaps, commands, stops>>
<1>. run.provider \in Providers
  BY DEF WriteState, Doing, RunIsNamed, Establishing
<1>1. Common \union {Bootstrap} \union Runtime[run.provider] \in SUBSET Keys
  BY NeededKeys
<1>2. run' \in Runs /\ run'.at = "configure_secrets" /\ run'.provider = run.provider
  BY <1>1 DEF WriteState, OperatorTypeOK, Runs, Steps
<1>3. [provider |-> run.provider, sha |-> head] \in [provider : Providers, sha : 0..MaxCommits]
      /\ [provider |-> run.provider, sha |-> head] # Missing
  BY OperatorAssumption DEF OperatorTypeOK
<1>. QED
  BY <1>2, <1>3 DEF WriteState, Doing, OperatorTypeOK, files, credentials, worker, bounds

\* One secret put, or skipped, or none left.
LEMMA TodoDone ==
  ASSUME OperatorTypeOK, ConfigureSecrets
  PROVE  /\ run.at = "configure_secrets" /\ run'.at \in {"configure_secrets", "deploy"}
         /\ run' \in Runs /\ run'.provider = run.provider
         /\ \/ secrets' = secrets
            \/ \E K : secrets' = Put(K, run.given) /\ \A k \in K : run.given[k] # 0
         /\ UNCHANGED <<head, config, resourcesNamed, setup, generated, next, journal, store,
                        rotation, invented, deployed, webhook, resources, gaps, commands,
                        stops>>
<1>1. run \in Runs /\ run.at = "configure_secrets"
  BY DEF OperatorTypeOK, ConfigureSecrets, Doing
<1>2. ASSUME NEW k \in run.todo,
             secrets' = IF run.given[k] # 0 THEN Put({k}, run.given) ELSE secrets,
             run' = [run EXCEPT !.todo = @ \ {k}]
      PROVE  /\ run' \in Runs /\ run'.at = run.at /\ run'.provider = run.provider
             /\ \/ secrets' = secrets
                \/ \E K : secrets' = Put(K, run.given) /\ \A l \in K : run.given[l] # 0
  BY <1>1, <1>2 DEF Runs
<1>3. ASSUME Goto("deploy")
      PROVE  run' \in Runs /\ run'.at = "deploy" /\ run'.provider = run.provider
  BY <1>1, <1>3, Goes DEF Steps
<1>. QED
  BY <1>1, <1>2, <1>3 DEF ConfigureSecrets, files, credentials, worker, bounds

\* A webhook's key is a key.
LEMMA WebhookKeys ==
  ASSUME NEW p \in DOMAIN WebhookKey
  PROVE  p \in Providers /\ WebhookKey[p] \in Keys
BY OperatorAssumption

\* The reconciliation of a webhook that mints its secret.
LEMMA Reconciled ==
  ASSUME OperatorTypeOK, Reconcile
  PROVE  /\ run.at = "reconcile" /\ run'.at \in {"deploy_next", "put_webhook_secret"}
         /\ run' \in Runs /\ run'.provider = run.provider /\ run'.from = run.from
         /\ store' \in Values /\ invented' \in 0..MaxValue
         /\ webhook' \in [DOMAIN WebhookKey -> 0..MaxValue]
         /\ run'.at = "put_webhook_secret" =>
              run.provider \in DOMAIN WebhookKey /\ store'[WebhookKey[run.provider]] # 0
         /\ UNCHANGED <<head, config, resourcesNamed, setup, generated, next, journal, rotation,
                        deployed, secrets, resources, gaps, commands, stops>>
<1>. DEFINE p == run.provider
            managed == p \in DOMAIN WebhookKey /\ \E k \in SetupKeys[p] : run.given[k] # 0
<1>0. run.at = "reconcile" /\ run \in Runs /\ run.given \in Values /\ store \in Values
  BY DEF Reconcile, Doing, OperatorTypeOK, Runs
<1>1. /\ Goto("deploy_next") => run' \in Runs /\ run'.at = "deploy_next" /\ run'.provider = p
           /\ run'.from = run.from
      /\ Goto("put_webhook_secret")
           => run' \in Runs /\ run'.at = "put_webhook_secret" /\ run'.provider = p /\ run'.from = run.from
  BY <1>0, Goes DEF Steps
<1>2. /\ UNCHANGED <<head, config, resourcesNamed, setup, generated, next, journal, rotation,
                     deployed, secrets, resources, gaps, commands, stops>>
      /\ \/ Goto("deploy_next") /\ UNCHANGED <<store, webhook, invented>>
         \/ /\ p \in DOMAIN WebhookKey
            /\ \/ webhook[p] # 0 /\ UNCHANGED <<webhook, invented>>
               \/ /\ invented < MaxValue /\ invented' = invented + 1
                  /\ webhook' = [webhook EXCEPT ![p] = invented']
            /\ store' = [store EXCEPT ![WebhookKey[p]] = webhook'[p]]
            /\ Goto("put_webhook_secret")
         \/ /\ p \in DOMAIN WebhookKey
            /\ UNCHANGED webhook \/ webhook' = [webhook EXCEPT ![p] = run.given[WebhookKey[p]]]
            /\ Goto("deploy_next") /\ UNCHANGED <<store, invented>>
  BY DEF Reconcile, files, bounds
<1>3. CASE Goto("deploy_next") /\ UNCHANGED <<store, webhook, invented>>
  BY <1>0, <1>1, <1>2, <1>3 DEF OperatorTypeOK
<1>4. CASE /\ p \in DOMAIN WebhookKey
           /\ \/ webhook[p] # 0 /\ UNCHANGED <<webhook, invented>>
              \/ /\ invented < MaxValue /\ invented' = invented + 1
                 /\ webhook' = [webhook EXCEPT ![p] = invented']
           /\ store' = [store EXCEPT ![WebhookKey[p]] = webhook'[p]]
           /\ Goto("put_webhook_secret")
  <2>1. invented' \in 0..MaxValue /\ webhook' \in [DOMAIN WebhookKey -> 0..MaxValue] /\ webhook'[p] # 0
    BY <1>4, OperatorBounds DEF OperatorTypeOK
  <2>2. webhook'[p] \in 0..MaxValue /\ WebhookKey[p] \in Keys
    BY <1>4, <2>1, WebhookKeys
  <2>. DEFINE k == WebhookKey[p]
              v == webhook'[p]
  <2>3. store' \in Values /\ store'[k] = v
    <3>1. store' = [store EXCEPT ![k] = v] /\ k \in Keys /\ v \in 0..MaxValue
      BY <1>4, <2>2
    <3>. HIDE DEF k, v
    <3>. QED
      BY <1>0, <3>1, Updates
  <2>. QED
    BY <1>0, <1>1, <1>2, <1>4, <2>1, <2>3
<1>5. CASE /\ p \in DOMAIN WebhookKey
           /\ UNCHANGED webhook \/ webhook' = [webhook EXCEPT ![p] = run.given[WebhookKey[p]]]
           /\ Goto("deploy_next") /\ UNCHANGED <<store, invented>>
  <2>1. run.given[WebhookKey[p]] \in 0..MaxValue
    BY <1>0, <1>5, WebhookKeys DEF Values
  <2>. QED
    BY <1>0, <1>1, <1>2, <1>5, <2>1 DEF OperatorTypeOK
<1>. QED
  BY <1>2, <1>3, <1>4, <1>5

\* A deployed provider keeps its keys when values are put, and when others are dropped.
LEMMA PutsKeepIt ==
  ASSUME OperatorTypeOK, DeployedProviderHasItsKey, NEW K, NEW values, \A k \in K : values[k] # 0,
         secrets' = Put(K, values), deployed' = deployed, gaps' = gaps
  PROVE  DeployedProviderHasItsKey'
<1>. SUFFICES ASSUME deployed # Missing, gaps = {}
              PROVE  \A k \in {Pepper} \union Required[deployed] : secrets'[k] # 0
  BY DEF DeployedProviderHasItsKey, MayDeploy
<1>. QED
  BY PutKeeps DEF DeployedProviderHasItsKey, OperatorTypeOK, Maybe

\* The same for what is dropped, if the provider does not need it.
LEMMA DropsKeepIt ==
  ASSUME OperatorTypeOK, DeployedProviderHasItsKey, NEW K, secrets' = Drop(K),
         deployed \in Providers /\ gaps = {} => K \intersect (Common \union Runtime[deployed]) = {},
         deployed' = deployed, gaps' = gaps
  PROVE  DeployedProviderHasItsKey'
<1>. SUFFICES ASSUME deployed # Missing, gaps = {}
              PROVE  \A k \in {Pepper} \union Required[deployed] : secrets'[k] # 0
  BY DEF DeployedProviderHasItsKey, MayDeploy
<1>1. deployed \in Providers /\ MayDeploy(deployed)
  BY DEF DeployedProviderHasItsKey, OperatorTypeOK, Maybe
<1>2. K \intersect ({Pepper} \union Required[deployed]) = {}
  BY <1>1, NeededKeys
<1>. QED
  BY <1>1, <1>2, DropKeeps

-----------------------------------------------------------------------------
(* Every step keeps every part of the invariant *)

\* Every step keeps the types.
LEMMA OperatorTypeStep ==
  ASSUME OperatorInv, [OperatorNext]_operatorVars
  PROVE  OperatorTypeOK'
<1>. USE DEF OperatorInv, OperatorTypeOK, Doing, Steps, operatorVars, files, credentials, worker,
          bounds
<1>1. CASE UNCHANGED operatorVars
  BY <1>1
<1>2. ASSUME NEW p \in Providers, StartSet(p)
      PROVE  OperatorTypeOK'
  BY <1>2, SetBegins
<1>3. ASSUME NEW p \in Providers, StartRemove(p) \/ StartConfigure(p)
      PROVE  OperatorTypeOK'
  BY <1>3, RemoveBegins, ConfigureBegins
<1>4. ASSUME NEW k \in Keys, StartRotate(k)
      PROVE  OperatorTypeOK'
  BY <1>4, RotateBegins
<1>5. CASE StartApply \/ StartSetup \/ StartDeployOnly \/ StartRemoveBootstrap
  BY <1>5, ApplyBegins, SetupBegins, DeployBegins, RemoveBootstrapBegins DEF Maybe
<1>6. CASE StartRecover
  BY <1>6, RecoverBegins DEF RunIsNamed, Pending
<1>7. CASE StartRecoverRotation
  BY <1>7, RecoverRotationBegins DEF RunIsNamed, RotationPending
<1>8. CASE NameResources
  BY <1>8, Ends DEF NameResources
<1>9. CASE Checkout
  BY <1>9, Ends, OperatorBounds DEF Checkout
<1>10. CASE Stop
  BY <1>10, Ends, OperatorBounds DEF Stop, Untold, Fails
<1>11. CASE WriteNext \/ RemoveNext \/ ClearJournal
  BY <1>11, Goes, Ends, Cleared DEF WriteNext, RemoveNext, ClearJournal, Maybe, Runs
<1>12. CASE DryRun
  BY <1>12, Goes, Ends, Cleared, OperatorBounds DEF DryRun, Fails, Maybe
<1>13. CASE ApplyTargetSecrets
  BY <1>13, Goes, Puts DEF ApplyTargetSecrets, Runs
<1>14. CASE PutWebhookSecret
  BY <1>14, Goes, Puts DEF PutWebhookSecret
<1>15. CASE Reconcile
  BY <1>15, Reconciled
<1>16. CASE DeployNext
  BY <1>16, Goes DEF DeployNext, Maybe, Runs
<1>17. CASE DeployNextFails
  BY <1>17, Ends, Cleared, OperatorBounds DEF DeployNextFails, Fails, Maybe, Runs
<1>18. CASE JournalSwitched
  BY <1>18, Goes DEF JournalSwitched, Journals
<1>19. CASE WriteGenerated \/ WriteOperatorConfig
  BY <1>19, Goes DEF WriteGenerated, WriteOperatorConfig, Maybe, RunIsNamed, Converging
<1>20. CASE WriteSetupState
  BY <1>20, Goes DEF WriteSetupState, RunIsNamed, Converging
<1>21. CASE RemoveStaleSecrets
  BY <1>21, Goes, Drops DEF RemoveStaleSecrets
<1>22. CASE DeleteWebhook
  BY <1>22, Goes, OperatorBounds DEF DeleteWebhook
<1>23. CASE DeleteSecrets
  BY <1>23, Ends, Drops DEF DeleteSecrets
<1>24. CASE SetCredential
  BY <1>24, Goes, Updates DEF SetCredential, RunIsNamed, Rotating, Runs
<1>25. CASE PutSecret
  BY <1>25, Goes, Updates DEF PutSecret, RunIsNamed, Rotating, Runs
<1>26. CASE PutAgain
  BY <1>26, Goes, Updates DEF PutAgain, RunIsNamed, Rotating, Runs
<1>27. CASE JournalLocal \/ JournalRemote
  BY <1>27, Goes DEF JournalLocal, JournalRemote, Rotations
<1>28. CASE VerifyRotation \/ ClearRotation
  BY <1>28, Goes, Ends, Cleared DEF VerifyRotation, ClearRotation, Rotations
<1>29. CASE ApplyActive
  BY <1>29, Ends, Puts DEF ApplyActive, Runs
<1>30. CASE WriteCredentials
  BY <1>30, Goes, Updates, OperatorAssumption DEF WriteCredentials, Runs
<1>31. CASE WriteConfig
  BY <1>31, Ends DEF WriteConfig, RunIsNamed, Configuring
<1>32. CASE EnsureD1 \/ EnsureR2 \/ PutSentinel
  BY <1>32, Goes, Ends DEF EnsureD1, EnsureR2, PutSentinel, Resources
<1>33. CASE WriteGeneratedConfig
  BY <1>33, Goes DEF WriteGeneratedConfig, Runs
<1>34. CASE WriteState
  BY <1>34, TodoMade DEF RunIsNamed, Establishing
<1>35. CASE ConfigureSecrets
  <2>1. run.given \in Values
    BY DEF Runs
  <2>2. \A K : Put(K, run.given) \in Values
    BY <2>1, Puts
  <2>3. secrets' \in Values
    BY <1>35, <2>2, TodoDone
  <2>. QED
    BY <1>35, <2>3, TodoDone
<1>36. CASE Deploy
  BY <1>36, Ends DEF Deploy
<1>37. CASE RemoveBootstrap
  BY <1>37, Ends, Drops DEF RemoveBootstrap
<1>. QED
  BY <1>1, <1>2, <1>3, <1>4, <1>5, <1>6, <1>7, <1>8, <1>9, <1>10, <1>11, <1>12, <1>13, <1>14, <1>15,
     <1>16, <1>17, <1>18, <1>19, <1>20, <1>21, <1>22, <1>23, <1>24, <1>25, <1>26, <1>27, <1>28,
     <1>29, <1>30, <1>31, <1>32, <1>33, <1>34, <1>35, <1>36, <1>37 DEF OperatorNext, StartCommand,
     SwitchStart, RotationStart, SetupStart, Step, SwitchStep, RotationStep, SetupStep

\* Every step gives the command that runs, and the journals, what they name.
LEMMA RunIsNamedStep ==
  ASSUME OperatorInv, [OperatorNext]_operatorVars
  PROVE  RunIsNamed'
<1>. USE DEF OperatorInv, OperatorTypeOK, Doing, RunIsNamed, SwitchIsJournaled, Converges, Pending,
          RotationPending, Rotations, Maybe, Consistent, StateIsValid, Switching, Converging,
          Removing, Configuring, Establishing, Rotating, Steps, operatorVars, files, credentials,
          worker, bounds
<1>1. CASE UNCHANGED operatorVars
  BY <1>1
<1>2. ASSUME NEW p \in Providers, StartSet(p)
      PROVE  RunIsNamed'
  BY <1>2, SetBegins
<1>3. ASSUME NEW p \in Providers, StartRemove(p) \/ StartConfigure(p)
      PROVE  RunIsNamed'
  BY <1>3, RemoveBegins, ConfigureBegins
<1>4. ASSUME NEW k \in Keys, StartRotate(k)
      PROVE  RunIsNamed'
  BY <1>4, RotateBegins
<1>5. CASE StartApply \/ StartSetup \/ StartDeployOnly \/ StartRemoveBootstrap
  BY <1>5, ApplyBegins, SetupBegins, DeployBegins, RemoveBootstrapBegins
<1>6. CASE StartRecover
  BY <1>6, RecoverBegins
<1>7. CASE StartRecoverRotation
  BY <1>7, RecoverRotationBegins
<1>8. CASE NameResources \/ Checkout \/ Stop
  BY <1>8, Ends DEF NameResources, Checkout, Stop, Untold
<1>9. CASE WriteNext \/ DryRun \/ ApplyTargetSecrets \/ PutWebhookSecret
  BY <1>9, Goes, Ends, Cleared DEF WriteNext, DryRun, ApplyTargetSecrets, PutWebhookSecret
<1>10. CASE Reconcile
  BY <1>10, Reconciled
<1>11. CASE DeployNext \/ DeployNextFails
  BY <1>11, Goes, Ends, Cleared DEF DeployNext, DeployNextFails
<1>12. CASE JournalSwitched
  BY <1>12, Goes DEF JournalSwitched, Journals
<1>13. CASE WriteGenerated \/ WriteSetupState \/ WriteOperatorConfig
  BY <1>13, Goes DEF WriteGenerated, WriteSetupState, WriteOperatorConfig
<1>14. CASE RemoveStaleSecrets
  BY <1>14, Goes DEF RemoveStaleSecrets
<1>15. CASE RemoveNext \/ ClearJournal
  BY <1>15, Goes, Ends, Cleared DEF RemoveNext, ClearJournal
<1>16. CASE DeleteWebhook \/ DeleteSecrets
  BY <1>16, Goes, Ends DEF DeleteWebhook, DeleteSecrets
<1>17. CASE SetCredential \/ JournalLocal
  BY <1>17, Goes DEF SetCredential, JournalLocal
<1>18. CASE PutSecret \/ JournalRemote \/ VerifyRotation
  BY <1>18, Goes, Ends DEF PutSecret, JournalRemote, VerifyRotation
<1>19. CASE ClearRotation \/ PutAgain \/ ApplyActive
  BY <1>19, Ends, Cleared, Goes DEF ClearRotation, PutAgain, ApplyActive
<1>20. CASE WriteCredentials \/ WriteConfig
  BY <1>20, Goes, Ends DEF WriteCredentials, WriteConfig
<1>21. CASE EnsureD1 \/ EnsureR2 \/ PutSentinel \/ WriteGeneratedConfig
  BY <1>21, Goes, Ends DEF EnsureD1, EnsureR2, PutSentinel, WriteGeneratedConfig
<1>22. CASE WriteState
  BY <1>22, TodoMade
<1>23. CASE ConfigureSecrets
  BY <1>23, TodoDone
<1>24. CASE Deploy \/ RemoveBootstrap
  BY <1>24, Ends DEF Deploy, RemoveBootstrap
<1>. QED
  BY <1>1, <1>2, <1>3, <1>4, <1>5, <1>6, <1>7, <1>8, <1>9, <1>10, <1>11, <1>12, <1>13, <1>14, <1>15,
     <1>16, <1>17, <1>18, <1>19, <1>20, <1>21, <1>22, <1>23, <1>24 DEF OperatorNext, StartCommand,
     SwitchStart, RotationStart, SetupStart, Step, SwitchStep, RotationStep, SetupStep

\* Every step keeps what the files tell of the deployment, and leaves a switch journaled.
LEMMA FilesTellStep ==
  ASSUME OperatorInv, [OperatorNext]_operatorVars
  PROVE  (FilesTell /\ SetupTells /\ SwitchIsJournaled)'
<1>. USE DEF OperatorInv, OperatorTypeOK, Doing, FilesTell, SetupTells, SwitchIsJournaled,
          Converges, Pending, RunIsNamed, Maybe, Journals, Switching, Converging, Removing,
          Configuring, Establishing, Rotating, Steps, operatorVars, files, credentials, worker,
          bounds
<1>1. CASE UNCHANGED operatorVars
  BY <1>1
<1>2. ASSUME NEW p \in Providers, StartSet(p)
      PROVE  (FilesTell /\ SetupTells /\ SwitchIsJournaled)'
  BY <1>2, SetBegins
<1>3. ASSUME NEW p \in Providers, StartRemove(p) \/ StartConfigure(p)
      PROVE  (FilesTell /\ SetupTells /\ SwitchIsJournaled)'
  BY <1>3, RemoveBegins, ConfigureBegins
<1>4. ASSUME NEW k \in Keys, StartRotate(k)
      PROVE  (FilesTell /\ SetupTells /\ SwitchIsJournaled)'
  BY <1>4, RotateBegins
<1>5. CASE StartApply \/ StartSetup \/ StartDeployOnly \/ StartRemoveBootstrap
  BY <1>5, ApplyBegins, SetupBegins, DeployBegins, RemoveBootstrapBegins
<1>6. CASE StartRecover
  BY <1>6, RecoverBegins
<1>7. CASE StartRecoverRotation
  BY <1>7, RecoverRotationBegins DEF RotationPending
<1>8. CASE NameResources \/ Checkout \/ Stop
  BY <1>8, Ends DEF NameResources, Checkout, Stop, Untold
<1>9. CASE WriteNext \/ DryRun \/ ApplyTargetSecrets \/ PutWebhookSecret
  BY <1>9, Goes, Ends, Cleared DEF WriteNext, DryRun, ApplyTargetSecrets, PutWebhookSecret
<1>10. CASE Reconcile
  BY <1>10, Reconciled
<1>11. CASE DeployNext \/ DeployNextFails
  BY <1>11, Goes, Ends, Cleared DEF DeployNext, DeployNextFails
<1>12. CASE JournalSwitched
  BY <1>12, Goes DEF JournalSwitched
<1>13. CASE WriteGenerated \/ WriteSetupState \/ WriteOperatorConfig
  BY <1>13, Goes DEF WriteGenerated, WriteSetupState, WriteOperatorConfig
<1>14. CASE RemoveStaleSecrets
  BY <1>14, Goes DEF RemoveStaleSecrets
<1>15. CASE RemoveNext \/ ClearJournal
  BY <1>15, Goes, Ends, Cleared DEF RemoveNext, ClearJournal
<1>16. CASE DeleteWebhook \/ DeleteSecrets
  BY <1>16, Goes, Ends DEF DeleteWebhook, DeleteSecrets
<1>17. CASE SetCredential \/ JournalLocal
  BY <1>17, Goes DEF SetCredential, JournalLocal
<1>18. CASE PutSecret \/ JournalRemote \/ VerifyRotation
  BY <1>18, Goes, Ends DEF PutSecret, JournalRemote, VerifyRotation
<1>19. CASE ClearRotation \/ PutAgain \/ ApplyActive
  BY <1>19, Ends, Cleared, Goes DEF ClearRotation, PutAgain, ApplyActive
<1>20. CASE WriteCredentials \/ WriteConfig
  BY <1>20, Goes, Ends DEF WriteCredentials, WriteConfig
<1>21. CASE EnsureD1 \/ EnsureR2 \/ PutSentinel \/ WriteGeneratedConfig
  BY <1>21, Goes, Ends DEF EnsureD1, EnsureR2, PutSentinel, WriteGeneratedConfig
<1>22. CASE WriteState
  BY <1>22, TodoMade
<1>23. CASE ConfigureSecrets
  BY <1>23, TodoDone
<1>24. CASE Deploy \/ RemoveBootstrap
  BY <1>24, Ends DEF Deploy, RemoveBootstrap
<1>. QED
  BY <1>1, <1>2, <1>3, <1>4, <1>5, <1>6, <1>7, <1>8, <1>9, <1>10, <1>11, <1>12, <1>13, <1>14, <1>15,
     <1>16, <1>17, <1>18, <1>19, <1>20, <1>21, <1>22, <1>23, <1>24 DEF OperatorNext, StartCommand,
     SwitchStart, RotationStart, SetupStart, Step, SwitchStep, RotationStep, SetupStep

\* The files are brought up to the deployment one after the other.
LEMMA ConvergesStep ==
  ASSUME OperatorInv, [OperatorNext]_operatorVars
  PROVE  Converges'
<1>. USE DEF OperatorInv, OperatorTypeOK, Doing, SwitchIsJournaled, Converges, Pending, RunIsNamed,
          Maybe, Journals, Switching, Converging, Removing, Configuring, Establishing, Rotating,
          Steps, operatorVars, files, credentials, worker, bounds
<1>1. CASE UNCHANGED operatorVars
  BY <1>1
<1>2. ASSUME NEW p \in Providers, StartSet(p)
      PROVE  Converges'
  BY <1>2, SetBegins
<1>3. ASSUME NEW p \in Providers, StartRemove(p) \/ StartConfigure(p)
      PROVE  Converges'
  BY <1>3, RemoveBegins, ConfigureBegins
<1>4. ASSUME NEW k \in Keys, StartRotate(k)
      PROVE  Converges'
  BY <1>4, RotateBegins
<1>5. CASE StartApply \/ StartSetup \/ StartDeployOnly \/ StartRemoveBootstrap
  BY <1>5, ApplyBegins, SetupBegins, DeployBegins, RemoveBootstrapBegins
<1>6. CASE StartRecover
  BY <1>6, RecoverBegins
<1>7. CASE StartRecoverRotation
  BY <1>7, RecoverRotationBegins DEF RotationPending
<1>8. CASE NameResources \/ Checkout \/ Stop
  BY <1>8, Ends DEF NameResources, Checkout, Stop, Untold
<1>9. CASE WriteNext \/ DryRun \/ ApplyTargetSecrets \/ PutWebhookSecret
  BY <1>9, Goes, Ends, Cleared DEF WriteNext, DryRun, ApplyTargetSecrets, PutWebhookSecret
<1>10. CASE Reconcile
  BY <1>10, Reconciled
<1>11. CASE DeployNext \/ DeployNextFails
  BY <1>11, Goes, Ends, Cleared DEF DeployNext, DeployNextFails
<1>12. CASE JournalSwitched
  BY <1>12, Goes DEF JournalSwitched
<1>13. CASE WriteGenerated \/ WriteSetupState \/ WriteOperatorConfig
  BY <1>13, Goes DEF WriteGenerated, WriteSetupState, WriteOperatorConfig
<1>14. CASE RemoveStaleSecrets
  BY <1>14, Goes, NeededKeys DEF RemoveStaleSecrets, staleRuntimeSecrets, Drop
<1>15. CASE RemoveNext \/ ClearJournal
  BY <1>15, Goes, Ends, Cleared DEF RemoveNext, ClearJournal
<1>16. CASE DeleteWebhook \/ DeleteSecrets
  BY <1>16, Goes, Ends DEF DeleteWebhook, DeleteSecrets
<1>17. CASE SetCredential \/ JournalLocal
  BY <1>17, Goes DEF SetCredential, JournalLocal
<1>18. CASE PutSecret \/ JournalRemote \/ VerifyRotation
  BY <1>18, Goes, Ends DEF PutSecret, JournalRemote, VerifyRotation
<1>19. CASE ClearRotation \/ PutAgain \/ ApplyActive
  BY <1>19, Ends, Cleared, Goes DEF ClearRotation, PutAgain, ApplyActive
<1>20. CASE WriteCredentials \/ WriteConfig
  BY <1>20, Goes, Ends DEF WriteCredentials, WriteConfig
<1>21. CASE EnsureD1 \/ EnsureR2 \/ PutSentinel \/ WriteGeneratedConfig
  BY <1>21, Goes, Ends DEF EnsureD1, EnsureR2, PutSentinel, WriteGeneratedConfig
<1>22. CASE WriteState
  BY <1>22, TodoMade
<1>23. CASE ConfigureSecrets
  BY <1>23, TodoDone
<1>24. CASE Deploy \/ RemoveBootstrap
  BY <1>24, Ends DEF Deploy, RemoveBootstrap
<1>. QED
  BY <1>1, <1>2, <1>3, <1>4, <1>5, <1>6, <1>7, <1>8, <1>9, <1>10, <1>11, <1>12, <1>13, <1>14, <1>15,
     <1>16, <1>17, <1>18, <1>19, <1>20, <1>21, <1>22, <1>23, <1>24 DEF OperatorNext, StartCommand,
     SwitchStart, RotationStart, SetupStart, Step, SwitchStep, RotationStep, SetupStep

\* No step takes a key that the deployed provider needs, or puts a value that is not there.
LEMMA ValuesAreThereStep ==
  ASSUME OperatorInv, [OperatorNext]_operatorVars
  PROVE  ValuesAreThere'
<1>. USE DEF OperatorInv, OperatorTypeOK, Doing, ValuesAreThere, Steps, operatorVars, files,
          credentials, worker, bounds
<1>1. CASE UNCHANGED operatorVars
  BY <1>1 DEF DeployedProviderHasItsKey, MayDeploy
<1>2. ASSUME NEW p \in Providers, StartSet(p)
      PROVE  ValuesAreThere'
  BY <1>2, SetBegins DEF DeployedProviderHasItsKey, MayDeploy
<1>3. ASSUME NEW p \in Providers, StartRemove(p) \/ StartConfigure(p)
      PROVE  ValuesAreThere'
  BY <1>3, RemoveBegins, ConfigureBegins DEF DeployedProviderHasItsKey, MayDeploy
<1>4. ASSUME NEW k \in Keys, StartRotate(k)
      PROVE  ValuesAreThere'
  BY <1>4, RotateBegins DEF DeployedProviderHasItsKey, MayDeploy
<1>5. CASE StartApply \/ StartSetup \/ StartDeployOnly \/ StartRemoveBootstrap
  BY <1>5, ApplyBegins, SetupBegins, DeployBegins, RemoveBootstrapBegins DEF
     DeployedProviderHasItsKey, MayDeploy
<1>6. CASE StartRecover
  BY <1>6, RecoverBegins DEF RunIsNamed, Pending, DeployedProviderHasItsKey, MayDeploy
<1>7. CASE StartRecoverRotation
  BY <1>7, RecoverRotationBegins DEF RunIsNamed, RotationPending, DeployedProviderHasItsKey,
     MayDeploy
<1>8. CASE NameResources \/ Checkout \/ Stop
  BY <1>8, Ends DEF NameResources, Checkout, Stop, Untold, DeployedProviderHasItsKey, MayDeploy
<1>9. CASE WriteNext \/ DryRun
  BY <1>9, Goes, Ends, Cleared DEF WriteNext, DryRun, DeployedProviderHasItsKey, MayDeploy
<1>10. CASE ApplyTargetSecrets
  <2>1. \A k \in Active(run.provider, run.given) : run.given[k] # 0
    BY DEF Active
  <2>2. DeployedProviderHasItsKey' /\ run' = [run EXCEPT !.at = "reconcile"]
    BY <1>10, <2>1, PutsKeepIt DEF ApplyTargetSecrets, Goto
  <2>. QED
    BY <2>2, Goes
<1>11. CASE PutWebhookSecret
  <2>1. DeployedProviderHasItsKey'
    BY <1>11, PutsKeepIt DEF PutWebhookSecret
  <2>. QED
    BY <1>11, <2>1, Goes DEF PutWebhookSecret
<1>12. CASE Reconcile
  BY <1>12, Reconciled DEF DeployedProviderHasItsKey, MayDeploy
<1>13. CASE DeployNext \/ DeployNextFails
  BY <1>13, Goes, Ends, Cleared DEF DeployNext, DeployNextFails, DeployedProviderHasItsKey,
     MayDeploy
<1>14. CASE JournalSwitched
  BY <1>14, Goes DEF JournalSwitched, DeployedProviderHasItsKey, MayDeploy
<1>15. CASE WriteGenerated \/ WriteSetupState \/ WriteOperatorConfig
  BY <1>15, Goes DEF WriteGenerated, WriteSetupState, WriteOperatorConfig,
     DeployedProviderHasItsKey, MayDeploy
<1>16. CASE RemoveStaleSecrets
  <2>1. gaps = {} => deployed = run.provider /\ run.from \in Providers /\ run.provider \in Providers
    BY <1>16 DEF RemoveStaleSecrets, Converges, SwitchIsJournaled, Converging, RunIsNamed
  <2>2. deployed \in Providers /\ gaps = {} =>
          staleRuntimeSecrets(run.from, run.provider) \intersect (Common \union Runtime[deployed]) = {}
    BY <2>1, NeededKeys DEF staleRuntimeSecrets
  <2>3. DeployedProviderHasItsKey'
    BY <1>16, <2>2, DropsKeepIt DEF RemoveStaleSecrets
  <2>. QED
    BY <1>16, <2>3, Goes DEF RemoveStaleSecrets
<1>17. CASE RemoveNext \/ ClearJournal
  BY <1>17, Goes, Ends, Cleared DEF RemoveNext, ClearJournal, DeployedProviderHasItsKey, MayDeploy
<1>18. CASE DeleteWebhook
  BY <1>18, Goes DEF DeleteWebhook, DeployedProviderHasItsKey, MayDeploy
<1>19. CASE DeleteSecrets
  <2>1. gaps = {} => deployed = setup.provider /\ setup.provider # run.provider
        /\ run.provider \in Providers
    BY <1>19 DEF DeleteSecrets, FilesTell, SetupTells, Removing, RunIsNamed
  <2>2. deployed \in Providers /\ gaps = {} =>
          Runtime[run.provider] \intersect (Common \union Runtime[deployed]) = {}
    BY <2>1, NeededKeys
  <2>. QED
    BY <1>19, <2>2, DropsKeepIt, Ends DEF DeleteSecrets
<1>20. CASE SetCredential \/ JournalLocal
  BY <1>20, Goes DEF SetCredential, JournalLocal, DeployedProviderHasItsKey, MayDeploy
<1>21. CASE PutSecret
  <2>1. secrets \in Values /\ run.key \in Keys /\ run.value # 0
    BY <1>21 DEF PutSecret, RunIsNamed, Rotating
  <2>. DEFINE values == [k \in Keys |-> run.value]
  <2>2. secrets' = Put({run.key}, values) /\ (\A k \in {run.key} : values[k] # 0)
        /\ UNCHANGED <<deployed, gaps>>
    BY <1>21, <2>1 DEF PutSecret, Put, Values
  <2>. HIDE DEF values
  <2>3. DeployedProviderHasItsKey'
    BY <2>2, PutsKeepIt
  <2>. QED
    BY <1>21, <2>3, Goes DEF PutSecret
<1>22. CASE PutAgain
  <2>1. secrets \in Values /\ run.key \in Keys /\ run.value # 0
    BY <1>22 DEF PutAgain, RunIsNamed, Rotating
  <2>. DEFINE values == [k \in Keys |-> run.value]
  <2>2. secrets' = Put({run.key}, values) /\ (\A k \in {run.key} : values[k] # 0)
        /\ UNCHANGED <<deployed, gaps>>
    BY <1>22, <2>1 DEF PutAgain, Put, Values
  <2>. HIDE DEF values
  <2>3. DeployedProviderHasItsKey'
    BY <2>2, PutsKeepIt
  <2>. QED
    BY <1>22, <2>3, Goes DEF PutAgain
<1>23. CASE JournalRemote \/ VerifyRotation
  BY <1>23, Goes, Ends DEF JournalRemote, VerifyRotation, DeployedProviderHasItsKey, MayDeploy
<1>24. CASE ClearRotation
  BY <1>24, Ends, Cleared DEF ClearRotation, DeployedProviderHasItsKey, MayDeploy
<1>25. CASE ApplyActive
  <2>1. \A k \in Active(run.provider, run.given) : run.given[k] # 0
    BY DEF Active
  <2>. QED
    BY <1>25, <2>1, PutsKeepIt, Ends DEF ApplyActive
<1>26. CASE WriteCredentials \/ WriteConfig
  BY <1>26, Goes, Ends DEF WriteCredentials, WriteConfig, DeployedProviderHasItsKey, MayDeploy
<1>27. CASE EnsureD1 \/ EnsureR2 \/ PutSentinel
  BY <1>27, Goes, Ends DEF EnsureD1, EnsureR2, PutSentinel, DeployedProviderHasItsKey, MayDeploy
<1>28. CASE WriteGeneratedConfig
  BY <1>28, Goes DEF WriteGeneratedConfig, DeployedProviderHasItsKey, MayDeploy
<1>29. CASE WriteState
  BY <1>29, TodoMade DEF DeployedProviderHasItsKey, MayDeploy
<1>30. CASE ConfigureSecrets
  <2>1. DeployedProviderHasItsKey'
    BY <1>30, TodoDone, PutsKeepIt DEF DeployedProviderHasItsKey, MayDeploy
  <2>. QED
    BY <1>30, <2>1, TodoDone
<1>31. CASE Deploy
  BY <1>31, Ends DEF Deploy, DeployedProviderHasItsKey, MayDeploy
<1>32. CASE RemoveBootstrap
  <2>1. deployed \in Providers => {Bootstrap} \intersect (Common \union Runtime[deployed]) = {}
    BY OperatorAssumption
  <2>. QED
    BY <1>32, <2>1, DropsKeepIt, Ends DEF RemoveBootstrap
<1>. QED
  BY <1>1, <1>2, <1>3, <1>4, <1>5, <1>6, <1>7, <1>8, <1>9, <1>10, <1>11, <1>12, <1>13, <1>14, <1>15,
     <1>16, <1>17, <1>18, <1>19, <1>20, <1>21, <1>22, <1>23, <1>24, <1>25, <1>26, <1>27, <1>28,
     <1>29, <1>30, <1>31, <1>32 DEF OperatorNext, StartCommand, SwitchStart, RotationStart,
     SetupStart, Step, SwitchStep, RotationStep, SetupStep

\* A rotation has its value on the Worker before its journal says so.
LEMMA RotationIsHeldStep ==
  ASSUME OperatorInv, [OperatorNext]_operatorVars
  PROVE  RotationIsHeld'
<1>. USE DEF OperatorInv, OperatorTypeOK, Doing, RotationIsHeld, RunIsNamed, Rotating,
          RotationPending, Runs, Load, Values, Steps, operatorVars, files, credentials, worker,
          bounds
<1>1. CASE UNCHANGED operatorVars
  BY <1>1
<1>2. ASSUME NEW p \in Providers, StartSet(p)
      PROVE  RotationIsHeld'
  BY <1>2, SetBegins
<1>3. ASSUME NEW p \in Providers, StartRemove(p) \/ StartConfigure(p)
      PROVE  RotationIsHeld'
  BY <1>3, RemoveBegins, ConfigureBegins
<1>4. ASSUME NEW k \in Keys, StartRotate(k)
      PROVE  RotationIsHeld'
  BY <1>4, RotateBegins
<1>5. CASE StartApply \/ StartSetup \/ StartDeployOnly \/ StartRemoveBootstrap
  BY <1>5, ApplyBegins, SetupBegins, DeployBegins, RemoveBootstrapBegins
<1>6. CASE StartRecover
  BY <1>6, RecoverBegins DEF Pending
<1>7. CASE StartRecoverRotation
  BY <1>7, RecoverRotationBegins
<1>8. CASE NameResources \/ Checkout \/ Stop
  BY <1>8, Ends DEF NameResources, Checkout, Stop, Untold
<1>9. CASE WriteNext \/ DryRun \/ ApplyTargetSecrets \/ PutWebhookSecret
  BY <1>9, Goes, Ends, Cleared DEF WriteNext, DryRun, ApplyTargetSecrets, PutWebhookSecret
<1>10. CASE Reconcile
  BY <1>10, Reconciled
<1>11. CASE DeployNext \/ DeployNextFails
  BY <1>11, Goes, Ends, Cleared DEF DeployNext, DeployNextFails
<1>12. CASE JournalSwitched
  BY <1>12, Goes DEF JournalSwitched
<1>13. CASE WriteGenerated \/ WriteSetupState \/ WriteOperatorConfig
  BY <1>13, Goes DEF WriteGenerated, WriteSetupState, WriteOperatorConfig
<1>14. CASE RemoveStaleSecrets
  BY <1>14, Goes DEF RemoveStaleSecrets
<1>15. CASE RemoveNext \/ ClearJournal
  BY <1>15, Goes, Ends, Cleared DEF RemoveNext, ClearJournal
<1>16. CASE DeleteWebhook \/ DeleteSecrets
  BY <1>16, Goes, Ends DEF DeleteWebhook, DeleteSecrets
<1>17. CASE SetCredential \/ JournalLocal
  BY <1>17, Goes DEF SetCredential, JournalLocal
<1>18. CASE PutSecret \/ JournalRemote \/ VerifyRotation
  BY <1>18, Goes, Ends, Updates DEF PutSecret, JournalRemote, VerifyRotation
<1>19. CASE ClearRotation \/ PutAgain \/ ApplyActive
  BY <1>19, Ends, Cleared, Goes, Updates DEF ClearRotation, PutAgain, ApplyActive
<1>20. CASE WriteCredentials \/ WriteConfig
  BY <1>20, Goes, Ends DEF WriteCredentials, WriteConfig
<1>21. CASE EnsureD1 \/ EnsureR2 \/ PutSentinel \/ WriteGeneratedConfig
  BY <1>21, Goes, Ends DEF EnsureD1, EnsureR2, PutSentinel, WriteGeneratedConfig
<1>22. CASE WriteState
  BY <1>22, TodoMade
<1>23. CASE ConfigureSecrets
  BY <1>23, TodoDone
<1>24. CASE Deploy \/ RemoveBootstrap
  BY <1>24, Ends DEF Deploy, RemoveBootstrap
<1>. QED
  BY <1>1, <1>2, <1>3, <1>4, <1>5, <1>6, <1>7, <1>8, <1>9, <1>10, <1>11, <1>12, <1>13, <1>14, <1>15,
     <1>16, <1>17, <1>18, <1>19, <1>20, <1>21, <1>22, <1>23, <1>24 DEF OperatorNext, StartCommand,
     SwitchStart, RotationStart, SetupStart, Step, SwitchStep, RotationStep, SetupStep

-----------------------------------------------------------------------------
(* The inductive invariant, and what it says *)

\* It holds at first.
LEMMA OperatorInvInit ==
  OperatorInit => OperatorInv
<1>. SUFFICES ASSUME OperatorInit
              PROVE  OperatorInv
  OBVIOUS
<1>. USE OperatorBounds, Ends, Cleared DEF OperatorInit
<1>1. run \in Runs /\ run.at = "rest" /\ journal.phase = "none" /\ rotation.phase = "none"
      /\ journal \in Journals /\ rotation \in Rotations
  OBVIOUS
<1>2. store \in Values /\ secrets \in Values /\ webhook \in [DOMAIN WebhookKey -> 0..MaxValue]
  BY DEF AllSecrets, Values
<1>3. /\ config \in Providers /\ resourcesNamed \in BOOLEAN
      /\ setup = Missing \/ setup \in [provider : Providers, sha : 0..MaxCommits]
      /\ generated \in Maybe /\ next \in Maybe /\ deployed \in Maybe
  <2>1. [provider |-> config, sha |-> 0] \in [provider : Providers, sha : 0..MaxCommits]
    OBVIOUS
  <2>. QED
    BY <2>1 DEF Maybe
<1>4. resources \in Resources
  BY FoundAssumption DEF Resources
<1>5. OperatorTypeOK
  BY <1>1, <1>2, <1>3, <1>4 DEF OperatorTypeOK
<1>6. setup # Missing => deployed = setup.provider
  BY OperatorAssumption
<1>7. DeployedProviderHasItsKey
  <2>1. deployed # Missing => deployed \in Providers /\ secrets = AllSecrets(deployed)
    OBVIOUS
  <2>2. ASSUME deployed \in Providers, secrets = AllSecrets(deployed)
        PROVE  MayDeploy(deployed)
    BY <2>2, NeededKeys DEF AllSecrets, MayDeploy
  <2>. QED
    BY <2>1, <2>2 DEF DeployedProviderHasItsKey
<1>8. RunIsNamed /\ SetupTells /\ SwitchIsJournaled /\ Converges /\ RotationIsHeld
  BY <1>1 DEF RunIsNamed, SetupTells, SwitchIsJournaled, Converges, RotationIsHeld, Pending,
     Switching, Converging, Removing, Configuring, Establishing, Rotating
<1>. QED
  BY <1>1, <1>5, <1>6, <1>7, <1>8 DEF OperatorInv, FilesTell, ValuesAreThere

\* Every step keeps it.
LEMMA OperatorInvStep ==
  OperatorInv /\ [OperatorNext]_operatorVars => OperatorInv'
BY OperatorTypeStep, RunIsNamedStep, FilesTellStep, ConvergesStep, ValuesAreThereStep,
   RotationIsHeldStep DEF OperatorInv

\* What every reachable state satisfies, every conjunct of the invariant.
THEOREM OperatorInvariant ==
  OperatorSpec => []OperatorInv
BY OperatorInvInit, OperatorInvStep, PTL DEF OperatorSpec

\* Every variable of the operator keeps its type.
THEOREM OperatorTypeCorrect ==
  OperatorSpec => []OperatorTypeOK
<1>1. OperatorInv => OperatorTypeOK
  BY DEF OperatorInv
<1>. QED
  BY <1>1, OperatorInvariant, PTL

\* Files that agree, with no command running and no switch pending, name the provider that the
\* Worker runs with, whatever was stopped and recovered before.
THEOREM LocalTells ==
  OperatorSpec => []LocalTellsRemote
<1>1. OperatorInv => LocalTellsRemote
  BY Ends DEF OperatorInv, FilesTell, LocalTellsRemote, StateIsValid, Consistent
<1>. QED
  BY <1>1, OperatorInvariant, PTL

\* The Worker has the secrets that its provider needs.
THEOREM DeployedHasItsKey ==
  OperatorSpec => []DeployedProviderHasItsKey
<1>1. OperatorInv => DeployedProviderHasItsKey
  BY DEF OperatorInv, ValuesAreThere
<1>. QED
  BY <1>1, OperatorInvariant, PTL

\* Only the last step of a switch, or of its recovery, clears a pending journal.
LEMMA OnlyClearJournal ==
  ASSUME OperatorInv, OperatorNext, Pending, journal' = NoJournal
  PROVE  ClearJournal
<1>. USE DEF OperatorInv, OperatorTypeOK, Pending, NoJournal, files
<1>1. journal'.phase = "none" /\ journal.phase = "remote_switched"
  OBVIOUS
<1>2. \A p \in Providers : ~StartSet(p) /\ ~StartRemove(p)
  BY DEF StartSet, StartRemove
<1>3. ~StartRecover /\ ~StartRecoverRotation /\ ~NameResources /\ ~Checkout /\ ~Stop
  BY <1>1 DEF StartRecover, StartRecoverRotation, NameResources, Checkout, Stop
<1>4. ~RotationStart /\ ~SetupStart
  BY <1>1 DEF RotationStart, StartApply, StartRotate, SetupStart, StartSetup, StartDeployOnly,
     StartRemoveBootstrap, StartConfigure
<1>5. ~RotationStep /\ ~SetupStep
  BY <1>1 DEF RotationStep, SetCredential, JournalLocal, PutSecret, JournalRemote, VerifyRotation,
     ClearRotation, PutAgain, ApplyActive, SetupStep, WriteCredentials, WriteConfig, EnsureD1,
     EnsureR2, PutSentinel, WriteGeneratedConfig, WriteState, ConfigureSecrets, Deploy,
     RemoveBootstrap
<1>6. ~DryRun /\ ~DeployNextFails /\ ~JournalSwitched
  BY <1>1 DEF DryRun, DeployNextFails, JournalSwitched, Doing, SwitchIsJournaled, Switching, Journals
<1>7. SwitchStep => ClearJournal
  BY <1>1, <1>6 DEF SwitchStep, WriteNext, ApplyTargetSecrets, Reconcile, PutWebhookSecret,
     DeployNext, WriteGenerated, WriteSetupState, WriteOperatorConfig, RemoveStaleSecrets,
     RemoveNext, DeleteWebhook, DeleteSecrets
<1>. QED
  BY <1>2, <1>3, <1>4, <1>5, <1>7 DEF OperatorNext, StartCommand, SwitchStart, Step

\* When the journal of a switch is cleared the target is deployed, the files agree on it and
\* the previous provider's secrets are gone.
THEOREM FinishedSwitches ==
  OperatorSpec => FinishedSwitchIsComplete
<1>1. ASSUME OperatorInv, [OperatorNext]_operatorVars, Pending, journal' = NoJournal, gaps = {}
      PROVE  /\ deployed = journal.to /\ setup.provider = journal.to /\ StateIsValid
             /\ \A k \in Runtime[journal.from] \ Runtime[journal.to] : secrets[k] = 0
  <2>1. CASE UNCHANGED operatorVars
    BY <1>1, <2>1 DEF Pending, NoJournal, operatorVars, files
  <2>2. CASE OperatorNext
    <3>1. run.at = "clear" /\ Pending /\ gaps = {}
      BY <1>1, <2>2, OnlyClearJournal DEF ClearJournal, Doing
    <3>2. run.provider = journal.to /\ run.from = journal.from /\ deployed = journal.to
          /\ run.provider \in Providers
          /\ generated = run.provider /\ config = run.provider /\ resourcesNamed
          /\ setup = [provider |-> run.provider, sha |-> head]
          /\ \A k \in Runtime[run.from] \ Runtime[run.provider] : secrets[k] = 0
      BY <1>1, <3>1 DEF OperatorInv, Converges, SwitchIsJournaled, RunIsNamed, Converging, Pending
    <3>3. setup # Missing /\ generated # Missing
      BY <1>1, <3>2, OperatorAssumption DEF OperatorInv, OperatorTypeOK
    <3>. QED
      BY <3>2, <3>3 DEF StateIsValid, Consistent
  <2>. QED
    BY <1>1, <2>1, <2>2
<1>2. OperatorInv /\ [OperatorNext]_operatorVars =>
        [Pending /\ journal' = NoJournal /\ gaps = {} =>
           /\ deployed = journal.to /\ setup.provider = journal.to /\ StateIsValid
           /\ \A k \in Runtime[journal.from] \ Runtime[journal.to] : secrets[k] = 0]_operatorVars
  BY <1>1
<1>. QED
  BY <1>2, OperatorInvariant, PTL DEF OperatorSpec, FinishedSwitchIsComplete

\* When the journal of a rotation is cleared the Worker has the value of the store, as the
\* shell of the command shows it.
THEOREM RotationsConverge ==
  OperatorSpec => RotationConverges
<1>. DEFINE now == Load(run.shell)[rotation.key]
<1>1. ASSUME OperatorInv, OperatorNext, rotation # NoRotation, rotation' = NoRotation
      PROVE  ClearRotation
  <2>. USE <1>1 DEF OperatorInv, OperatorTypeOK, NoRotation, credentials
  <2>1. rotation'.phase = "none"
    OBVIOUS
  <2>2. /\ ~StartApply /\ ~StartRecover /\ ~StartRecoverRotation /\ ~NameResources /\ ~Checkout
        /\ ~Stop /\ \A k \in Keys : ~StartRotate(k)
    BY <2>1 DEF StartApply, StartRecover, StartRecoverRotation, NameResources, Checkout, Stop, StartRotate
  <2>3. ~SwitchStart /\ ~SetupStart
    BY DEF SwitchStart, StartSet, StartRemove, SetupStart, StartSetup, StartDeployOnly,
       StartRemoveBootstrap, StartConfigure
  <2>4. ~SwitchStep
    BY DEF SwitchStep, WriteNext, DryRun, ApplyTargetSecrets, Reconcile, PutWebhookSecret, DeployNext,
       DeployNextFails, JournalSwitched, WriteGenerated, WriteSetupState, WriteOperatorConfig,
       RemoveStaleSecrets, RemoveNext, ClearJournal, DeleteWebhook, DeleteSecrets
  <2>5. ~SetupStep
    BY DEF SetupStep, WriteCredentials, WriteConfig, EnsureD1, EnsureR2, PutSentinel,
       WriteGeneratedConfig, WriteState, ConfigureSecrets, Deploy, RemoveBootstrap
  <2>6. RotationStep => ClearRotation
    BY <2>1 DEF RotationStep, SetCredential, JournalLocal, PutSecret, JournalRemote, VerifyRotation,
       PutAgain, ApplyActive, Rotations
  <2>. QED
    BY <2>2, <2>3, <2>4, <2>5, <2>6 DEF OperatorNext, StartCommand, RotationStart, Step
<1>2. ASSUME OperatorInv, ClearRotation, rotation.key \notin OperatorLocal
      PROVE  now = 0 \/ secrets[rotation.key] = now
  BY <1>2 DEF OperatorInv, RotationIsHeld, RunIsNamed, Rotating, ClearRotation, Doing
<1>3. OperatorInv /\ [OperatorNext]_operatorVars =>
        [rotation # NoRotation /\ rotation' = NoRotation /\ rotation.key \notin OperatorLocal =>
           now = 0 \/ secrets[rotation.key] = now]_operatorVars
  BY <1>1, <1>2
<1>. QED
  BY <1>3, OperatorInvariant, PTL DEF OperatorSpec, RotationConverges
=============================================================================
