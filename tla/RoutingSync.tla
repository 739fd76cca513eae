---------------------------- MODULE RoutingSync ----------------------------
(***************************************************************************)
(* src/routing-sync.ts: the mailboxes of D1 follow the Email Routing rules *)
(* of the zone.  Each isolate has one synchronization in flight, which all *)
(* its requests share; it reads the rules page by page while they may be   *)
(* edited, plans, writes one batch, and verifies what it finds afterwards. *)
(* Isolates know nothing of each other.                                    *)
(***************************************************************************)
EXTENDS Naturals, FiniteSets, Sequences

CONSTANTS
  Isolates,
  RuleIds,
  Addresses,  \* of the mail domain
  NoAddress,  \* what a rule names that is disabled or not a literal address of the domain
  PlanOrder,  \* the order of addresses by localeCompare, in which a plan is sorted
  RowOrder,   \* their order in SQLite, in which the rows are read back
  PageSize,   \* ROUTING_PAGE_SIZE
  MaxPages,   \* MAX_ROUTING_PAGES
  Counted,    \* whether the API says how many rules there are (total_count)
  MaxRules,   \* bound: rules of the zone
  MaxEdits,   \* bound: edits of the rules
  MaxSyncs    \* bound: synchronizations

ASSUME RoutingAssumption ==
  /\ NoAddress \notin Addresses
  /\ PlanOrder \in [Addresses -> Nat] /\ RowOrder \in [Addresses -> Nat]
  /\ PageSize \in Nat \ {0} /\ MaxPages \in Nat /\ Counted \in BOOLEAN
  /\ MaxRules \in Nat /\ MaxEdits \in Nat /\ MaxSyncs \in Nat

VARIABLES
  rules,      \* the rules as the API lists them
  mailboxes,  \* the rows of mailboxes by address
  sync,       \* the synchronization in flight in each isolate, and its locals
  syncs,      \* synchronizations begun
  edits,      \* edits of the rules so far
  named,      \* addresses some rule has named (history)
  last        \* the batch committed last: by whom, its plan, whether it was answered ok (history)

vars == <<rules, mailboxes, sync, syncs, edits, named, last>>

Rule == [id : RuleIds, address : Addresses \union {NoAddress}, worker : BOOLEAN]
Row == [there : BOOLEAN, receive : BOOLEAN, send : BOOLEAN, active : BOOLEAN, managed : BOOLEAN]
Seen(s) == {s[n] : n \in 1..Len(s)}
NoPlan == [a \in {} |-> FALSE]
Nothing == [at |-> "none", page |-> 1, total |-> 0, seen |-> <<>>, start |-> {}, edits |-> 0,
            plan |-> NoPlan, rows |-> {}, managed |-> {}]

\* deriveRoutingMailboxPlan: an address receives if one of its rules leads to the Worker.
deriveRoutingMailboxPlan(S) ==
  [a \in {r.address : r \in S} \ {NoAddress} |-> \E r \in S : r.address = a /\ r.worker]

Created(receive) == [there |-> TRUE, receive |-> receive, send |-> TRUE, active |-> TRUE, managed |-> TRUE]
Absent == [there |-> FALSE, receive |-> FALSE, send |-> FALSE, active |-> FALSE, managed |-> FALSE]

\* The mailboxes that the verification reads, as a plan.
Managed ==
  LET A == {a \in Addresses : mailboxes[a].there /\ mailboxes[a].active /\ mailboxes[a].managed}
  IN  [a \in A |-> mailboxes[a].receive]

\* Some mailboxes were made by hand; no rule was synchronized yet.
Init ==
  /\ \E n \in 0..MaxRules :
       rules \in {s \in [1..n -> Rule] : \A i, j \in 1..n : i # j => s[i].id # s[j].id}
  /\ mailboxes \in [Addresses -> {Absent, [Created(TRUE) EXCEPT !.managed = FALSE]}]
  /\ sync = [i \in Isolates |-> Nothing]
  /\ syncs = 0
  /\ edits = 0
  /\ named = {r.address : r \in Seen(rules)}
  /\ last = [by |-> "none", plan |-> NoPlan, ok |-> FALSE]

At(i, step) == sync[i].at = step
Leave(i) == sync' = [sync EXCEPT ![i] = Nothing]

\* syncRoutingMailboxes with none in flight; otherwise the request waits for that one.
Start(i) ==
  /\ At(i, "none")
  /\ syncs < MaxSyncs
  /\ syncs' = syncs + 1
  /\ sync' = [sync EXCEPT ![i] = [Nothing EXCEPT !.at = "fetch", !.start = Seen(rules), !.edits = edits]]
  /\ UNCHANGED <<rules, mailboxes, edits, named, last>>

Pages(total) == IF total = 0 THEN 1 ELSE (total + PageSize - 1) \div PageSize
Smaller(a, b) == IF a < b THEN a ELSE b
Page(n) == SubSeq(rules, (n - 1) * PageSize + 1, Smaller(n * PageSize, Len(rules)))

Read(i, total) ==
  sync' = [sync EXCEPT ![i].seen = @ \o Page(sync[i].page),
                       ![i].total = total,
                       ![i].page = @ + 1,
                       ![i].at = IF sync[i].page < Pages(total) THEN "fetch" ELSE "plan"]

\* Variant: the total of the last page read is the one that counts.
FetchRulesPageLatest(i) ==
  /\ At(i, "fetch")
  /\ Read(i, Len(rules))
  /\ UNCHANGED <<rules, mailboxes, syncs, edits, named, last>>

\* The first page says how many pages and rules there are, and the pages may be too many; a
\* later one must agree with it and repeat no rule.
Accepted(i) ==
  IF sync[i].page = 1 THEN Pages(Len(rules)) <= MaxPages
  ELSE /\ Pages(Len(rules)) = Pages(sync[i].total)
       /\ Counted => Len(rules) = sync[i].total
       /\ \A r \in Seen(Page(sync[i].page)), s \in Seen(sync[i].seen) : r.id # s.id

\* One page; one that is not accepted ends the synchronization.
FetchRulesPage(i) ==
  /\ At(i, "fetch")
  /\ \/ Accepted(i) /\ Read(i, IF sync[i].page = 1 THEN Len(rules) ELSE sync[i].total)
     \/ ~Accepted(i) /\ Leave(i)
  /\ UNCHANGED <<rules, mailboxes, syncs, edits, named, last>>

\* All the rules that were announced, if they were, are there; the plan is made and the rows are read.
ReadRows(i) ==
  /\ At(i, "plan")
  /\ IF Counted => Len(sync[i].seen) = sync[i].total
     THEN sync' = [sync EXCEPT ![i].at = "batch",
                               ![i].plan = deriveRoutingMailboxPlan(Seen(sync[i].seen)),
                               ![i].rows = {a \in Addresses : mailboxes[a].there},
                               ![i].managed = {a \in Addresses : mailboxes[a].managed}]
     ELSE Leave(i)
  /\ UNCHANGED <<rules, mailboxes, syncs, edits, named, last>>

\* Variant: mailboxes that no rule names are deactivated, the ones made by hand too.
DeactivatedAll(i, a) == a \in sync[i].rows /\ a \notin DOMAIN sync[i].plan

\* Managed rows whose address has no rule any more; being managed is read, and checked again
\* by the UPDATE.
Deactivated(i, a) ==
  /\ a \in sync[i].managed /\ a \notin DOMAIN sync[i].plan
  /\ mailboxes[a].managed

\* An address that was inserted meanwhile makes the batch fail as a whole.
Conflict(i) == \E a \in DOMAIN sync[i].plan \ sync[i].rows : mailboxes[a].there

Commit(i) ==
  /\ mailboxes' = [a \in Addresses |->
       IF a \in DOMAIN sync[i].plan THEN Created(sync[i].plan[a])
       ELSE IF Deactivated(i, a)
            THEN [mailboxes[a] EXCEPT !.receive = FALSE, !.send = FALSE, !.active = FALSE]
            ELSE mailboxes[a]]
  /\ last' = [by |-> i, plan |-> sync[i].plan, ok |-> FALSE]

ApplyBatch(i) ==
  /\ At(i, "batch")
  /\ \/ Conflict(i) /\ Leave(i) /\ UNCHANGED <<mailboxes, last>>
     \/ ~Conflict(i) /\ Commit(i) /\ sync' = [sync EXCEPT ![i].at = "verify"]
     \/ ~Conflict(i) /\ Commit(i) /\ Leave(i)  \* committed, and its answer lost
  /\ UNCHANGED <<rules, syncs, edits, named>>

\* Variant: what was written is what is there.
VerifyNever(i) ==
  /\ At(i, "verify")
  /\ last' = IF last.by = i THEN [last EXCEPT !.ok = TRUE] ELSE last
  /\ Leave(i)
  /\ UNCHANGED <<rules, mailboxes, syncs, edits, named>>

\* What was written is read back and compared with the plan one by one, each list in its own
\* order: where the orders differ, a batch that was applied is refused.
SameOrder(S) == \A a, b \in S : PlanOrder[a] < PlanOrder[b] <=> RowOrder[a] < RowOrder[b]

Verify(i) ==
  /\ At(i, "verify")
  /\ last' = IF last.by # i THEN last
             ELSE [last EXCEPT !.ok = (Managed = sync[i].plan /\ SameOrder(DOMAIN sync[i].plan))]
  /\ Leave(i)
  /\ UNCHANGED <<rules, mailboxes, syncs, edits, named>>

\* A fetch or a D1 call fails or times out, or the isolate goes.
Fail(i) ==
  /\ ~At(i, "none")
  /\ Leave(i)
  /\ UNCHANGED <<rules, mailboxes, syncs, edits, named, last>>

\* The rules are edited in the dashboard: one is removed, added anywhere, or changed.
Edit ==
  /\ edits < MaxEdits /\ edits' = edits + 1
  /\ \/ \E n \in 1..Len(rules) : rules' = SubSeq(rules, 1, n - 1) \o SubSeq(rules, n + 1, Len(rules))
     \/ \E n \in 0..Len(rules), r \in Rule :
          /\ Len(rules) < MaxRules
          /\ \A s \in Seen(rules) : s.id # r.id
          /\ rules' = SubSeq(rules, 1, n) \o <<r>> \o SubSeq(rules, n + 1, Len(rules))
     \/ \E n \in 1..Len(rules), r \in Rule :
          r.id = rules[n].id /\ r # rules[n] /\ rules' = [rules EXCEPT ![n] = r]
  /\ named' = named \union {r.address : r \in Seen(rules')}
  /\ UNCHANGED <<mailboxes, sync, syncs, last>>

Next ==
  \/ Edit
  \/ \E i \in Isolates : Start(i) \/ FetchRulesPage(i) \/ ReadRows(i) \/ ApplyBatch(i) \/ Verify(i)
                         \/ Fail(i)

Spec == Init /\ [][Next]_vars
-----------------------------------------------------------------------------
Plans == UNION {[A -> BOOLEAN] : A \in SUBSET Addresses}
Syncs == [at : {"none", "fetch", "plan", "batch", "verify"}, page : Nat \ {0}, total : Nat,
          seen : Seq(Rule), start : SUBSET Rule, edits : Nat, plan : Plans,
          rows : SUBSET Addresses, managed : SUBSET Addresses]

\* The type of every variable.
TypeOK ==
  /\ rules \in Seq(Rule)
  /\ mailboxes \in [Addresses -> Row]
  /\ sync \in [Isolates -> Syncs]
  /\ syncs \in Nat /\ edits \in Nat
  /\ named \subseteq Addresses \union {NoAddress}
  /\ last \in [by : Isolates \union {"none"}, plan : Plans, ok : BOOLEAN]

\* If the API counts the rules, those a synchronization plans from are of one moment of its
\* reading, unless they were edited more than once while it read the pages.
PlanIsOfOneMoment ==
  Counted => \A i \in Isolates :
    sync[i].at \in {"batch", "verify"} /\ edits <= sync[i].edits + 1 =>
      Seen(sync[i].seen) \in {sync[i].start, Seen(rules)}

\* If the synchronization that changed D1 last was answered ok, the managed mailboxes are those
\* of its plan, although others with other plans and other rows may have run in between.
LastAnswerIsTrue == last.ok => Managed = last.plan

\* A mailbox made by hand whose address no rule ever named is never changed.
ByHandIsLeftAlone ==
  [][\A a \in Addresses : a \notin named => mailboxes'[a] = mailboxes[a]]_vars
=============================================================================
