------------------------- MODULE InboundForwarding -------------------------
(***************************************************************************)
(* Backup forwarding of one archived incoming message:                     *)
(* src/inbound-forwarding.ts, the last stage of handleInbound.  A worker   *)
(* is one running invocation of the email handler; the sender delivers     *)
(* the message again as long as no invocation has returned normally, and   *)
(* may deliver it in duplicate.  Each D1 statement and each forward() is a *)
(* step of its own.                                                        *)
(*                                                                         *)
(* forwardInboundCopies throws before it touches any state when the        *)
(* envelope recipient is itself a target, and returns at once when there   *)
(* is no target; both leave nothing to model beyond LoopAssumption.        *)
(***************************************************************************)
EXTENDS Integers

CONSTANTS
  Workers,      \* concurrent invocations of the email handler
  NumTargets,   \* configured addresses, numbered in their configured order
  Recipient,    \* the envelope recipient
  StaleAfter,   \* age from which an in_flight claim may be taken over
  MaxTime,      \* bound: last reading of the clock
  MaxFailures   \* bound: D1 failures, evictions and refused forwards

Targets == 1..NumTargets

ASSUME ForwardingAssumption ==
  /\ NumTargets \in Nat \ {0}
  /\ StaleAfter \in Nat \ {0}
  /\ MaxTime \in Nat
  /\ MaxFailures \in Nat

\* normalizeEmail and the includes() test: a message to a target is refused first.
ASSUME LoopAssumption == Recipient \notin Targets

VARIABLES
  clock,      \* the time
  attempt,    \* inbound_forward_attempts: status and last_attempt_at per target
  pc,         \* where each invocation is
  started,    \* the timestamp it took on entry, which its claims carry
  at,         \* the target its claim loop has come to
  mine,       \* the targets it claimed and has not dealt with
  accepted,   \* acceptedCount > 0
  troubled,   \* failedCount > 0 or busyCount > 0
  settled,    \* some invocation returned normally: the sender is done
  failures,   \* failures injected so far
  copied,     \* targets for which forward() returned
  again,      \* targets for which it returned more than once
  lost,       \* targets whose returned forward() was not recorded as accepted
  takenOver   \* targets of which a stale claim was taken over

invocation == <<pc, started, at, mine, accepted, troubled>>
history == <<copied, again, lost, takenOver>>
vars == <<clock, attempt, invocation, settled, failures, history>>

Absent == [status |-> "absent", at |-> 0]

Init ==
  /\ clock = 0
  /\ attempt = [t \in Targets |-> Absent]
  /\ pc = [w \in Workers |-> "idle"]
  /\ started = [w \in Workers |-> 0]
  /\ at = [w \in Workers |-> 1]
  /\ mine = [w \in Workers |-> {}]
  /\ accepted = [w \in Workers |-> FALSE]
  /\ troubled = [w \in Workers |-> FALSE]
  /\ settled = FALSE
  /\ failures = 0
  /\ copied = {}
  /\ again = {}
  /\ lost = {}
  /\ takenOver = {}

-----------------------------------------------------------------------------
Goto(w, stage) == pc' = [pc EXCEPT ![w] = stage]

\* The end of an invocation; its locals go with it.
Leave(w) ==
  /\ Goto(w, "idle")
  /\ started' = [started EXCEPT ![w] = 0]
  /\ at' = [at EXCEPT ![w] = 1]
  /\ mine' = [mine EXCEPT ![w] = {}]
  /\ accepted' = [accepted EXCEPT ![w] = FALSE]
  /\ troubled' = [troubled EXCEPT ![w] = FALSE]

\* The claim loop goes on to the next target, then the forward loop begins.
NextTarget(w) ==
  /\ at' = [at EXCEPT ![w] = @ + 1]
  /\ Goto(w, IF at[w] < NumTargets THEN "claim" ELSE "forward")

\* The forward loop takes the claimed targets in their order.
First(w, t) == t \in mine[w] /\ \A u \in mine[w] : t <= u

Drop(w, t) == mine' = [mine EXCEPT ![w] = @ \ {t}]

-----------------------------------------------------------------------------
Arrive(w) ==
  /\ pc[w] = "idle"
  /\ Goto(w, "ensure")
  /\ started' = [started EXCEPT ![w] = clock]
  /\ UNCHANGED <<clock, attempt, at, mine, accepted, troubled, settled, failures, history>>

\* One batch of INSERT OR IGNORE for all targets.
EnsureAttemptRows(w) ==
  /\ pc[w] = "ensure"
  /\ attempt' = [t \in Targets |->
                   IF attempt[t].status = "absent"
                     THEN [status |-> "pending", at |-> 0] ELSE attempt[t]]
  /\ Goto(w, "claim")
  /\ UNCHANGED <<clock, started, at, mine, accepted, troubled, settled, failures, history>>

\* Variant: the operands of the comparison of datetimes are exchanged.
StaleBackwards(w, t) ==
  attempt[t].status = "in_flight" /\ started[w] + StaleAfter <= attempt[t].at

\* last_attempt_at is StaleAfter or more before the start of this invocation.
Stale(w, t) ==
  attempt[t].status = "in_flight" /\ attempt[t].at + StaleAfter <= started[w]

\* Variant: in_flight claims are not told apart from pending ones.
ClaimableAlways(w, t) ==
  attempt[t].status \in {"pending", "failed", "in_flight"}

Claimable(w, t) == attempt[t].status \in {"pending", "failed"} \/ Stale(w, t)

\* The guarded UPDATE of claimTarget changes the row.
ClaimTarget(w) ==
  LET t == at[w]
  IN  /\ pc[w] = "claim"
      /\ Claimable(w, t)
      /\ attempt' = [attempt EXCEPT ![t] = [status |-> "in_flight", at |-> started[w]]]
      /\ mine' = [mine EXCEPT ![w] = @ \union {t}]
      /\ takenOver' = IF Stale(w, t) THEN takenOver \union {t} ELSE takenOver
      /\ NextTarget(w)
      /\ UNCHANGED <<clock, started, accepted, troubled, settled, failures, copied, again, lost>>

\* It changes nothing: a second statement reads why.
MissTarget(w) ==
  /\ pc[w] = "claim"
  /\ ~Claimable(w, at[w])
  /\ Goto(w, "check")
  /\ UNCHANGED <<clock, attempt, started, at, mine, accepted, troubled, settled, failures, history>>

AttemptStatus(w) ==
  LET done == attempt[at[w]].status = "accepted"
  IN  /\ pc[w] = "check"
      /\ accepted' = [accepted EXCEPT ![w] = @ \/ done]
      /\ troubled' = [troubled EXCEPT ![w] = @ \/ ~done]
      /\ NextTarget(w)
      /\ UNCHANGED <<clock, attempt, started, mine, settled, failures, history>>

\* forward() returns: Cloudflare took the copy.
ForwardReturns(w) ==
  \E t \in Targets :
    /\ pc[w] = "forward"
    /\ First(w, t)
    /\ accepted' = [accepted EXCEPT ![w] = TRUE]
    /\ copied' = copied \union {t}
    /\ again' = IF t \in copied THEN again \union {t} ELSE again
    /\ Goto(w, "mark")
    /\ UNCHANGED <<clock, attempt, started, at, mine, troubled, settled, failures, lost, takenOver>>

\* Variant: the exception is logged and the target marked accepted all the same.
ForwardThrowsQuietly(w) ==
  /\ pc[w] = "forward"
  /\ mine[w] # {}
  /\ failures < MaxFailures
  /\ failures' = failures + 1
  /\ troubled' = [troubled EXCEPT ![w] = TRUE]
  /\ Goto(w, "mark")
  /\ UNCHANGED <<clock, attempt, started, at, mine, accepted, settled, history>>

\* forward() throws.
ForwardThrows(w) ==
  /\ pc[w] = "forward"
  /\ mine[w] # {}
  /\ failures < MaxFailures
  /\ failures' = failures + 1
  /\ troubled' = [troubled EXCEPT ![w] = TRUE]
  /\ Goto(w, "fail")
  /\ UNCHANGED <<clock, attempt, started, at, mine, accepted, settled, history>>

MarkForwardAccepted(w) ==
  \E t \in Targets :
    /\ pc[w] = "mark"
    /\ First(w, t)
    /\ attempt' = [attempt EXCEPT ![t].status = "accepted"]
    /\ Drop(w, t)
    /\ Goto(w, "forward")
    /\ UNCHANGED <<clock, started, at, accepted, troubled, settled, failures, history>>

\* D1 throws inside the same try block as forward(): the catch treats the copy as
\* failed.  The statement may have been applied (only its answer was lost) or not.
MarkThrows(w) ==
  \E t \in Targets, applied \in BOOLEAN :
    /\ pc[w] = "mark"
    /\ First(w, t)
    /\ failures < MaxFailures
    /\ failures' = failures + 1
    /\ attempt' = IF applied THEN [attempt EXCEPT ![t].status = "accepted"] ELSE attempt
    /\ lost' = IF applied THEN lost ELSE lost \union {t}
    /\ troubled' = [troubled EXCEPT ![w] = TRUE]
    /\ Goto(w, "fail")
    /\ UNCHANGED <<clock, started, at, mine, accepted, settled, copied, again, takenOver>>

\* Variant: without AND status<>'accepted'.
MarkFailedAlways(w) ==
  \E t \in Targets :
    /\ pc[w] = "fail"
    /\ First(w, t)
    /\ attempt' = [attempt EXCEPT ![t].status = "failed"]
    /\ Drop(w, t)
    /\ Goto(w, "forward")
    /\ UNCHANGED <<clock, started, at, accepted, troubled, settled, failures, history>>

MarkFailed(w) ==
  \E t \in Targets :
    /\ pc[w] = "fail"
    /\ First(w, t)
    /\ attempt' = [attempt EXCEPT ![t].status = IF @ = "accepted" THEN @ ELSE "failed"]
    /\ Drop(w, t)
    /\ Goto(w, "forward")
    /\ UNCHANGED <<clock, started, at, accepted, troubled, settled, failures, history>>

\* Variant: a target in the hands of another invocation counts as taken care of.
ConcludeTrusting(w) ==
  /\ pc[w] = "forward"
  /\ mine[w] = {}
  /\ settled' = TRUE
  /\ Leave(w)
  /\ UNCHANGED <<clock, attempt, failures, history>>

\* Some target accepted: return.  Otherwise throw 502: the sender tries again.
Conclude(w) ==
  /\ pc[w] = "forward"
  /\ mine[w] = {}
  /\ settled' = (settled \/ accepted[w] \/ ~troubled[w])
  /\ Leave(w)
  /\ UNCHANGED <<clock, attempt, failures, history>>

\* A D1 statement outside the try block throws, or the invocation is evicted.  Its
\* claims stay in_flight.  Bound: only while the clock can still pass StaleAfter.
Abort(w) ==
  /\ pc[w] # "idle"
  /\ failures < MaxFailures
  /\ started[w] + StaleAfter <= MaxTime
  /\ failures' = failures + 1
  /\ lost' = IF pc[w] = "mark" THEN lost \union {t \in Targets : First(w, t)} ELSE lost
  /\ Leave(w)
  /\ UNCHANGED <<clock, attempt, settled, copied, again, takenOver>>

Tick ==
  /\ clock < MaxTime
  /\ clock' = clock + 1
  /\ UNCHANGED <<attempt, invocation, settled, failures, history>>

-----------------------------------------------------------------------------
Step(w) ==
  \/ EnsureAttemptRows(w) \/ ClaimTarget(w) \/ MissTarget(w) \/ AttemptStatus(w)
  \/ ForwardReturns(w) \/ ForwardThrows(w) \/ MarkForwardAccepted(w) \/ MarkThrows(w)
  \/ MarkFailed(w) \/ Conclude(w)

Next ==
  \/ \E w \in Workers : Arrive(w) \/ Step(w) \/ Abort(w)
  \/ Tick

Spec == Init /\ [][Next]_vars

\* An invocation runs to its end; the sending server retries a message that was
\* not taken (external to the code); time passes.
Fairness ==
  /\ \A w \in Workers : WF_vars(Step(w))
  /\ SF_vars(\E w \in Workers : ~settled /\ Arrive(w))
  /\ WF_vars(Tick)

FairSpec == Spec /\ Fairness

-----------------------------------------------------------------------------
Stages == {"idle", "ensure", "claim", "check", "forward", "mark", "fail"}
Statuses == {"absent", "pending", "in_flight", "accepted", "failed"}

\* Types of all variables.
TypeOK ==
  /\ clock \in 0..MaxTime
  /\ attempt \in [Targets -> [status : Statuses, at : 0..MaxTime]]
  /\ pc \in [Workers -> Stages]
  /\ started \in [Workers -> 0..MaxTime]
  /\ at \in [Workers -> 1..(NumTargets + 1)]
  /\ \A w \in Workers : pc[w] \in {"idle", "ensure", "claim", "check"} => at[w] \in Targets
  /\ mine \in [Workers -> SUBSET Targets]
  /\ accepted \in [Workers -> BOOLEAN]
  /\ troubled \in [Workers -> BOOLEAN]
  /\ settled \in BOOLEAN
  /\ failures \in 0..MaxFailures
  /\ copied \subseteq Targets
  /\ again \subseteq copied
  /\ lost \subseteq Targets
  /\ takenOver \subseteq Targets

\* 'accepted' is written only after forward() returned for that target, whichever
\* invocation writes it and whatever became of the others.
AcceptedWasForwarded == \A t \in Targets : attempt[t].status = "accepted" => t \in copied

\* No target is sent a second copy, however deliveries are duplicated, unless a
\* claim had outlived StaleAfter or the record of a returned forward() was lost.
SecondCopiesAreExplained == again \subseteq lost \union takenOver

\* An invocation returns normally only when Cloudflare took a copy for some target:
\* a message nobody was sent, because others were busy, is delivered again.
SettledMeansForwarded == settled => copied # {}

AcceptedRemain ==
  \A t \in Targets : attempt[t].status = "accepted" => attempt'[t].status = "accepted"

\* 'accepted' is terminal for a target: neither a late failure of an invocation
\* whose claim was taken over, nor a new claim, takes it back.
AcceptedIsTerminal == [][AcceptedRemain]_attempt

\* The sender is not kept retrying for ever: claims left by dead invocations expire.
EventuallySettled == <>settled

\* A target whose forward() returned is not sent a copy by a later delivery.
NoSecondCopy == again = {}
=============================================================================
