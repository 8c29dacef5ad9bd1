-------------------------- MODULE ToolEpisode_proofs --------------------------
(***************************************************************************)
(* The properties of ToolEpisode for every budget, every error limit and   *)
(* every set of plan items and facts.  The inductive invariant is their    *)
(* conjunction: the handle counter fits its range only because an open     *)
(* episode has budget left (VerdictExplained) and issues one handle a      *)
(* step (HarnessCoherent); a new handle is new only because the registry   *)
(* never runs ahead of the counter; its producing step is new only because *)
(* the history ends at the current step (HistoryIsLegal).                  *)
(***************************************************************************)
EXTENDS ToolEpisode, Harness_proofs

IInv ==
  /\ TypeOK
  /\ HarnessCoherent
  /\ HandlesGrounded
  /\ HistoryIsLegal
  /\ VerdictExplained

-----------------------------------------------------------------------------
(***************************************************************************)
(* Facts about the inputs of a call.                                       *)
(***************************************************************************)

\* A call reads resolvable references and caches only inputs that may be.
LEMMA CallInputs ==
  ASSUME TypeOK
  PROVE  /\ \A T \in Inputs : T \in SUBSET Resolvable(harness)
         /\ \A T, stage : CachedAt(T, stage) \subseteq SUBSET Materializable(harness, T)
         /\ \A T : Materializable(harness, T) \subseteq Handle
BY DEF TypeOK, HarnessType, Inputs, CachedAt, Materializable

\* An open episode can still issue a handle.
LEMMA HandleLeft ==
  ASSUME TypeOK, HarnessCoherent, VerdictExplained, ~done
  PROVE  /\ harness \in HarnessType /\ harness.seq \in Nat /\ steps \in Nat
         /\ steps < MaxSteps /\ harness.seq < MaxHandles
         /\ harness.seq + 1 \in Handle /\ steps + 1 \in Step
BY BudgetAssumption
   DEF TypeOK, HarnessType, HarnessCoherent, VerdictExplained, Handle, Step

-----------------------------------------------------------------------------
(***************************************************************************)
(* The ways a turn ends.                                                   *)
(***************************************************************************)

Raised == ErrorType \ {"nonrecoverable_execution_error"}

\* apply_model_output returns by its success branch, by its except branch or
\* by the answer branch, and nowhere else.
LEMMA TurnCases ==
  ASSUME IInv, Next
  PROVE  \/ \E kind \in CallKind, handles \in SUBSET Handle : Succeed(kind, handles)
         \/ \E raised \in Raised : Fail(raised)
         \/ \E ref \in Ref, read, verdict \in BOOLEAN : AnswerCall(ref, read, verdict)
<1> USE DEF IInv
<1>1. CASE RejectTurn
  BY <1>1 DEF RejectTurn, Raised, ErrorType
<1>2. CASE PlanTurn
  <2> PICK outcome : PlanCall(outcome) \/ PlanFails(outcome)
    BY <1>2 DEF PlanTurn
  <2> QED BY DEF PlanCall, PlanFails, Raised, ErrorType, CallKind
<1>3. CASE PerceptionCall
  BY <1>3 DEF PerceptionCall, CallKind
<1>4. CASE RelationTurn
  <2>1. PICK T \in Inputs, isSmall \in BOOLEAN : \E M \in CachedAt(T, "counted") :
               RelationCall(T, M, isSmall)
    BY <1>4 DEF RelationTurn
  <2>2. PICK M \in CachedAt(T, "counted") : RelationCall(T, M, isSmall)
    BY <2>1
  <2>3. M \in SUBSET Handle /\ "counted" \in Stage
    BY CallInputs DEF Stage
  <2>4. ~done /\ harness \in HarnessType /\ harness.seq < MaxHandles /\ harness.seq + 1 \in Handle
    BY <2>2, HandleLeft DEF RelationCall
  <2>5. PartialCall(harness, T, M, "counted", isSmall).seq = harness.seq + 1
    BY <2>3, <2>4, PartialCallTyped
  <2> QED BY <2>2, <2>4, <2>5 DEF RelationCall, CallKind
<1>5. CASE BrokenTurn
  <2>1. PICK T, M, stage, isSmall :
          RelationFails(T, M, stage, isSmall) \/ TimeoutTurn(T, M, stage, isSmall)
    BY <1>5 DEF BrokenTurn
  <2> QED BY <2>1 DEF RelationFails, TimeoutTurn, Raised, ErrorType
<1>6. CASE AnswerTurn
  BY <1>6 DEF AnswerTurn
<1> QED BY <1>1, <1>2, <1>3, <1>4, <1>5, <1>6 DEF Next

\* What a turn does to the Harness: nothing, or what a call left at some stage
\* when it was not interrupted; a step is spent in any case.
LEMMA HarnessCases ==
  ASSUME IInv, Next
  PROVE  /\ ~done
         /\ steps' = steps + 1
         /\ \/ harness' = harness
            \/ \E T \in SUBSET Resolvable(harness), stage \in Stage, isSmall \in BOOLEAN :
               \E M \in SUBSET Materializable(harness, T) :
                 harness' = PartialCall(harness, T, M, stage, isSmall)
<1> USE DEF IInv
<1>1. ~done /\ steps' = steps + 1
  BY TurnCases DEF Succeed, Fail, AnswerCall, BeginTurn, this
<1>2. CASE RejectTurn \/ PlanTurn \/ PerceptionCall \/ AnswerTurn
  BY <1>1, <1>2 DEF RejectTurn, PlanTurn, PlanCall, PlanFails, PerceptionCall, AnswerTurn,
                    AnswerCall
<1>3. CASE RelationTurn
  <2>1. PICK T \in Inputs, isSmall \in BOOLEAN : \E M \in CachedAt(T, "counted") :
               RelationCall(T, M, isSmall)
    BY <1>3 DEF RelationTurn
  <2>2. PICK M \in CachedAt(T, "counted") : RelationCall(T, M, isSmall)
    BY <2>1
  <2>3. /\ T \in SUBSET Resolvable(harness) /\ M \in SUBSET Materializable(harness, T)
        /\ "counted" \in Stage
    BY CallInputs DEF Stage
  <2>4. harness' = PartialCall(harness, T, M, "counted", isSmall)
    BY <2>2 DEF RelationCall
  <2> QED BY <1>1, <2>3, <2>4
<1>4. CASE BrokenTurn
  <2>1. PICK T \in Inputs, stage \in Stage, isSmall \in BOOLEAN : \E M \in CachedAt(T, stage) :
          RelationFails(T, M, stage, isSmall) \/ TimeoutTurn(T, M, stage, isSmall)
    BY <1>4 DEF BrokenTurn
  <2>2. PICK M \in CachedAt(T, stage) :
          RelationFails(T, M, stage, isSmall) \/ TimeoutTurn(T, M, stage, isSmall)
    BY <2>1
  <2>3. /\ T \in SUBSET Resolvable(harness) /\ M \in SUBSET Materializable(harness, T)
        /\ M \in SUBSET Handle
    BY CallInputs
  <2>4. CASE RelationFails(T, M, stage, isSmall)
    BY <1>1, <2>3, <2>4 DEF RelationFails
  <2>5. CASE TimeoutTurn(T, M, stage, isSmall)
    <3>1. harness' = RestoreInterrupted(harness, PartialCall(harness, T, M, stage, isSmall))
      BY <2>5 DEF TimeoutTurn
    <3>2. harness \in HarnessType /\ harness.seq < MaxHandles
      BY <1>1, HandleLeft
    <3>3. harness' = harness
      BY <2>3, <3>1, <3>2, RestoreUndoes
    <3> QED BY <1>1, <3>3
  <2> QED BY <2>2, <2>4, <2>5
<1> QED BY <1>2, <1>3, <1>4 DEF Next

-----------------------------------------------------------------------------
(***************************************************************************)
(* The inductive step, one lemma per conjunct.                             *)
(***************************************************************************)

\* The Harness stays coherent and the counter behind the steps.
LEMMA HarnessStep ==
  ASSUME IInv, [Next]_vars
  PROVE  HarnessCoherent' /\ harness' \in HarnessType
<1>1. CASE UNCHANGED vars
  BY <1>1 DEF IInv, vars, HarnessCoherent, Coherent, TypeOK
<1>2. CASE Next
  <2>1. /\ ~done /\ steps' = steps + 1 /\ harness \in HarnessType /\ Coherent(harness)
        /\ harness.seq <= steps /\ harness.seq \in Nat /\ steps \in Nat
        /\ harness.seq < MaxHandles
    BY <1>2, HarnessCases, HandleLeft DEF IInv, HarnessCoherent
  <2>2. CASE harness' = harness
    BY <2>1, <2>2 DEF HarnessCoherent
  <2>3. ASSUME NEW T \in SUBSET Resolvable(harness), NEW stage \in Stage,
               NEW isSmall \in BOOLEAN, NEW M \in SUBSET Materializable(harness, T),
               harness' = PartialCall(harness, T, M, stage, isSmall)
        PROVE  HarnessCoherent' /\ harness' \in HarnessType
    <3>1. M \in SUBSET Handle
      BY CallInputs DEF IInv
    <3>2. /\ harness' \in HarnessType /\ harness'.seq \in {harness.seq, harness.seq + 1}
          /\ Coherent(harness')
      BY <2>1, <2>3, <3>1, PartialCallTyped, PartialCallCoherent
    <3> QED BY <2>1, <3>2 DEF HarnessCoherent
  <2> QED BY <1>2, <2>2, <2>3, HarnessCases
<1> QED BY <1>1, <1>2

\* Writing valid fields of an operation over an item gives an item.
LEMMA WrittenTyped ==
  ASSUME NEW op \in PlanOp, NEW item \in Item, NEW K \in SUBSET Valid(op)
  PROVE  Written(item, op, K) \in Item
<1>1. /\ item.status \in ItemStatus /\ item.goal \in Goal /\ item.evidence \in Evidence
  BY DEF Item
<1>2. "status" \in K => op.status \in ItemStatus
  BY DEF PlanOp, Valid, Authored, Field, ItemStatus
<1>3. "goal" \in K => op.goal \in Goal
  BY DEF PlanOp, Valid, Authored, Field, Goal
<1>4. "evidence" \in K => op.evidence \in Evidence
  BY DEF PlanOp, Valid, Authored, Field, Evidence
<1> QED BY <1>1, <1>2, <1>3, <1>4 DEF Written, Item

\* apply_plan_ops keeps every item well formed, also when it raises half-way.
LEMMA OpTyped ==
  ASSUME NEW plan \in Plan, NEW op \in PlanOp, NEW outcome \in OpOutcomes(plan, op)
  PROVE  outcome.plan \in Plan
<1>1. op.id \in Items /\ op.op \in {"create", "update", "delete"}
  BY DEF PlanOp
<1>2. \A item \in Item : [plan EXCEPT ![op.id] = item] \in Plan
  BY <1>1 DEF Plan
<1>3. Store(plan, op).plan \in Plan
  <2>1. Fresh \in Item
    BY DEF Fresh, Item, ItemStatus, Goal, Evidence
  <2>2. CASE Valid(op) = Authored(op)
    <3>1. Written(Fresh, op, Authored(op)) \in Item
      BY <2>1, <2>2, WrittenTyped
    <3> QED BY <1>2, <2>2, <3>1 DEF Store, Accepted
  <2> QED BY <2>2 DEF Store, Rejected
<1>4. ASSUME Listed(plan, op.id)
      PROVE  plan[op.id] \in Item
  BY <1>1, <1>4 DEF Listed, Plan, Absent
<1>5. ASSUME Listed(plan, op.id), NEW r \in Updates(plan, op)
      PROVE  r.plan \in Plan
  <2>1. \A K \in SUBSET Valid(op) :
          [plan EXCEPT ![op.id] = Written(plan[op.id], op, K)] \in Plan
    BY <1>2, <1>4, <1>5, WrittenTyped
  <2>2. r.plan \in { [plan EXCEPT ![op.id] = Written(plan[op.id], op, K)] : K \in SUBSET Valid(op) }
        \/ r.plan = plan
    BY <1>5 DEF Updates, Rejected, Accepted
  <2> QED BY <2>1, <2>2
<1>6. CASE op.op = "create"
  <2>1. outcome = Rejected(plan) \/ outcome = Store(plan, op)
    BY <1>6 DEF OpOutcomes
  <2> QED BY <1>3, <2>1 DEF Rejected
<1>7. CASE op.op = "update"
  <2>1. CASE Listed(plan, op.id)
    <3>1. outcome \in Updates(plan, op)
      BY <1>7, <2>1 DEF OpOutcomes
    <3> QED BY <1>5, <2>1, <3>1
  <2>2. CASE ~Listed(plan, op.id)
    <3>1. outcome = Store(plan, op)
      BY <1>7, <2>2 DEF OpOutcomes
    <3> QED BY <1>3, <3>1
  <2> QED BY <2>1, <2>2
<1>8. CASE op.op = "delete"
  <2>1. \/ outcome = Rejected(plan)
        \/ Listed(plan, op.id) /\ outcome = Accepted([plan EXCEPT ![op.id].status = "deleted"])
    BY <1>8 DEF OpOutcomes
  <2>2. ASSUME Listed(plan, op.id)
        PROVE  [plan EXCEPT ![op.id].status = "deleted"] \in Plan
    <3>1. [plan[op.id] EXCEPT !.status = "deleted"] \in Item
      BY <1>4, <2>2 DEF Item, ItemStatus
    <3> QED BY <1>2, <3>1
  <2> QED BY <2>1, <2>2 DEF Rejected, Accepted
<1> QED BY <1>1, <1>6, <1>7, <1>8

LEMMA PlanTyped ==
  ASSUME NEW plan \in Plan, NEW hasHistory, NEW outcome \in PlanOutcomes(plan, hasHistory)
  PROVE  outcome.plan \in Plan
BY OpTyped DEF PlanOutcomes, AnyOp, Citable
\* What a turn does to the resident state and to handle_to_step: a failed or
\* answering turn may at most have changed the plan, a perception stores a
\* fact, a relation enters both under its handle and step.
LEMMA ResidentCases ==
  ASSUME IInv, Next
  PROVE  \/ /\ handleToStep' = handleToStep /\ created' = created
            /\ resident' = resident
         \/ /\ handleToStep' = handleToStep /\ created' = created
            /\ \E plan \in Plan : resident' = [resident EXCEPT !.plan = plan]
         \/ /\ handleToStep' = handleToStep /\ created' = created
            /\ \E fact \in Facts : resident' = Observed(resident, fact, steps + 1)
         \/ /\ harness.seq + 1 \in Handle
            /\ handleToStep' = [handleToStep EXCEPT ![harness.seq + 1] = steps + 1]
            /\ resident' = Derived(resident, harness.seq + 1, steps + 1)
            /\ created' = created \cup {harness.seq + 1}
            /\ harness.seq + 1 \in harness'.rowCounts
            /\ Succeed("relation", {harness.seq + 1})
<1> USE DEF IInv
<1>1. CASE RejectTurn \/ AnswerTurn
  BY <1>1 DEF RejectTurn, Fail, AnswerTurn, AnswerCall, context
<1>2. CASE PlanTurn
  <2>1. PICK outcome \in PlanOutcomes(resident.plan, \E s \in Step : history[s] # "none") :
          PlanCall(outcome) \/ PlanFails(outcome)
    BY <1>2 DEF PlanTurn
  <2>2. outcome.plan \in Plan
    BY PlanTyped DEF TypeOK, ResidentType
  <2>3. /\ handleToStep' = handleToStep /\ created' = created
        /\ resident' = [resident EXCEPT !.plan = outcome.plan]
    BY <2>1 DEF PlanCall, PlanFails, Succeed, Fail
  <2> QED BY <2>2, <2>3
<1>3. CASE PerceptionCall
  BY <1>3 DEF PerceptionCall, Succeed, this
<1>4. CASE RelationTurn
  <2>1. PICK T \in Inputs, isSmall \in BOOLEAN : \E M \in CachedAt(T, "counted") :
               RelationCall(T, M, isSmall)
    BY <1>4 DEF RelationTurn
  <2>2. PICK M \in CachedAt(T, "counted") : RelationCall(T, M, isSmall)
    BY <2>1
  <2>3. M \in SUBSET Handle /\ "counted" \in Stage
    BY CallInputs DEF Stage
  <2>4. ~done /\ harness \in HarnessType /\ harness.seq < MaxHandles /\ harness.seq + 1 \in Handle
    BY <2>2, HandleLeft DEF RelationCall
  <2> DEFINE after == PartialCall(harness, T, M, "counted", isSmall)
  <2>5. after.seq = harness.seq + 1 /\ harness.seq + 1 \in after.rowCounts
    BY <2>3, <2>4, PartialCallTyped
  <2>6. /\ harness' = after
        /\ handleToStep' = [handleToStep EXCEPT ![after.seq] = steps + 1]
        /\ resident' = Derived(resident, after.seq, steps + 1)
        /\ Succeed("relation", {after.seq})
    BY <2>2 DEF RelationCall, this
  <2> HIDE DEF after
  <2>7. created' = created \cup {after.seq}
    BY <2>6 DEF Succeed
  <2> QED BY <2>4, <2>5, <2>6, <2>7
<1>5. CASE BrokenTurn
  BY <1>5 DEF BrokenTurn, RelationFails, TimeoutTurn, Fail
<1> QED BY <1>1, <1>2, <1>3, <1>4, <1>5 DEF Next

\* Every variable keeps its type: the plan because its operations do, the
\* error counts because a turn adds at most one error.
LEMMA TypeStep ==
  ASSUME IInv, [Next]_vars
  PROVE  TypeOK'
<1>1. CASE UNCHANGED vars
  BY <1>1 DEF IInv, TypeOK, vars, context
<1>2. CASE Next
  <2>1. /\ TypeOK /\ ~done /\ steps + 1 \in Step /\ steps \in Nat /\ steps' = steps + 1
        /\ harness' \in HarnessType
    BY <1>2, HarnessCases, HarnessStep, HandleLeft DEF IInv
  <2>2. /\ handleToStep' \in [Handle -> {0} \cup Step]
        /\ resident' \in ResidentType(Step, Handle)
    <3>1. /\ handleToStep \in [Handle -> {0} \cup Step]
          /\ resident \in ResidentType(Step, Handle)
      BY <2>1 DEF TypeOK
    <3>2. \A plan \in Plan : [resident EXCEPT !.plan = plan] \in ResidentType(Step, Handle)
      BY <3>1 DEF ResidentType
    <3>3. \A fact \in Facts : Observed(resident, fact, steps + 1) \in ResidentType(Step, Handle)
      BY <2>1, <3>1 DEF ResidentType, Observed
    <3>4. \A h \in Handle : Derived(resident, h, steps + 1) \in ResidentType(Step, Handle)
      BY <2>1, <3>1 DEF ResidentType, Derived
    <3> QED BY <1>2, <2>1, <3>1, <3>2, <3>3, <3>4, ResidentCases
  <2>3. CASE \E kind \in CallKind, handles \in SUBSET Handle : Succeed(kind, handles)
    <3>1. PICK kind \in CallKind, handles \in SUBSET Handle : Succeed(kind, handles)
      BY <2>3
    <3>2. /\ history' \in [Step -> CallKind \cup {"none"}]
          /\ turns' \in [Step -> TurnKind \cup {"none"}]
          /\ created' \subseteq Handle /\ legalHistory' \subseteq Step
      BY <2>1, <3>1 DEF TypeOK, Succeed, BeginTurn, this, TurnKind
    <3>3. errorCounts' \in [ErrorType -> 0 .. steps']
      BY <2>1, <3>1 DEF TypeOK, Succeed
    <3>4. /\ lastError' \in ErrorType \cup {"none"} /\ done' \in BOOLEAN /\ correct' \in BOOLEAN
          /\ legal' \in BOOLEAN /\ cited' \subseteq Ref
          /\ failureType' \in ErrorType \cup {"none", "wrong_answer", "max_steps"}
      BY <2>1, <3>1 DEF TypeOK, Succeed, BudgetSpent
    <3> QED BY <2>1, <2>2, <3>2, <3>3, <3>4 DEF TypeOK
  <2>4. CASE \E raised \in Raised : Fail(raised)
    <3>1. PICK type \in ErrorType :
            /\ BeginTurn(type)
            /\ errorCounts' = [errorCounts EXCEPT ![type] = errorCounts[type] + 1]
            /\ lastError' = type
            /\ done' \in BOOLEAN
            /\ failureType' \in {type, "max_steps", failureType}
            /\ UNCHANGED <<history, handleToStep, created, legalHistory, correct, legal, cited>>
      BY <2>4 DEF Fail, ErrorTypeOf, Fatal, LimitReached, BudgetSpent, Raised, ErrorType
    <3>2. turns' \in [Step -> TurnKind \cup {"none"}]
      BY <2>1, <3>1 DEF TypeOK, BeginTurn, this, TurnKind
    <3>3. errorCounts' \in [ErrorType -> 0 .. steps']
      BY <2>1, <3>1 DEF TypeOK
    <3> QED BY <2>1, <2>2, <3>1, <3>2, <3>3 DEF TypeOK
  <2>5. CASE \E ref \in Ref, read, verdict \in BOOLEAN : AnswerCall(ref, read, verdict)
    <3>1. PICK ref \in Ref, read \in BOOLEAN, verdict \in BOOLEAN : AnswerCall(ref, read, verdict)
      BY <2>5
    <3>2. turns' \in [Step -> TurnKind \cup {"none"}]
      BY <2>1, <3>1 DEF TypeOK, AnswerCall, BeginTurn, this, TurnKind
    <3>3. errorCounts' \in [ErrorType -> 0 .. steps']
      BY <2>1, <3>1 DEF TypeOK, AnswerCall
    <3>4. /\ history' = history /\ created' = created /\ legalHistory' = legalHistory
          /\ lastError' = lastError /\ done' \in BOOLEAN /\ correct' \in BOOLEAN
          /\ legal' \in BOOLEAN /\ cited' \subseteq Ref
          /\ failureType' \in {"none", "wrong_answer"}
      BY <3>1 DEF AnswerCall, context
    <3> QED BY <2>1, <2>2, <3>2, <3>3, <3>4 DEF TypeOK
  <2> QED BY <1>2, <2>3, <2>4, <2>5, TurnCases
<1> QED BY <1>1, <1>2
\* History, legal history and turns agree on what happened at every step: each
\* turn writes only the entry of the step it spends.
LEMMA HistoryStep ==
  ASSUME IInv, [Next]_vars
  PROVE  HistoryIsLegal'
<1>1. CASE UNCHANGED vars
  BY <1>1 DEF IInv, HistoryIsLegal, vars, context
<1>2. CASE Next
  <2>1. /\ TypeOK /\ HistoryIsLegal /\ steps + 1 \in Step /\ steps \in Nat /\ steps' = steps + 1
    BY <1>2, HarnessCases, HandleLeft DEF IInv
  <2>2. \A s \in Step : s \in Nat /\ (s <= steps + 1 <=> s <= steps \/ s = steps + 1)
    BY <2>1, BudgetAssumption DEF Step
  <2>3. "none" \notin TurnKind /\ "none" \notin CallKind /\ CallKind \cap (ErrorType \cup {"answer"}) = {}
    BY DEF TurnKind, CallKind, ErrorType
  <2>4. CASE \E kind \in CallKind, handles \in SUBSET Handle : Succeed(kind, handles)
    <3>1. PICK kind \in CallKind : /\ turns' = [turns EXCEPT ![steps + 1] = kind]
                                   /\ history' = [history EXCEPT ![steps + 1] = kind]
                                   /\ legalHistory' = legalHistory \cup {steps + 1}
      BY <2>4 DEF Succeed, BeginTurn, this
    <3>2. turns \in [Step -> TurnKind \cup {"none"}] /\ history \in [Step -> CallKind \cup {"none"}]
      BY <2>1 DEF TypeOK
    <3> QED BY <2>1, <2>2, <2>3, <3>1, <3>2 DEF HistoryIsLegal
  <2>5. CASE \/ \E raised \in Raised : Fail(raised)
             \/ \E ref \in Ref, read, verdict \in BOOLEAN : AnswerCall(ref, read, verdict)
    <3>1. PICK kind \in ErrorType \cup {"answer"} :
            /\ turns' = [turns EXCEPT ![steps + 1] = kind]
            /\ history' = history /\ legalHistory' = legalHistory
      BY <2>5 DEF Fail, ErrorTypeOf, AnswerCall, BeginTurn, this, context, Raised, ErrorType
    <3>2. turns \in [Step -> TurnKind \cup {"none"}]
      BY <2>1 DEF TypeOK
    <3>3. history[steps + 1] = "none" /\ turns[steps + 1] = "none"
      BY <2>1, <2>3, <3>2 DEF HistoryIsLegal
    <3>4. \A s \in Step : s # steps + 1 => turns'[s] = turns[s]
      BY <3>1, <3>2
    <3>5. turns'[steps + 1] \in ErrorType \cup {"answer"}
      BY <2>1, <3>1, <3>2
    <3>6. ASSUME NEW s \in Step, s # steps + 1
          PROVE  /\ (history'[s] # "none") <=> (turns'[s] \in CallKind)
                 /\ history'[s] # "none" => history'[s] = turns'[s]
                 /\ s \in legalHistory' <=> history'[s] # "none"
                 /\ (turns'[s] # "none") <=> (s <= steps')
      BY <2>1, <2>2, <3>1, <3>4, <3>6 DEF HistoryIsLegal
    <3>7. /\ history'[steps + 1] = "none" /\ turns'[steps + 1] \notin CallKind
          /\ turns'[steps + 1] # "none" /\ steps + 1 \notin legalHistory' /\ steps + 1 <= steps'
      <4>1. history'[steps + 1] = "none" /\ steps + 1 \notin legalHistory'
        BY <2>1, <3>1, <3>3 DEF HistoryIsLegal
      <4>2. "none" \notin ErrorType \cup {"answer"}
        BY <2>3 DEF TurnKind
      <4> QED BY <2>1, <2>3, <3>5, <4>1, <4>2
    <3> QED BY <3>6, <3>7 DEF HistoryIsLegal
  <2> QED BY <1>2, <2>4, <2>5, TurnCases
<1> QED BY <1>1, <1>2

\* The handle a step issues is unknown to every part of the episode before it,
\* and its step is the producing step of no other handle.
LEMMA GroundedStep ==
  ASSUME IInv, [Next]_vars
  PROVE  HandlesGrounded'
<1>1. CASE UNCHANGED vars
  BY <1>1 DEF IInv, HandlesGrounded, vars, context
<1>2. CASE Next
  <2>1. /\ TypeOK /\ HandlesGrounded /\ HistoryIsLegal /\ steps + 1 \in Step /\ steps \in Nat
        /\ ~done /\ harness \in HarnessType /\ Coherent(harness) /\ harness.seq < MaxHandles
    BY <1>2, HarnessCases, HandleLeft DEF IInv, HarnessCoherent
  <2>2. harness.rowCounts \subseteq harness'.rowCounts
    <3>1. CASE harness' = harness
      BY <3>1
    <3>2. ASSUME NEW T \in SUBSET Resolvable(harness), NEW stage \in Stage,
                 NEW isSmall \in BOOLEAN, NEW M \in SUBSET Materializable(harness, T),
                 harness' = PartialCall(harness, T, M, stage, isSmall)
          PROVE  harness.rowCounts \subseteq harness'.rowCounts
      <4>1. M \in SUBSET Handle
        BY CallInputs DEF IInv
      <4> QED BY <2>1, <3>2, <4>1, PartialCallTyped
    <3> QED BY <1>2, <3>1, <3>2, HarnessCases
  <2>3. \A h \in created : history'[handleToStep[h]] = history[handleToStep[h]]
    <3>1. \A h \in created : handleToStep[h] \in Step /\ handleToStep[h] # steps + 1
      <4> SUFFICES ASSUME NEW h \in created
                   PROVE  handleToStep[h] \in Step /\ handleToStep[h] # steps + 1
        OBVIOUS
      <4>1. handleToStep[h] \in Step /\ history[handleToStep[h]] = "relation"
        BY <2>1 DEF HandlesGrounded, TypeOK
      <4>2. turns[handleToStep[h]] = "relation"
        BY <2>1, <4>1 DEF HistoryIsLegal
      <4>3. handleToStep[h] <= steps
        BY <2>1, <4>1, <4>2 DEF HistoryIsLegal
      <4> QED BY <2>1, <4>1, <4>3
    <3>2. \/ history' = history
          \/ \E kind : history' = [history EXCEPT ![steps + 1] = kind]
      BY <1>2, TurnCases DEF Succeed, Fail, AnswerCall, context, this
    <3> QED BY <2>1, <3>1, <3>2 DEF TypeOK
  <2>4. CASE /\ handleToStep' = handleToStep /\ created' = created
             /\ resident'.tables = resident.tables
    BY <2>1, <2>2, <2>3, <2>4 DEF HandlesGrounded
  <2>5. CASE /\ harness.seq + 1 \in Handle
             /\ handleToStep' = [handleToStep EXCEPT ![harness.seq + 1] = steps + 1]
             /\ resident' = Derived(resident, harness.seq + 1, steps + 1)
             /\ created' = created \cup {harness.seq + 1}
             /\ harness.seq + 1 \in harness'.rowCounts
             /\ Succeed("relation", {harness.seq + 1})
    <3> DEFINE n == harness.seq + 1
    <3>1. n \in Handle /\ n \notin created
      BY <2>1, <2>5 DEF HandlesGrounded, Coherent, HarnessType
    <3>2. \A g \in created : handleToStep[g] # steps + 1 /\ handleToStep[g] \in Step
      <4> SUFFICES ASSUME NEW g \in created
                   PROVE  handleToStep[g] \in Step /\ handleToStep[g] # steps + 1
        OBVIOUS
      <4>1. handleToStep[g] \in Step /\ history[handleToStep[g]] = "relation"
        BY <2>1 DEF HandlesGrounded, TypeOK
      <4>2. handleToStep[g] <= steps
        BY <2>1, <4>1 DEF HistoryIsLegal
      <4> QED BY <2>1, <4>1, <4>2
    <3>3. /\ handleToStep \in [Handle -> {0} \cup Step] /\ created \subseteq Handle
          /\ steps + 1 # 0
          /\ resident.tables \in [Handle -> {0} \cup Step]
      BY <2>1 DEF TypeOK, ResidentType
    <3>4. history'[steps + 1] = "relation"
      BY <2>1, <2>5 DEF Succeed, this, TypeOK
    <3>5. resident'.tables = [resident.tables EXCEPT ![n] = steps + 1]
      BY <2>1, <2>5 DEF Derived, TypeOK, ResidentType
    <3> HIDE DEF n
    <3>6. /\ handleToStep' = [handleToStep EXCEPT ![n] = steps + 1]
          /\ created' = created \cup {n} /\ n \in harness'.rowCounts
      BY <2>5 DEF n
    <3>7. /\ \A h \in created : handleToStep'[h] = handleToStep[h]
          /\ handleToStep'[n] = steps + 1
      BY <3>1, <3>3, <3>6
    <3>8. created' = { h \in Handle : handleToStep'[h] # 0 }
      BY <2>1, <3>1, <3>3, <3>6 DEF HandlesGrounded
    <3>9. resident'.tables = handleToStep' /\ created' \subseteq harness'.rowCounts
      BY <2>1, <2>2, <3>5, <3>6 DEF HandlesGrounded
    <3>10. \A h \in created' : history'[handleToStep'[h]] = "relation"
      BY <2>1, <2>3, <3>4, <3>6, <3>7 DEF HandlesGrounded
    <3>11. \A g, h \in created' : handleToStep'[g] = handleToStep'[h] => g = h
      BY <2>1, <3>2, <3>6, <3>7 DEF HandlesGrounded
    <3> QED BY <3>8, <3>9, <3>10, <3>11 DEF HandlesGrounded
  <2>6. resident \in ResidentType(Step, Handle)
    BY <2>1 DEF TypeOK
  <2>7. /\ \A plan : [resident EXCEPT !.plan = plan].tables = resident.tables
        /\ \A fact, s : Observed(resident, fact, s).tables = resident.tables
    BY <2>6 DEF ResidentType, Observed
  <2>8. CASE handleToStep' = handleToStep /\ created' = created /\ resident' = resident
    BY <2>4, <2>8
  <2>9. CASE /\ handleToStep' = handleToStep /\ created' = created
             /\ \E plan \in Plan : resident' = [resident EXCEPT !.plan = plan]
    BY <2>4, <2>7, <2>9
  <2>10. CASE /\ handleToStep' = handleToStep /\ created' = created
              /\ \E fact \in Facts : resident' = Observed(resident, fact, steps + 1)
    BY <2>4, <2>7, <2>10
  <2> QED BY <1>2, <2>5, <2>8, <2>9, <2>10, ResidentCases
<1> QED BY <1>1, <1>2

\* Every way a turn can close the episode leaves the reason that explains it.
LEMMA VerdictStep ==
  ASSUME IInv, [Next]_vars
  PROVE  VerdictExplained'
<1>1. CASE UNCHANGED vars
  BY <1>1 DEF IInv, VerdictExplained, vars
<1>2. CASE Next
  <2>1. /\ TypeOK /\ VerdictExplained /\ steps + 1 \in Step /\ steps \in Nat /\ steps' = steps + 1
        /\ steps < MaxSteps /\ ~done /\ failureType = "none" /\ ~legal /\ ~correct
    BY <1>2, HarnessCases, HandleLeft DEF IInv, VerdictExplained
  <2>2. /\ MaxErrorsPerType \in Nat \ {0} /\ MaxSteps \in Nat \ {0}
        /\ \A e \in ErrorType : errorCounts[e] \in Nat /\ errorCounts[e] < MaxErrorsPerType
        /\ errorCounts["nonrecoverable_execution_error"] = 0
    BY <2>1, BudgetAssumption DEF TypeOK, VerdictExplained
  <2>3. CASE \E kind \in CallKind, handles \in SUBSET Handle : Succeed(kind, handles)
    <3>1. /\ done' = (steps + 1 >= MaxSteps)
          /\ failureType' = IF steps + 1 >= MaxSteps THEN "max_steps" ELSE failureType
          /\ errorCounts' = errorCounts /\ correct' = correct /\ legal' = legal
      BY <2>3 DEF Succeed, BudgetSpent, this
    <3>2. ~legal' /\ ~correct'
      BY <2>1, <3>1, Zenon
    <3>3. CASE ~(steps + 1 >= MaxSteps)
      <4>1. ~done' /\ failureType' = "none"
        BY <2>1, <3>1, <3>3, Zenon
      <4> QED BY <2>1, <2>2, <3>1, <3>2, <3>3, <4>1 DEF VerdictExplained
    <3>4. CASE steps + 1 >= MaxSteps
      <4>1. done' /\ failureType' = "max_steps"
        BY <3>1, <3>4, Zenon
      <4>2. steps' = MaxSteps
        BY <2>1, <2>2, <3>4
      <4> QED BY <3>2, <4>1, <4>2 DEF VerdictExplained
    <3> QED BY <3>3, <3>4
  <2>4. CASE \E raised \in Raised : Fail(raised)
    <3>1. PICK type \in ErrorType :
            LET count == errorCounts[type] + 1
                fatal == type = "nonrecoverable_execution_error" \/ count >= MaxErrorsPerType
            IN /\ errorCounts' = [errorCounts EXCEPT ![type] = count]
               /\ done' = (fatal \/ steps + 1 >= MaxSteps)
               /\ failureType' = IF fatal THEN type
                                 ELSE IF steps + 1 >= MaxSteps THEN "max_steps" ELSE failureType
               /\ correct' = correct /\ legal' = legal
      BY <2>4 DEF Fail, ErrorTypeOf, Fatal, LimitReached, BudgetSpent, Raised, ErrorType, this
    <3>2. errorCounts \in [ErrorType -> 0 .. steps]
      BY <2>1 DEF TypeOK
    <3>3. ErrorType = { "protocol_error", "argument_validation_error", "execution_error",
                        "timeout_error", "nonrecoverable_execution_error" }
      BY DEF ErrorType
    <3>4. /\ errorCounts'[type] = errorCounts[type] + 1
          /\ \A e \in ErrorType : e # type => errorCounts'[e] = errorCounts[e]
      BY <3>1, <3>2
    <3>5. CASE type = "nonrecoverable_execution_error"
      BY <2>1, <2>2, <3>1, <3>4, <3>5 DEF VerdictExplained
    <3>6. CASE type # "nonrecoverable_execution_error" /\ errorCounts[type] + 1 >= MaxErrorsPerType
      BY <2>1, <2>2, <3>1, <3>4, <3>6 DEF VerdictExplained
    <3>7. CASE type # "nonrecoverable_execution_error" /\ errorCounts[type] + 1 < MaxErrorsPerType
      <4>1. \A e \in ErrorType : errorCounts'[e] < MaxErrorsPerType
        BY <2>2, <3>4, <3>7
      <4>2. errorCounts'["nonrecoverable_execution_error"] = 0
        BY <2>2, <3>3, <3>4, <3>7
      <4>3. /\ done' = (steps + 1 >= MaxSteps)
            /\ failureType' = IF steps + 1 >= MaxSteps THEN "max_steps" ELSE failureType
            /\ correct' = correct /\ legal' = legal
        BY <2>2, <3>1, <3>7
      <4>4. ~legal' /\ ~correct'
        BY <2>1, <4>3, Zenon
      <4>5. CASE ~(steps + 1 >= MaxSteps)
        <5>1. ~done' /\ failureType' = "none"
          BY <2>1, <4>3, <4>5, Zenon
        <5> QED BY <2>1, <2>2, <4>1, <4>2, <4>4, <4>5, <5>1 DEF VerdictExplained
      <4>6. CASE steps + 1 >= MaxSteps
        <5>1. done' /\ failureType' = "max_steps"
          BY <4>3, <4>6, Zenon
        <5>2. steps' = MaxSteps
          BY <2>1, <2>2, <4>6
        <5> QED BY <4>4, <5>1, <5>2 DEF VerdictExplained
      <4> QED BY <4>5, <4>6
    <3> QED BY <2>2, <3>5, <3>6, <3>7
  <2>5. CASE \E ref \in Ref, read, verdict \in BOOLEAN : AnswerCall(ref, read, verdict)
    BY <2>1, <2>5 DEF AnswerCall, VerdictExplained
  <2> QED BY <1>2, <2>3, <2>4, <2>5, TurnCases
<1> QED BY <1>1, <1>2
-----------------------------------------------------------------------------
(***************************************************************************)
(* The theorems.                                                           *)
(***************************************************************************)

\* reset() leaves a state that satisfies the invariant.
LEMMA InitIInv == Init => IInv
<1> SUFFICES ASSUME Init PROVE IInv
  OBVIOUS
<1> USE DEF Init
<1>1. /\ MaxSteps \in Nat \ {0} /\ MaxErrorsPerType \in Nat \ {0} /\ MaxHandles = MaxSteps
      /\ \A s \in Step : ~(s <= 0)
  BY BudgetAssumption DEF Step
<1>2. harness \in HarnessType
  BY <1>1 DEF EmptyHarness, HarnessType
<1>3. resident \in ResidentType(Step, Handle)
  BY DEF EmptyResident, ResidentType, Plan
<1>4. TypeOK
  <2>1. /\ history \in [Step -> CallKind \cup {"none"}]
        /\ handleToStep \in [Handle -> {0} \cup Step]
        /\ turns \in [Step -> TurnKind \cup {"none"}]
    OBVIOUS
  <2>2. errorCounts \in [ErrorType -> 0 .. steps]
    OBVIOUS
  <2>3. done \in BOOLEAN /\ correct \in BOOLEAN /\ legal \in BOOLEAN
    OBVIOUS
  <2> QED BY <1>2, <1>3, <2>1, <2>2, <2>3 DEF TypeOK
<1>5. HarnessCoherent
  BY <1>1 DEF HarnessCoherent, Coherent, EmptyHarness
<1>6. HandlesGrounded
  BY DEF HandlesGrounded, EmptyHarness, EmptyResident
<1>7. HistoryIsLegal
  BY <1>1 DEF HistoryIsLegal, CallKind
<1>8. VerdictExplained
  BY <1>1 DEF VerdictExplained, ErrorType
<1> QED BY <1>4, <1>5, <1>6, <1>7, <1>8 DEF IInv

\* Every turn preserves the invariant.
LEMMA NextIInv == IInv /\ [Next]_vars => IInv'
BY TypeStep, HarnessStep, GroundedStep, HistoryStep, VerdictStep DEF IInv

\* The inductive invariant holds throughout every episode.
THEOREM EpisodeInvariant == Spec => []IInv
BY InitIInv, NextIInv, PTL DEF Spec

\* Every variable of the environment keeps its type, for every budget.
THEOREM EpisodeTyped == Spec => []TypeOK
BY EpisodeInvariant, PTL DEF IInv

\* The Harness is coherent after every turn, whatever failed or was interrupted.
THEOREM HarnessStaysCoherent == Spec => []HarnessCoherent
BY EpisodeInvariant, PTL DEF IInv

\* Handles, producing steps, resident tables and views agree after every turn.
THEOREM HandlesStayGrounded == Spec => []HandlesGrounded
BY EpisodeInvariant, PTL DEF IInv

\* ctx["history"] and the legal history hold exactly the successful turns.
THEOREM HistoryStaysLegal == Spec => []HistoryIsLegal
BY EpisodeInvariant, PTL DEF IInv

\* An episode ends only for the reason its record names.
THEOREM VerdictStaysExplained == Spec => []VerdictExplained
BY EpisodeInvariant, PTL DEF IInv

\* A rejected turn that leaves the episode open changes nothing the model is
\* shown: only the plan can have changed, and then Fail closes the episode.
THEOREM RejectionIsInvisible == Spec => RejectionChangesNothingVisible
<1>1. ASSUME IInv, [Next]_vars
      PROVE  [ FailedTurn /\ ~done' =>
                 /\ Snapshot(resident') = Snapshot(resident)
                 /\ UNCHANGED <<history, handleToStep, created, legalHistory>> ]_vars
  <2> SUFFICES ASSUME Next, FailedTurn, ~done'
               PROVE  /\ Snapshot(resident') = Snapshot(resident)
                      /\ UNCHANGED <<history, handleToStep, created, legalHistory>>
    BY <1>1
  <2>1. /\ steps' = steps + 1 /\ steps + 1 \in Step /\ turns \in [Step -> TurnKind \cup {"none"}]
    BY <1>1, HarnessCases, HandleLeft DEF IInv, TypeOK
  <2>2. turns'[steps'] \in ErrorType
    BY DEF FailedTurn
  <2>3. ErrorType \cap (CallKind \cup {"answer"}) = {}
    BY DEF ErrorType, CallKind
  <2>4. \A kind : BeginTurn(kind) => turns'[steps'] = kind
    BY <2>1 DEF BeginTurn, this
  <2>5. PICK raised \in Raised : Fail(raised)
    BY <1>1, <2>2, <2>3, <2>4, TurnCases DEF Succeed, AnswerCall
  <2>6. UNCHANGED <<history, handleToStep, created, legalHistory>>
    BY <2>5 DEF Fail
  <2>7. raised = "execution_error" => Snapshot(resident') = Snapshot(resident)
    <3>1. done' = (Fatal(ErrorTypeOf(raised)) \/ BudgetSpent)
      BY <2>5 DEF Fail
    <3>2. ErrorTypeOf(raised) # "nonrecoverable_execution_error"
      BY <3>1, Zenon DEF Fatal
    <3> QED BY <3>2 DEF ErrorTypeOf
  <2>8. raised # "execution_error" => resident' = resident
    <3> SUFFICES ASSUME raised # "execution_error"
                 PROVE  resident' = resident
      OBVIOUS
    <3>1. turns'[steps'] # "execution_error" /\ turns'[steps'] # "nonrecoverable_execution_error"
      BY <2>4, <2>5 DEF Fail, ErrorTypeOf, Raised
    <3>2. CASE RejectTurn \/ BrokenTurn
      BY <3>2 DEF RejectTurn, BrokenTurn, RelationFails, TimeoutTurn
    <3>3. CASE PlanTurn
      <4>1. PICK outcome : PlanCall(outcome) \/ PlanFails(outcome)
        BY <3>3 DEF PlanTurn
      <4>2. turns'[steps'] \in {"plan", "execution_error", "nonrecoverable_execution_error"}
        BY <2>4, <4>1 DEF ErrorTypeOf, PlanCall, PlanFails, Succeed, Fail
      <4> QED BY <2>2, <2>3, <3>1, <4>2 DEF CallKind
    <3>4. CASE PerceptionCall \/ RelationTurn \/ AnswerTurn
      <4>1. turns'[steps'] \in CallKind \cup {"answer"}
        BY <2>4, <3>4 DEF PerceptionCall, RelationTurn, RelationCall, Succeed, AnswerTurn,
                          AnswerCall, CallKind
      <4> QED BY <2>2, <2>3, <4>1
    <3> QED BY <3>2, <3>3, <3>4 DEF Next
  <2> QED BY <2>6, <2>7, <2>8
<1>2. IInv /\ [Next]_vars =>
        [ FailedTurn /\ ~done' =>
            /\ Snapshot(resident') = Snapshot(resident)
            /\ UNCHANGED <<history, handleToStep, created, legalHistory>> ]_vars
  BY <1>1
<1> QED BY <1>2, EpisodeInvariant, PTL DEF Spec, RejectionChangesNothingVisible

\* An interrupted call leaves Harness and context exactly as it found them.
THEOREM TimeoutIsUndone == Spec => TimeoutPreservesState
<1>1. ASSUME IInv, [Next]_vars
      PROVE  [ turns' # turns /\ turns'[steps'] = "timeout_error" =>
                 UNCHANGED <<harness, context>> ]_vars
  <2> SUFFICES ASSUME Next, turns'[steps'] = "timeout_error"
               PROVE  UNCHANGED <<harness, context>>
    BY <1>1
  <2>1. /\ ~done /\ steps' = steps + 1 /\ steps + 1 \in Step
        /\ turns \in [Step -> TurnKind \cup {"none"}]
        /\ harness \in HarnessType /\ harness.seq < MaxHandles
    BY <1>1, HarnessCases, HandleLeft DEF IInv, TypeOK
  <2>2. \A kind : BeginTurn(kind) => turns'[steps'] = kind
    BY <2>1 DEF BeginTurn, this
  <2>3. \A raised : Fail(raised) =>
          /\ raised = "timeout_error"
          /\ UNCHANGED <<history, handleToStep>>
    BY <2>2 DEF Fail, ErrorTypeOf
  <2>4. \A kind, handles : Succeed(kind, handles) => kind = "timeout_error"
    BY <2>2 DEF Succeed
  <2>5. CASE BrokenTurn
    <3>1. PICK T \in Inputs, stage \in Stage, isSmall \in BOOLEAN : \E M \in CachedAt(T, stage) :
            RelationFails(T, M, stage, isSmall) \/ TimeoutTurn(T, M, stage, isSmall)
      BY <2>5 DEF BrokenTurn
    <3>2. PICK M \in CachedAt(T, stage) :
            RelationFails(T, M, stage, isSmall) \/ TimeoutTurn(T, M, stage, isSmall)
      BY <3>1
    <3>3. M \in SUBSET Handle
      BY <1>1, CallInputs DEF IInv
    <3>4. TimeoutTurn(T, M, stage, isSmall)
      BY <2>3, <3>2 DEF RelationFails
    <3>5. harness' = harness
      <4>1. harness' = RestoreInterrupted(harness, PartialCall(harness, T, M, stage, isSmall))
        BY <3>4 DEF TimeoutTurn
      <4> QED BY <2>1, <3>3, <4>1, RestoreUndoes
    <3> QED BY <2>3, <3>4, <3>5 DEF TimeoutTurn, context
  <2>6. CASE RejectTurn
    BY <2>3, <2>6 DEF RejectTurn, context
  <2>7. CASE PlanTurn
    BY <2>3, <2>4, <2>7 DEF PlanTurn, PlanCall, PlanFails
  <2>8. CASE PerceptionCall \/ RelationTurn
    BY <2>4, <2>8 DEF PerceptionCall, RelationTurn, RelationCall
  <2>9. CASE AnswerTurn
    BY <2>2, <2>9 DEF AnswerTurn, AnswerCall
  <2> QED BY <2>5, <2>6, <2>7, <2>8, <2>9 DEF Next
<1>2. IInv /\ [Next]_vars =>
        [ turns' # turns /\ turns'[steps'] = "timeout_error" => UNCHANGED <<harness, context>> ]_vars
  BY <1>1
<1> QED BY <1>2, EpisodeInvariant, PTL DEF Spec, TimeoutPreservesState

\* A reported handle keeps its step and its view to the end of the episode.
THEOREM HandlesStay == Spec => HandlesAreForever
<1>1. ASSUME IInv, IInv', [Next]_vars
      PROVE  [ \A h \in created :
                 /\ h \in created' /\ h \in harness'.views
                 /\ handleToStep'[h] = handleToStep[h] ]_vars
  <2> SUFFICES ASSUME Next, NEW h \in created
               PROVE  h \in created' /\ h \in harness'.views /\ handleToStep'[h] = handleToStep[h]
    BY <1>1
  <2>1. /\ h \in Handle /\ h # harness.seq + 1 /\ handleToStep \in [Handle -> {0} \cup Step]
    BY <1>1 DEF IInv, TypeOK, HandlesGrounded, HarnessCoherent, Coherent, HarnessType
  <2>2. h \in created' /\ handleToStep'[h] = handleToStep[h]
    BY <1>1, <2>1, ResidentCases
  <2>3. created' \subseteq harness'.views
    BY <1>1 DEF IInv, HandlesGrounded, HarnessCoherent, Coherent
  <2> QED BY <2>2, <2>3
<1>2. IInv /\ IInv' /\ [Next]_vars =>
        [ \A h \in created :
            /\ h \in created' /\ h \in harness'.views
            /\ handleToStep'[h] = handleToStep[h] ]_vars
  BY <1>1
<1> QED BY <1>2, EpisodeInvariant, PTL DEF Spec, HandlesAreForever

\* The environment implements the safety part of the abstract episode: one unit
\* of budget a turn, one verdict, nothing after it.
THEOREM EpisodeRefined == Spec => Promise!EpisodeSafety
<1>1. Init => Promise!EpisodeInit
  BY DEF Init, Promise!EpisodeInit, Verdict
<1>2. ASSUME IInv, IInv', [Next]_vars
      PROVE  [Promise!EpisodeNext]_<<steps, Verdict>>
  <2>1. CASE UNCHANGED vars
    BY <2>1 DEF vars, Verdict
  <2>2. CASE Next
    <3>1. ~done /\ steps' = steps + 1 /\ steps < MaxSteps
      BY <1>2, <2>2, HarnessCases, HandleLeft DEF IInv
    <3>2. Verdict = "open"
      BY <3>1 DEF Verdict
    <3>3. CASE done'
      <4>1. Verdict' \in {"correct", "wrong", "aborted"}
        BY <3>3 DEF Verdict
      <4> QED BY <3>1, <3>2, <4>1
              DEF Promise!EpisodeNext, Promise!Close, Promise!Spend, Promise!Verdict
    <3>4. CASE ~done'
      <4>1. Verdict' = "open"
        BY <3>4 DEF Verdict
      <4>2. steps' < MaxSteps
        BY <1>2, <3>4 DEF IInv, VerdictExplained
      <4> QED BY <3>1, <3>2, <4>1, <4>2
              DEF Promise!EpisodeNext, Promise!Continue, Promise!Spend
    <3> QED BY <3>3, <3>4
  <2> QED BY <1>2, <2>1, <2>2
<1>3. IInv /\ IInv' /\ [Next]_vars => [Promise!EpisodeNext]_<<steps, Verdict>>
  BY <1>2
<1> QED BY <1>1, <1>3, EpisodeInvariant, PTL DEF Spec, Promise!EpisodeSafety
===============================================================================
