----------------------------- MODULE ToolEpisode -----------------------------
(***************************************************************************)
(* One episode of the RL environment, ToolUseEnv of                        *)
(* src/rl/runtime/tool_environment_v26.py: the policy writes a turn, the   *)
(* environment parses it, runs the tool on the Harness under a deadline,   *)
(* threads the causal context, and either answers with an observation or   *)
(* an error, or ends the episode.  One action per way apply_model_output   *)
(* can return; Init is the state reset() leaves behind.                    *)
(***************************************************************************)
EXTENDS Harness, EnvironmentState, Sequences, FiniteSets

CONSTANTS
  MaxSteps,          \* the shared action budget, max_steps
  MaxErrorsPerType   \* max_errors_per_type

ASSUME BudgetAssumption ==
  /\ MaxSteps \in Nat \ {0}
  /\ MaxErrorsPerType \in Nat \ {0}
  /\ MaxHandles = MaxSteps

Step == 1 .. MaxSteps

ErrorType ==
  { "protocol_error", "argument_validation_error", "execution_error",
    "timeout_error", "nonrecoverable_execution_error" }
CallKind  == {"plan", "perception", "relation"}
TurnKind  == CallKind \cup ErrorType \cup {"answer"}

VARIABLES
  harness,       \* the Harness record
  history,       \* ctx["history"]: the tool recorded at a step
  handleToStep,  \* ctx["handle_to_step"], 0 where the handle is unknown
  resident,      \* ctx["environment"]
  created,       \* self.created
  steps,         \* self.steps
  turns,         \* how each turn ended, in order
  errorCounts,   \* self.error_counts
  lastError,     \* the type in self.last_error
  legalHistory,  \* the steps in self.legal_history
  done,          \* self.done
  correct,       \* self.correct
  legal,         \* self.legal
  failureType,   \* self.failure_type
  cited          \* the relation whose rows score read, if it read any

context == <<history, handleToStep, resident>>
vars == << harness, context, created, steps, turns, errorCounts, lastError,
           legalHistory, done, correct, legal, failureType, cited >>

TypeOK ==
  /\ harness \in HarnessType
  /\ history \in [Step -> CallKind \cup {"none"}]
  /\ handleToStep \in [Handle -> {0} \cup Step]
  /\ resident \in ResidentType(Step, Handle)
  /\ created \subseteq Handle
  /\ steps \in {0} \cup Step
  /\ turns \in [Step -> TurnKind \cup {"none"}]
  /\ errorCounts \in [ErrorType -> 0 .. steps]
  /\ lastError \in ErrorType \cup {"none"}
  /\ legalHistory \subseteq Step
  /\ done \in BOOLEAN /\ correct \in BOOLEAN /\ legal \in BOOLEAN
  /\ failureType \in ErrorType \cup {"none", "wrong_answer", "max_steps"}
  /\ cited \subseteq Ref

Init ==
  /\ harness = EmptyHarness
  /\ history = [s \in Step |-> "none"]
  /\ handleToStep = [h \in Handle |-> 0]
  /\ resident = EmptyResident(Handle)
  /\ created = {}
  /\ steps = 0
  /\ turns = [s \in Step |-> "none"]
  /\ errorCounts = [e \in ErrorType |-> 0]
  /\ lastError = "none"
  /\ legalHistory = {}
  /\ done = FALSE /\ correct = FALSE /\ legal = FALSE
  /\ failureType = "none"
  /\ cited = {}

(***************************************************************************)
(* The part every turn shares: a finished episode refuses the call, the    *)
(* step is spent whatever happens, and the turn is recorded.               *)
(***************************************************************************)
this == steps + 1

RejectedTurnIsFree(kind) ==
  /\ ~done
  /\ steps' = IF kind \in ErrorType THEN steps ELSE this
  /\ turns' = [turns EXCEPT ![this] = kind]

BeginTurn(kind) ==
  /\ ~done
  /\ steps' = this
  /\ turns' = [turns EXCEPT ![this] = kind]

BudgetOffByOne == this > MaxSteps
BudgetSpent    == this >= MaxSteps

\* The success branch after the tool returned: the handle (if any) becomes
\* citable, the pair enters the legal history and the budget is checked.
Succeed(kind, handles) ==
  /\ BeginTurn(kind)
  /\ history' = [history EXCEPT ![this] = kind]
  /\ created' = created \cup handles
  /\ lastError' = "none"
  /\ legalHistory' = legalHistory \cup {this}
  /\ done' = BudgetSpent
  /\ failureType' = IF BudgetSpent THEN "max_steps" ELSE failureType
  /\ UNCHANGED <<errorCounts, correct, legal, cited>>

\* An execution error that changed what snapshot() shows is not recoverable.
ErrorTypeAsRaised(raised) == raised
ErrorTypeOf(raised) ==
  IF raised = "execution_error" /\ Snapshot(resident') # Snapshot(resident)
    THEN "nonrecoverable_execution_error" ELSE raised

OneErrorTooMany(type) == errorCounts[type] >= MaxErrorsPerType
LimitReached(type)    == errorCounts[type] + 1 >= MaxErrorsPerType

Fatal(type) == type = "nonrecoverable_execution_error" \/ LimitReached(type)

\* The except branch: a fatal error, or the end of the budget, ends the
\* episode; otherwise only the error is remembered.
Fail(raised) ==
  LET type == ErrorTypeOf(raised) IN
  /\ BeginTurn(type)
  /\ errorCounts' = [errorCounts EXCEPT ![type] = @ + 1]
  /\ lastError' = type
  /\ done' = (Fatal(type) \/ BudgetSpent)
  /\ failureType' = IF Fatal(type) THEN type
                    ELSE IF BudgetSpent THEN "max_steps" ELSE failureType
  /\ UNCHANGED <<history, handleToStep, created, legalHistory, correct, legal, cited>>

(***************************************************************************)
(* Turns that never reach the Harness: the carrier does not parse, the     *)
(* arguments or a table reference are refused, a value_ref cannot be       *)
(* grounded, or a perception's query raises.                               *)
(***************************************************************************)
RejectTurn ==
  /\ UNCHANGED <<harness, resident>>
  /\ \E raised \in {"protocol_error", "argument_validation_error", "execution_error"} :
       Fail(raised)

PlanCall(outcome) ==
  /\ outcome.ok
  /\ resident' = [resident EXCEPT !.plan = outcome.plan]
  /\ Succeed("plan", {})
  /\ UNCHANGED <<harness, handleToStep>>

PlanFails(outcome) ==
  /\ ~outcome.ok
  /\ resident' = [resident EXCEPT !.plan = outcome.plan]
  /\ Fail("execution_error")
  /\ UNCHANGED harness

PlanTurn ==
  \E outcome \in PlanOutcomes(resident.plan, \E s \in Step : history[s] # "none") :
    PlanCall(outcome) \/ PlanFails(outcome)

PerceptionCall ==
  /\ \E fact \in Facts : resident' = Observed(resident, fact, this)
  /\ Succeed("perception", {})
  /\ UNCHANGED <<harness, handleToStep>>

(***************************************************************************)
(* Table-producing calls.  The inputs are resolvable references; only a    *)
(* join caches small inputs first.  The context learns of the handle after *)
(* the last query of the call, and the resident state last of all.         *)
(***************************************************************************)
Inputs == { T \in SUBSET Resolvable(harness) : Cardinality(T) \in 1 .. 2 }

\* The inputs a call caches before it can get to a given stage.
CachedAt(T, stage) ==
  LET all == Materializable(harness, T) IN
  IF stage = "checked" THEN {{}}
  ELSE IF stage = "materialized" THEN SUBSET all
  ELSE {{}, all}

RelationCall(T, M, isSmall) ==
  LET after == PartialCall(harness, T, M, "counted", isSmall)
      h     == after.seq
  IN /\ ~done
     /\ harness' = after
     /\ handleToStep' = [handleToStep EXCEPT ![h] = this]
     /\ resident' = Derived(resident, h, this)
     /\ Succeed("relation", {h})

RelationTurn ==
  \E T \in Inputs, isSmall \in BOOLEAN : \E M \in CachedAt(T, "counted") :
    RelationCall(T, M, isSmall)

\* A query of the call, or the derivation built from its result, raises
\* anything but an interrupt: nothing is put back.
RelationFails(T, M, stage, isSmall) ==
  /\ ~done
  /\ harness' = PartialCall(harness, T, M, stage, isSmall)
  /\ UNCHANGED resident
  /\ Fail("execution_error")

\* The deadline passed during a query: the boundary puts the Harness back and
\* raises ToolExecutionTimeoutError.
TimeoutTurn(T, M, stage, isSmall) ==
  /\ ~done
  /\ harness' = RestoreInterrupted(harness, PartialCall(harness, T, M, stage, isSmall))
  /\ UNCHANGED resident
  /\ Fail("timeout_error")

BrokenTurn ==
  \E T \in Inputs, stage \in Stage, isSmall \in BOOLEAN : \E M \in CachedAt(T, stage) :
    RelationFails(T, M, stage, isSmall) \/ TimeoutTurn(T, M, stage, isSmall)

(***************************************************************************)
(* answer_from_context.  score reads the rows of the cited relation when   *)
(* it resolves and swallows whatever that raises; without rows the answer  *)
(* is wrong.  The answer is legal as soon as score returned.               *)
(***************************************************************************)
AnswerCall(ref, read, verdict) ==
  /\ BeginTurn("answer")
  /\ read => ref \in Readable(harness)
  /\ verdict => read
  /\ cited' = IF read THEN {ref} ELSE {}
  /\ correct' = verdict
  /\ legal' = TRUE
  /\ failureType' = IF verdict THEN "none" ELSE "wrong_answer"
  /\ done' = TRUE
  /\ UNCHANGED <<harness, context, created, errorCounts, lastError, legalHistory>>

AnswerTurn ==
  \E ref \in Ref, read, verdict \in BOOLEAN : AnswerCall(ref, read, verdict)

Next ==
  \/ RejectTurn
  \/ PlanTurn
  \/ PerceptionCall
  \/ RelationTurn
  \/ BrokenTurn
  \/ AnswerTurn

\* The collector keeps handing an active environment its next model output.
Spec == Init /\ [][Next]_vars /\ WF_vars(Next)
-----------------------------------------------------------------------------
(***************************************************************************)
(* Properties                                                              *)
(***************************************************************************)

\* However calls fail or are interrupted, the registry, the counter, the
\* cached counts and the cache tables stay coherent, so no view ever reads a
\* cache that is gone and no join meets a cache table it must create.
HarnessCoherent == Coherent(harness) /\ harness.seq <= steps

\* What the episode believes about handles agrees everywhere: the handles it
\* reported, the producing step of each, the resident table entry and the
\* registered and counted view; no two handles share a producing step.
HandlesGrounded ==
  /\ created = { h \in Handle : handleToStep[h] # 0 }
  /\ resident.tables = handleToStep
  /\ created \subseteq harness.rowCounts
  /\ \A h \in created : history[handleToStep[h]] = "relation"
  /\ \A g, h \in created : handleToStep[g] = handleToStep[h] => g = h

\* A value_ref and plan evidence resolve against ctx["history"]: it holds
\* exactly the turns that succeeded, never a rejected one, and they are the
\* pairs of the legal history.
HistoryIsLegal ==
  \A s \in Step :
    /\ (history[s] # "none") <=> (turns[s] \in CallKind)
    /\ history[s] # "none" => history[s] = turns[s]
    /\ s \in legalHistory <=> history[s] # "none"
    /\ (turns[s] # "none") <=> (s <= steps)

\* An episode is over for exactly one of the reasons the record names, and
\* an open one still has budget of every kind.
VerdictExplained ==
  /\ ~done => /\ steps < MaxSteps /\ failureType = "none" /\ ~legal /\ ~correct
              /\ \A e \in ErrorType : errorCounts[e] < MaxErrorsPerType
              /\ errorCounts["nonrecoverable_execution_error"] = 0
  /\ done /\ legal  => failureType = IF correct THEN "none" ELSE "wrong_answer"
  /\ done /\ ~legal => /\ ~correct
                       /\ \/ failureType = "max_steps" /\ steps = MaxSteps
                          \/ /\ failureType \in ErrorType
                             /\ \/ errorCounts[failureType] >= MaxErrorsPerType
                                \/ failureType = "nonrecoverable_execution_error"

\* "If an action is rejected, use only the new LAST TOOL ERROR and unchanged
\* environment state": a turn that failed and leaves the episode open has not
\* changed the context or what the model is shown of the resident state.
FailedTurn == turns' # turns /\ turns'[steps'] \in ErrorType
RejectionChangesNothingVisible ==
  [][ FailedTurn /\ ~done' =>
        /\ Snapshot(resident') = Snapshot(resident)
        /\ UNCHANGED <<history, handleToStep, created, legalHistory>> ]_vars

\* state_preserved: an interrupted call leaves the Harness and the context as
\* they were, wherever the deadline caught it.
TimeoutPreservesState ==
  [][ turns' # turns /\ turns'[steps'] = "timeout_error" =>
        UNCHANGED <<harness, context>> ]_vars

\* A handle the model was told about keeps its number, its producing step and
\* its view for the rest of the episode; a failed call never reissues it.
HandlesAreForever ==
  [][ \A h \in created :
        /\ h \in created' /\ h \in harness'.views
        /\ handleToStep'[h] = handleToStep[h] ]_vars

\* What a "legal" answer means to the execution-ladder reward: the cited
\* relation was executed.
LegalAnswerExecuted == legal => cited # {}

\* Terminal evidence is a source table or a relation of the resident state: an
\* answer is never graded correct on a relation left behind by a failed call.
CorrectAnswerIsResident == correct => cited \subseteq {SourceRef} \cup created

(***************************************************************************)
(* Refinement: the episode keeps the promise of Episode.                   *)
(***************************************************************************)
Verdict ==
  IF ~done THEN "open"
  ELSE IF ~legal THEN "aborted"
  ELSE IF correct THEN "correct" ELSE "wrong"

Promise == INSTANCE Episode WITH Budget <- MaxSteps, spent <- steps, verdict <- Verdict

\* Every turn of the environment is a turn of the abstract episode, and an
\* episode that keeps being driven closes.
KeepsEpisodePromise == Promise!EpisodeSpec
=============================================================================
