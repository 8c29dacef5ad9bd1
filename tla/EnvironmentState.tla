--------------------------- MODULE EnvironmentState ---------------------------
(***************************************************************************)
(* The resident task state of src/harness/environment_state.py that is     *)
(* rendered to the model beside the transient observations: the plan the   *)
(* model keeps through the plan tool, the derived tables with the step     *)
(* that created them, and the facts (schemas, column domains, reads)       *)
(* perception tools leave behind, each with the step it came from.         *)
(***************************************************************************)
EXTENDS Naturals

CONSTANTS
  Items,       \* plan item ids
  Facts        \* slots a perception result is stored under

(***************************************************************************)
(* A plan item.  Of a goal it matters only whether it changed ("a" is also *)
(* the item id an upsert without a goal falls back to), of evidence which  *)
(* way _ground_evidence resolved the cited step.                           *)
(***************************************************************************)
Goal       == {"a", "b"}
ItemStatus == {"pending", "done", "deleted"}
Evidence   == {"none", "resolved", "unresolved"}
Item       == [status : ItemStatus, goal : Goal, evidence : Evidence]
Absent     == [status |-> "absent", goal |-> "a", evidence |-> "none"]
Plan       == [Items -> Item \cup {Absent}]

(***************************************************************************)
(* An operation of plan.ops as the model authors it: the schema asks only  *)
(* for "ops", so a field may be absent, a status unknown, evidence not a   *)
(* step id.  Evidence null, and its spellings, means no evidence; a step   *)
(* outside the history is stored as unresolved.                            *)
(***************************************************************************)
Field  == {"goal", "status", "evidence"}
PlanOp ==
  [ op : {"create", "update", "delete"}, id : Items,
    goal : Goal \cup {"absent"},
    status : {"done", "deleted", "absent", "invalid"},
    evidence : Evidence \cup {"absent", "invalid"} ]

Listed(plan, i) == plan[i].status \notin {"absent", "deleted"}

Authored(op) == { k \in Field : op[k] # "absent" }
Valid(op)    == { k \in Authored(op) : op[k] # "invalid" }

\* The item written with the fields of K taken from the operation.
Written(item, op, K) ==
  [ status   |-> IF "status" \in K THEN op.status ELSE item.status,
    goal     |-> IF "goal" \in K THEN op.goal ELSE item.goal,
    evidence |-> IF "evidence" \in K THEN op.evidence ELSE item.evidence ]

Fresh == [status |-> "pending", goal |-> "a", evidence |-> "none"]

Rejected(plan) == [ok |-> FALSE, plan |-> plan]
Accepted(plan) == [ok |-> TRUE,  plan |-> plan]

\* A new item is complete before it is stored, so an invalid field of it
\* leaves the plan alone.
Store(plan, op) ==
  IF Valid(op) # Authored(op)
    THEN Rejected(plan)
    ELSE Accepted([plan EXCEPT ![op.id] = Written(Fresh, op, Authored(op))])

\* An existing item is written field by field, in the iteration order of a
\* set of strings: any of the valid fields may be stored before the invalid
\* one raises, and stays stored.
Updates(plan, op) ==
  IF Authored(op) = {} THEN {Rejected(plan)}
  ELSE IF Valid(op) = Authored(op)
    THEN { Accepted([plan EXCEPT ![op.id] = Written(@, op, Authored(op))]) }
    ELSE { Rejected([plan EXCEPT ![op.id] = Written(@, op, K)]) : K \in SUBSET Valid(op) }

OpOutcomes(plan, op) ==
  CASE op.op = "create" ->
         { IF Listed(plan, op.id) \/ op.goal = "absent" THEN Rejected(plan) ELSE Store(plan, op) }
    [] op.op = "update" ->
         IF Listed(plan, op.id) THEN Updates(plan, op) ELSE { Store(plan, op) }
    [] op.op = "delete" ->
         { IF Listed(plan, op.id) THEN Accepted([plan EXCEPT ![op.id].status = "deleted"])
                                  ELSE Rejected(plan) }

\* A call with one operation, or with two: the second runs on what the first
\* left, and nothing is undone when it raises.  Evidence is resolved only
\* when the history is not empty.
Citable(hasHistory) == { op \in PlanOp : op.evidence = "resolved" => hasHistory }

AnyOp(plan, hasHistory) == UNION { OpOutcomes(plan, op) : op \in Citable(hasHistory) }

PlanOutcomes(plan, hasHistory) ==
  LET one == AnyOp(plan, hasHistory)
  IN one \cup UNION { AnyOp(first.plan, hasHistory) : first \in { r \in one : r.ok } }

(***************************************************************************)
(* The whole resident state, and what snapshot() shows of it: deleted plan *)
(* items are left out, and state_digest compares only what is shown.       *)
(***************************************************************************)
ResidentType(Steps, Handles) ==
  [ plan : Plan, tables : [Handles -> {0} \cup Steps], facts : [Facts -> {0} \cup Steps] ]

EmptyResident(Handles) ==
  [ plan   |-> [i \in Items |-> Absent],
    tables |-> [h \in Handles |-> 0],
    facts  |-> [f \in Facts |-> 0] ]

Snapshot(rs) ==
  [rs EXCEPT !.plan = [i \in Items |-> IF Listed(rs.plan, i) THEN rs.plan[i] ELSE Absent]]

\* apply_tool_result of a perception and of a table-producing tool at a step.
Observed(rs, fact, step) == [rs EXCEPT !.facts[fact] = step]

DerivedStepBefore(rs, h, step) == [rs EXCEPT !.tables[h] = step - 1]
Derived(rs, h, step)           == [rs EXCEPT !.tables[h] = step]
=============================================================================
