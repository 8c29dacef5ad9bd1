------------------------------- MODULE OnPolicy -------------------------------
(***************************************************************************)
(* What a distributed run promises about its training data.  Several ranks *)
(* train one policy and sample it from one server.  Each rank collects one *)
(* block for each version of the policy, from a server that serves exactly *)
(* that version, and a version is left behind only when every rank has its *)
(* block of it, so the ranks never are more than one update apart.         *)
(***************************************************************************)
EXTENDS Integers

CONSTANT Member

VARIABLES
  version,     \* updates each member has applied
  collected,   \* blocks each member has collected
  served       \* the version the server samples, or Nothing

Nothing == -1

OnPolicyInit ==
  /\ version = [m \in Member |-> 0]
  /\ collected = [m \in Member |-> 0]
  /\ served = Nothing

\* The server may change only when nobody samples it.
Withdraw ==
  /\ served # Nothing
  /\ \A m \in Member : collected[m] > served
  /\ served' = Nothing
  /\ UNCHANGED <<version, collected>>

Serve(v) ==
  /\ served = Nothing
  /\ \A m \in Member : collected[m] = v
  /\ served' = v
  /\ UNCHANGED <<version, collected>>

CollectBlock(m) ==
  /\ served = version[m] /\ collected[m] = version[m]
  /\ collected' = [collected EXCEPT ![m] = @ + 1]
  /\ UNCHANGED <<version, served>>

Update(m) ==
  /\ \A n \in Member : collected[n] > version[m]
  /\ collected[m] = version[m] + 1
  /\ version' = [version EXCEPT ![m] = @ + 1]
  /\ UNCHANGED <<collected, served>>

OnPolicyNext ==
  \/ Withdraw
  \/ \E m \in Member : \/ Serve(collected[m])
                       \/ CollectBlock(m)
                       \/ Update(m)

OnPolicySpec == OnPolicyInit /\ [][OnPolicyNext]_<<version, collected, served>>
=============================================================================
