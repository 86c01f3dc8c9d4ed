------------------------------ MODULE Oracles -------------------------------
(***************************************************************************)
(* The oracles that judge a finished run (crates/stratamoto/src/oracle.rs) *)
(* and the order a scenario runs them in (evaluate, in                     *)
(* crates/stratamoto-scenarios/src/setup_connection.rs).                   *)
(*                                                                         *)
(* A setup is the record the compiler keeps of it, a role's configuration  *)
(* is [protocol, min_version, max_version], an outcome is one the runner   *)
(* records.  The flag REQUIRES_VERSION_ROLLING is "rolling"; a Success's   *)
(* fixed says whether REQUIRES_FIXED_VERSION is set in it.                 *)
(***************************************************************************)
EXTENDS Naturals, Sequences

\* Mutant: every setup is owed an answer.
OwedAlways(await, id, violations) == TRUE

\* An answer is owed to the first message on a connection, when the compiler noted nothing
\* against the client.
Owed(await, id, violations) == await.first_on_connection /\ id \notin DOMAIN violations

\* Whether a SetupConnection.Success is one the client can live with and the role can keep.
AcceptableSuccess(config, spec, success) ==
  /\ success.version \in spec.min_version..spec.max_version
  /\ ~(spec.protocol = "Mining" /\ success.fixed /\ "rolling" \in spec.flags)
  /\ spec.protocol = config.protocol
  /\ success.version \in config.min_version..config.max_version

\* Mutant: a timeout is taken for an answer that was not owed.
CheckLenient(config, spec, owed, outcome) ==
  owed => \/ outcome.tag \in {"Skipped", "TimedOut"}
          \/ outcome.tag = "Completed" /\ outcome.frame.type = "Error"
          \/ /\ outcome.tag = "Completed" /\ outcome.frame.type = "Success"
             /\ AcceptableSuccess(config, spec, outcome.frame)

\* check: whether the outcome of an await is one a conforming role may cause.
Check(config, spec, owed, outcome) ==
  owed => \/ outcome.tag = "Skipped"
          \/ outcome.tag = "Completed" /\ outcome.frame.type = "Error"
          \/ /\ outcome.tag = "Completed" /\ outcome.frame.type = "Success"
             /\ AcceptableSuccess(config, spec, outcome.frame)

\* HarnessIntegrityOracle.  No action's outcome is ever HarnessError.
HarnessIntegrity(actions, outcomes) == Len(outcomes) = Len(actions)

\* SetupConnectionOracle: awaits on connections that never opened are passed over.
SetupConnectionConforms(actions, metadata, roles, outcomes, connection_roles) ==
  \A id \in DOMAIN actions :
    LET await == actions[id]
    IN await.name = "AwaitSetupResponse" /\ await.connection \in DOMAIN connection_roles =>
         /\ await.session \in DOMAIN metadata.session_setups
         /\ connection_roles[await.connection] < Len(roles)
         /\ Check(roles[connection_roles[await.connection] + 1],
                  metadata.session_setups[await.session],
                  Owed(await, id, metadata.violations),
                  outcomes[id])

\* evaluate: integrity, then conformance, then whether the deployment is still serving.
Evaluate(actions, metadata, roles, outcomes, connection_roles, alive) ==
  IF ~HarnessIntegrity(actions, outcomes) THEN "Infrastructure"
  ELSE IF ~SetupConnectionConforms(actions, metadata, roles, outcomes, connection_roles)
    THEN "Fail"
  ELSE IF ~alive THEN "Fail" ELSE "Ok"
=============================================================================
