-------------------------- MODULE MCProgramBuilder --------------------------
(***************************************************************************)
(* The program builder on every program of up to MaxInstructions           *)
(* instructions over one subprotocol and one connection that exists        *)
(* already, offered every operation that opens, closes or sends, with every*)
(* input up to MaxVariable, defined yet or not, and with one too many, by  *)
(* callers that may go on after a refusal.                                 *)
(***************************************************************************)
EXTENDS BuilderReference

CONSTANT MaxVariable   \* the largest variable index offered as an input

MCProtocols == {"Mining"}
MCVersions  == {2}
MCFlags     == {}

MCOperations ==
  {Nop(1, 0), LoadRole(NumRoles), LoadConnection(0), LoadConnection(NumConnections)}
  \cup {Plain(n) : n \in {"BeginBuildSetupConnection", "EndOnSetupSuccess"}}
  \cup {WithProtocol(n, "Mining") :
          n \in {"EndBuildSetupConnection", "SendSetupConnection", "BeginOnSetupSuccess"}}

MCInputs(op) ==
  LET n == Len(InputVariables(op))
  IN [1..n -> 1..MaxVariable] \cup {[k \in 1..(n + 1) |-> 1]}

MCInstructions ==
  UNION {{[inputs |-> in, operation |-> op] : in \in MCInputs(op)} : op \in MCOperations}
=============================================================================
