---------------------------- MODULE MCAgentRun ------------------------------
(* Small instances of AgentRun: the shapes of spec the compilers emit and the *)
(* ones the validator lets through.                                           *)
EXTENDS AgentRun

Read == [mode |-> "read", approval |-> FALSE]
Propose == [mode |-> "propose_write", approval |-> FALSE]
GatedWrite == [mode |-> "write", approval |-> TRUE]
PlainWrite == [mode |-> "write", approval |-> FALSE]

\* Three-step specs: two writes after one proposal; a read, a proposal and an ungated write; and one
\* that proposes too late.
ThreeStepPlans ==
  {<<Propose, GatedWrite, GatedWrite>>, <<Read, Propose, PlainWrite>>, <<Read, PlainWrite, Propose>>}
=============================================================================
