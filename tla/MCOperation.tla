----------------------------- MODULE MCOperation -----------------------------
EXTENDS Startup, TextHelpers, AdminCatalogue
operationVars == <<startVars, input, adminVars>>
OperationInit == StartInit /\ TextInit /\ AdminInit

\* A process that serves is tried under one environment: the admin API,
\* and before its first request the functions on texts and forms.
OneEnv == CHOOSE e \in Env : FromEnvOK(e)
Serves == env = OneEnv /\ stage = "serving"
OperationNext ==
    \/ StartNext /\ UNCHANGED <<input, adminVars>>
    \/ Serves /\ AdminInit /\ TextNext /\ UNCHANGED <<startVars, adminVars>>
    \/ Serves /\ input = NoInput /\ AdminNext /\ UNCHANGED <<startVars, input>>
OperationSpec == OperationInit /\ [][OperationNext]_operationVars
==============================================================================
