------------------------------- MODULE Agent --------------------------------
(***************************************************************************)
(* A client from its parameters to its conversation: it edits parameter    *)
(* groups and control documents (Parameters), turns them into generation   *)
(* options with generationOptionsFromParameters(), and converses with them *)
(* (Conversation).                                                         *)
(***************************************************************************)
EXTENDS Parameters, Conversation

AgentInit == ParametersInit /\ Init

\* The client is still at its parameters.
Prepare ==
    /\ options = {}
    /\ ParametersNext
    /\ UNCHANGED vars

\* It takes its options from them, puts them away, and begins.
Start(tools, choice, parallel, system) ==
    /\ options' = GenerationOptionsFrom(object.group, object.values)
    /\ Begin(tools, choice, parallel, system)
    /\ object' = [group |-> GenerationOptions, values |-> NoFields] /\ control' = NoFields

AgentNext ==
    \/ Prepare
    \/ \E tools \in SUBSET Tools, choice \in ToolChoices, parallel, system \in BOOLEAN :
          Start(tools, choice, parallel, system)
    \/ Continue /\ UNCHANGED parameterVars

AgentSpec == AgentInit /\ [][AgentNext]_<<parameterVars, vars>>
=============================================================================
