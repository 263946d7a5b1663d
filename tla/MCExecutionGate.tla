--------------------------- MODULE MCExecutionGate ----------------------------
(* Registries with an agent per role: any of them offline, the core able to deploy or not, *)
(* the others able to.                                                                     *)
EXTENDS ExecutionGate

MCAgents(role, capabilities) ==
    [role : {role}, status : {"online", "offline"}, capabilities : capabilities]

MCRegistries ==
    {<<a, b, c>> : a \in MCAgents("core", {{}, {"deploy"}}), b \in MCAgents("edge", {{"deploy"}}),
                   c \in MCAgents("observer", {{"deploy"}})}
=============================================================================
