--------------------------- MODULE MCAppAndAgents ---------------------------
(***************************************************************************)
(* An instance of AppAndAgents for TLC.  The two threads of one desktop    *)
(* and a broker that registers.  One broker in the first of two folders:   *)
(* what other brokers do is among the actions of the user.  One process    *)
(* that plans and executes packs, a sound and an unsound one, with         *)
(* profiles for two versions of the tool.                                  *)
(***************************************************************************)
EXTENDS AppAndAgents, TLC

CONSTANTS main, async, broker, here, there, k1, k2, word, a, b, x, v1, v2

Homes == (main :> "desktop") @@ (async :> "desktop") @@ (broker :> "broker")
OpsOf == (main :> {"list", "select", "register", "rename_project", "rename_file", "remove",
                   "remove_channel", "grant", "start"})
      @@ (async :> {"connect", "push"})
      @@ (broker :> {"broker_register"})

AtHere == [agent \in Agent |-> here]

\* One variable in each folder; a second key is in the manifest of the first only.
OneEach == {<<here, k1>>, <<there, k1>>}
TwoHere == {<<here, k1>>, <<here, k2>>}
AllUnclassified == [k \in Key |-> "unclassified"]

Calls ==
  [tool : {"read_allowed_value"}, project : {here}, key : {k1}]
    \cup [tool : {"plan_set_allowed_value"}, project : {here}, key : {k1}, value : {word}]
    \cup [tool : {"plan_add_variable"}, project : {here}, key : {k1}]
    \cup [tool : {"plan_classification"}, project : {here}, key : {k1}, access : Access]
    \cup [tool : {"plan_copy_variable_from_project"}, project : {here}, key : {k1}, source : {there}]
    \cup [tool : {"plan_register_current_project"}, project : {here}]

Manifests ==
  { [id |-> a, kind |-> "cli", legal |-> TRUE, bindings |-> {x},
     profiles |-> <<[versions |-> {v1}, slots |-> 1], [versions |-> {v1, v2}, slots |-> n]>>] :
      n \in {1, 2} }
    \cup { [id |-> a, kind |-> "http", legal |-> TRUE, bindings |-> {x}],
           [id |-> b, kind |-> "http", legal |-> FALSE, bindings |-> {x}] }
=============================================================================
