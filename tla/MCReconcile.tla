----------------------------- MODULE MCReconcile -----------------------------
(* Model-checking instance of Reconcile: a component under another one, a  *)
(* check with its last runtime, and the group of their relationships,      *)
(* which is marked without being sent.                                     *)
EXTENDS Reconcile

MCItems == {"service", "pod", "check", "runtime", "link"}
MCTables == {"components", "checks", "checks_unlogged", "check_component_relationships"}
MCTableOf == [service |-> "components", pod |-> "components", check |-> "checks",
              runtime |-> "checks_unlogged", link |-> "check_component_relationships"]
MCParents == [service |-> {}, pod |-> {"service"}, check |-> {}, runtime |-> {"check"},
              link |-> {"check", "service"}]
MCGroups == <<[tables |-> <<"components">>, dependsOn |-> {}],
              [tables |-> <<"checks", "checks_unlogged">>, dependsOn |-> {}],
              [tables |-> <<"check_component_relationships">>, dependsOn |-> {"checks", "components"}]>>
MCRunOnlys == {{}, {"checks", "check_component_relationships"}}
=============================================================================
