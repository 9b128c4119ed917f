------------------------------ MODULE MCStore ------------------------------
(***************************************************************************)
(* Five small models of what overlapping requests do to stored rows, side  *)
(* by side.  They share no state; focus says which one a behaviour is      *)
(* about, the others never leave their initial states, so the states are   *)
(* the sum of the five and not their product.                              *)
(***************************************************************************)
EXTENDS ActionConfirmations, ModelProfiles, ReportSpaces, PluginPackages, GatewayAccess, TLC

VARIABLE focus

StoreInit ==
    /\ focus \in {"confirmations", "profiles", "spaces", "plugins", "gateway"}
    /\ Init /\ ProfilesInit /\ SpacesInit /\ PluginsInit /\ GatewayInit

StoreNext ==
    /\ UNCHANGED focus
    /\ \/ /\ focus = "confirmations" /\ Next
          /\ UNCHANGED <<profileVars, spaceVars, pluginVars, gatewayVars>>
       \/ /\ focus = "profiles" /\ ProfilesNext
          /\ UNCHANGED <<vars, spaceVars, pluginVars, gatewayVars>>
       \/ /\ focus = "spaces" /\ SpacesNext
          /\ UNCHANGED <<vars, profileVars, pluginVars, gatewayVars>>
       \/ /\ focus = "plugins" /\ PluginsNext
          /\ UNCHANGED <<vars, profileVars, spaceVars, gatewayVars>>
       \/ /\ focus = "gateway" /\ GatewayNext
          /\ UNCHANGED <<vars, profileVars, spaceVars, pluginVars>>

StoreSpec ==
    StoreInit /\ [][StoreNext]_<<focus, vars, profileVars, spaceVars, pluginVars, gatewayVars>>

\* Only of the model that has the most states: every permutation is tried on
\* every state.
Symmetry == Permutations(Callers) \cup Permutations(Deciders)
=============================================================================
