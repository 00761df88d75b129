-------------------------- MODULE MCGitOpsConsole ---------------------------
(* GitOpsConsole on small instances: the panels share nothing but the canary's
   reading, so each part of a behaviour works on one group of them. *)
EXTENDS GitOpsConsole
VARIABLE part
MCInit == GitOpsInit /\ part \in {"infrastructure", "delivery", "scaling", "rollout", "watching"}
MCNext ==
    /\ GitOpsNext /\ part' = part
    /\ part # "infrastructure" => UNCHANGED iac
    /\ part # "delivery" => UNCHANGED <<gha, argo, syncs>>
    /\ part # "scaling" => UNCHANGED <<hpa, scalings>>
    /\ part # "rollout" => UNCHANGED <<rolling, canary, rollbacks, blueGreen>>
    /\ part # "watching" => UNCHANGED <<alerts, scan>>
MCSpec == MCInit /\ [][MCNext]_<<gitopsVars, part>>
=============================================================================
