-------------------------- MODULE EndpointLifecycle --------------------------
(***************************************************************************)
(* What the endpoint orchestrator promises (spec.md sections 4.2 and 6),  *)
(* with the setup steps, locks, trackers and listeners abstracted away:  *)
(* the process moves SettingUpEndpoints -> Serving -> ShuttingDown ->     *)
(* Stopped, or ends Fatal when the bootstrap fails or the first pass      *)
(* leaves no endpoint usable;                                             *)
(* each endpoint is being set up, enabled or disabled; a disabled         *)
(* endpoint is retried while the process serves; an enabled one stays     *)
(* enabled.                                                               *)
(***************************************************************************)
CONSTANTS Endpoints

VARIABLES aphase, status

avars == <<aphase, status>>

Phases == {"SettingUpEndpoints", "Serving", "ShuttingDown", "Stopped", "Fatal"}
Live   == {"SettingUpEndpoints", "Serving", "ShuttingDown"}

Init ==
    /\ aphase = "SettingUpEndpoints"
    /\ status = [e \in Endpoints |-> "settingUp"]

(* A setup attempt of one endpoint succeeds ...                          *)
EndpointUp(e) ==
    /\ aphase \in Live
    /\ status[e] = "settingUp"
    /\ status' = [status EXCEPT ![e] = "enabled"]
    /\ UNCHANGED aphase

(* ... or aborts, touching no other endpoint (isolation).                *)
EndpointDown(e) ==
    /\ aphase \in Live
    /\ status[e] = "settingUp"
    /\ status' = [status EXCEPT ![e] = "disabled"]
    /\ UNCHANGED aphase

(* The first pass has returned: fatal when every endpoint is disabled.  *)
FirstPassDone ==
    /\ aphase = "SettingUpEndpoints"
    /\ \A e \in Endpoints : status[e] # "settingUp"
    /\ aphase' = IF \A e \in Endpoints : status[e] = "disabled" THEN "Fatal" ELSE "Serving"
    /\ UNCHANGED status

(* The bootstrap before any endpoint is set up fails: the state tracker *)
(* or the node is unreachable, or the key material is missing (sections *)
(* 4.2 and 7): nothing can proceed.                                      *)
BootstrapFails ==
    /\ aphase = "SettingUpEndpoints"
    /\ \A e \in Endpoints : status[e] = "settingUp"
    /\ aphase' = "Fatal"
    /\ UNCHANGED status

(* A retry round sets some disabled endpoints up again.                  *)
Retry(S) ==
    /\ aphase \in {"Serving", "ShuttingDown"}
    /\ S # {}
    /\ \A e \in S : status[e] = "disabled"
    /\ status' = [e \in Endpoints |-> IF e \in S THEN "settingUp" ELSE status[e]]
    /\ UNCHANGED aphase

Shutdown ==
    /\ aphase = "Serving"
    /\ aphase' = "ShuttingDown"
    /\ UNCHANGED status

(* Shutdown is best-effort and always completes.                         *)
Stop ==
    /\ aphase = "ShuttingDown"
    /\ aphase' = "Stopped"
    /\ UNCHANGED status

Next ==
    \/ \E e \in Endpoints : EndpointUp(e) \/ EndpointDown(e)
    \/ FirstPassDone \/ BootstrapFails
    \/ \E S \in SUBSET Endpoints : Retry(S)
    \/ Shutdown \/ Stop

(* Every setup attempt returns while the process lives, the first pass   *)
(* is followed by serving or a fatal exit, and shutdown completes.       *)
Spec ==
    /\ Init /\ [][Next]_avars
    /\ \A e \in Endpoints : WF_avars(EndpointUp(e) \/ EndpointDown(e))
    /\ WF_avars(FirstPassDone)
    /\ WF_avars(Stop)
=============================================================================
