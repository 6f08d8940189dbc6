------------------------------ MODULE MCDesktop ------------------------------
(* The stateful parts of the desktop's interface side by side.  They share no *)
(* state: one behaviour exercises one of them.                                *)
EXTENDS TransferProjection, DesktopSync, DesktopSession, DesktopUpdater, LocalProvisioning, LocalServerPage

VARIABLE part
allVars == <<projectionVars, syncVars, sessionVars, updaterVars, provisioningVars, pageVars, part>>
localVars == <<provisioningVars, pageVars>>

DesktopInit ==
  /\ part \in {"transfers", "sync", "session", "updater", "setup", "server"}
  /\ ProjectionInit /\ SyncInit /\ SessionInit /\ UpdaterInit /\ ProvisioningInit /\ PageInit
  \* Of the components at rest one initial state is enough.
  /\ part # "transfers" => kind = "uploads"
  /\ part # "sync" => stored = [p \in Pairs |-> 0]
  /\ part # "session" => saved = Nowhere /\ signedIn = {}
  \* Two pasts of the runtime: never started, and stopped by a failure.
  /\ localRuntime.status = "disabled" \/ (part = "setup" /\ localRuntime.status = "failed" /\ localRuntime.backend = "installed")

DesktopNext ==
  /\ UNCHANGED part
  /\ \/ part = "transfers" /\ ProjectionNext /\ UNCHANGED <<syncVars, sessionVars, updaterVars, localVars>>
     \/ part = "sync" /\ SyncNext /\ UNCHANGED <<projectionVars, sessionVars, updaterVars, localVars>>
     \/ part = "session" /\ SessionNext /\ UNCHANGED <<projectionVars, syncVars, updaterVars, localVars>>
     \/ part = "updater" /\ UpdaterNext /\ UNCHANGED <<projectionVars, syncVars, sessionVars, localVars>>
     \/ part = "setup" /\ ProvisioningNext
        /\ UNCHANGED <<projectionVars, syncVars, sessionVars, updaterVars, pageVars>>
     \/ part = "server" /\ PageNext
        /\ UNCHANGED <<projectionVars, syncVars, sessionVars, updaterVars, provisioningVars>>

DesktopSpec == DesktopInit /\ [][DesktopNext]_allVars
=============================================================================
