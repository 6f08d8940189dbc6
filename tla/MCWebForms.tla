----------------------------- MODULE MCWebForms ------------------------------
(* What the pages and dialogs of both applications have in common, and the    *)
(* account's pages, side by side.  They share no state: one behaviour         *)
(* exercises one of them, and of the second factor its pages, or the sign-in  *)
(* with one page that changes the factor meanwhile.                           *)
EXTENDS FormDialogs, ResourceViews, SettingsForms, SecondFactor

VARIABLE part
allVars == <<dialogVars, viewVars, settingVars, factorVars, part>>

WebFormsInit ==
  /\ part \in {"dialogs", "views", "settings", "factor", "sign-in"}
  /\ DialogsInit /\ ViewsInit /\ SettingsInit /\ FactorInit
  \* Of the components at rest one initial state is enough.
  /\ part # "dialogs" => dialog = SetupForm
  /\ part # "views" => view = StorageView
  /\ part # "settings" => setting = "runtime"
  /\ part # "factor" => secret # 0

WebFormsNext ==
  /\ UNCHANGED part
  /\ \/ part = "dialogs" /\ DialogsNext /\ UNCHANGED <<viewVars, settingVars, factorVars>>
     \/ part = "views" /\ ViewsNext /\ UNCHANGED <<dialogVars, settingVars, factorVars>>
     \/ part = "settings" /\ SettingsNext /\ UNCHANGED <<dialogVars, viewVars, factorVars>>
     \/ /\ part = "factor"
        /\ EnrollmentExpires \/ \E a \in Pages : PageNext(a)
        /\ UNCHANGED <<dialogVars, viewVars, settingVars>>
     \/ /\ part = "sign-in"
        /\ SignInNext \/ \E a \in Pages \ Desktops : PageNext(a)
        /\ UNCHANGED <<dialogVars, viewVars, settingVars>>

WebFormsSpec == WebFormsInit /\ [][WebFormsNext]_allVars
=============================================================================
