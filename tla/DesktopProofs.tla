---------------------------- MODULE DesktopProofs -----------------------------
(* The desktop application: the theorems about DesktopUpdater, DesktopSession,  *)
(* LocalServerPage, DesktopSync, LocalProvisioning and TransferProjection, for  *)
(* any channels, servers, pairs, calls, attempts and transfers.                 *)
EXTENDS DesktopSession, DesktopSync, DesktopUpdater, LocalProvisioning, LocalServerPage, TransferProjection, TLAPS, FiniteSetTheorems, FunctionTheorems, SequenceTheorems, WellFoundedInduction

-------------------------------------------------------------------------------
(* DesktopUpdater.                                                            *)

Stages == InstallStages \cup {"idle", "checking", "available", "up-to-date", "error"}
InstallKinds == {"listen", "install", "unheard"}
NoChannel == {"none", "loading"}

UpdaterTypeOK ==
  /\ stage \in Stages
  /\ update \in Channels \cup {"none"}
  /\ blocked \in BOOLEAN
  /\ channel \in Channels \cup NoChannel
  /\ busy \in BOOLEAN
  /\ task \in {NoTask} \cup [kind : InstallKinds \cup {"check"}, channel : Channels]
  /\ switch \in Channels \cup {"none"}
  /\ met \in BOOLEAN

\* The flag is the task's, and a check begins by withdrawing the offer.
FlagIsHeld ==
  /\ busy <=> task # NoTask
  /\ task.kind = "check" => update = "none"

\* As long as no change of the preferences met a task or an offer.
StagesAgree ==
  /\ switch # "none" => task = NoTask
  /\ update \in {"none", Selected}
  /\ task # NoTask => task.channel = Selected
  /\ stage = "checking" <=> task.kind = "check"
  /\ stage \in InstallStages <=> task.kind \in InstallKinds
  /\ stage \in InstallStages \cup {"available"} => update # "none"
  /\ stage \in {"idle", "up-to-date"} => update = "none"

UpdaterInv == UpdaterTypeOK /\ FlagIsHeld /\ (~met => StagesAgree)

LEMMA UpdaterInvInit == UpdaterInit => UpdaterInv
<1> SUFFICES ASSUME UpdaterInit PROVE UpdaterInv
    OBVIOUS
<1> USE DEF UpdaterInit
<1>1. UpdaterTypeOK
      BY DEF UpdaterTypeOK, Stages, NoChannel
<1>2. FlagIsHeld
      BY DEF FlagIsHeld, NoTask
<1>3. StagesAgree
      BY DEF StagesAgree, InstallStages, InstallKinds, NoTask, Selected
<1> QED BY <1>1, <1>2, <1>3 DEF UpdaterInv

LEMMA UpdaterInvStep == UpdaterInv /\ [UpdaterNext]_updaterVars => UpdaterInv'
<1> SUFFICES ASSUME UpdaterInv, [UpdaterNext]_updaterVars PROVE UpdaterInv'
    OBVIOUS
<1> USE ChannelsAssumption
    DEF UpdaterInv, UpdaterTypeOK, FlagIsHeld, StagesAgree, Stages, InstallStages, InstallKinds,
        NoChannel, NoTask, Selected
<1>1. ASSUME NEW c \in Channels, load(c) PROVE UpdaterInv'
      BY <1>1 DEF load
<1>2. CASE loadFails
      BY <1>2 DEF loadFails
<1>3. CASE checkForUpdates
      BY <1>3 DEF checkForUpdates
<1>4. CASE checked
  <2>1. CASE stage' = "available" /\ update' = task.channel /\ blocked' \in BOOLEAN
    <3>1. blocked' \in BOOLEAN
          BY <2>1
    <3>2. /\ task.kind = "check" /\ stage' = "available" /\ update' = task.channel
          /\ busy' = FALSE /\ task' = NoTask /\ channel' = channel /\ switch' = switch /\ met' = met
          BY <1>4, <2>1, Zenon DEF checked
    <3>3. stage' \in Stages /\ update' \in Channels \cup {"none"}
          BY <3>2
    <3>4. channel' \in Channels \cup NoChannel /\ switch' \in Channels \cup {"none"}
          BY <3>2
    <3>5. busy' \in BOOLEAN /\ met' \in BOOLEAN
          BY <3>2
    <3>6. task' \in {NoTask} \cup [kind : InstallKinds \cup {"check"}, channel : Channels]
          BY <3>2
    <3>7. FlagIsHeld' /\ (~met' => StagesAgree')
          BY <3>2
    <3> QED BY <3>1, <3>3, <3>4, <3>5, <3>6, <3>7, Zenon
  <2>2. CASE stage' \in {"up-to-date", "error"} /\ UNCHANGED <<update, blocked>>
        BY <1>4, <2>2 DEF checked
  <2> QED BY <1>4, <2>1, <2>2 DEF checked
<1>5. CASE installUpdate
      BY <1>5 DEF installUpdate, DesktopUpdaterSettings
<1>6. CASE listened
      BY <1>6 DEF listened
<1>7. CASE progress
      BY <1>7 DEF progress
<1>8. CASE installed
      BY <1>8 DEF installed
<1>9. ASSUME NEW c \in Channels, setChannel(c) PROVE UpdaterInv'
      BY <1>9 DEF setChannel
<1>10. CASE channelSet
      BY <1>10 DEF channelSet
<1>11. CASE UNCHANGED updaterVars
      BY <1>11 DEF updaterVars
<1> QED BY <1>1, <1>2, <1>3, <1>4, <1>5, <1>6, <1>7, <1>8, <1>9, <1>10, <1>11 DEF UpdaterNext

\* The busy flag is held exactly as long as a check or an installation is under
\* way, and what is offered, shown and usable agrees with the selected channel and
\* with what is under way, unless loading or changing the preferences met it
\* (updater-provider.tsx, update-settings-section.tsx).
THEOREM OffersAreOfChannel == UpdaterSpec => []OfferIsOfChannel
<1>1. UpdaterInv => OfferIsOfChannel
  <2> SUFFICES ASSUME UpdaterInv, ~met
               PROVE /\ DesktopUpdaterSettings.check <=> ~busy
                     /\ DesktopUpdaterSettings.upToDate => ~DesktopUpdaterSettings.offer
                     /\ UpdateStatusBadge = "Update available" => DesktopUpdaterSettings.offer
                     /\ DesktopHeaderActions => UpdateStatusBadge = "Update available"
                     /\ PreconnectionUpdater = "Working" <=> busy
      BY DEF OfferIsOfChannel, UpdaterInv, FlagIsHeld, StagesAgree
  <2> DEFINE working == stage \in InstallStages \cup {"checking"}
  <2>1. working <=> busy
        BY DEF UpdaterInv, UpdaterTypeOK, FlagIsHeld, StagesAgree, InstallStages, InstallKinds, NoTask
  <2>2. DesktopUpdaterSettings.check <=> ~working
        BY Zenon DEF DesktopUpdaterSettings
  <2>3. /\ DesktopUpdaterSettings.upToDate <=> stage = "up-to-date"
        /\ DesktopUpdaterSettings.offer <=> update # "none"
        BY Zenon DEF DesktopUpdaterSettings
  <2>4. stage = "up-to-date" => update = "none"
        BY DEF UpdaterInv, StagesAgree
  <2>5. UpdateStatusBadge = "Update available" <=> stage \in InstallStages \cup {"available"}
        BY DEF UpdaterInv, UpdaterTypeOK, UpdateStatusBadge, Stages, InstallStages
  <2>6. update # "none" <=> stage \in InstallStages \cup {"available"} \/ (stage = "error" /\ update # "none")
        BY DEF UpdaterInv, UpdaterTypeOK, FlagIsHeld, StagesAgree, Stages, InstallStages
  <2>7. DesktopHeaderActions => UpdateStatusBadge = "Update available"
        BY <2>5, <2>6 DEF DesktopHeaderActions
  <2>8. PreconnectionUpdater = "Working" <=> working
        BY DEF PreconnectionUpdater
  <2> QED BY <2>1, <2>2, <2>3, <2>4, <2>5, <2>6, <2>7, <2>8
<1> QED BY <1>1, UpdaterInvInit, UpdaterInvStep, PTL DEF UpdaterSpec

-------------------------------------------------------------------------------
(* DesktopSession.                                                            *)

SessionConnecting == {"bootstrap", "connect"}
CallsOf(sort, turn) == \E c \in Calls : calls[c].kind = sort /\ calls[c].at = turn

CallKinds == SessionConnecting \cup Changing \cup Asking
CallStages == {"connect", "status", "user", "sent", "answered", "gone"}
SessionCalls == {NoCall} \cup [kind : CallKinds, to : Servers \cup {Nowhere}, at : CallStages]
SessionViews == [status : {"loading", "disconnected", "connected"}, server : Servers \cup {Nowhere},
                 setup : BOOLEAN, user : Servers \cup {NoOne}]

SessionTypeOK ==
  /\ view \in SessionViews
  /\ saved \in Servers \cup {Nowhere} /\ client \in Servers \cup {Nowhere}
  /\ signedIn \subseteq Servers /\ fresh \subseteq Servers /\ signedIn \cap fresh = {}
  /\ calls \in [Calls -> SessionCalls] /\ crossed \in BOOLEAN

\* The stages of a call: to connect, or to ask.
StageFits(c) ==
  /\ calls[c].at \in {"connect", "status", "user"} => calls[c].kind \in SessionConnecting
  /\ calls[c].at \in {"sent", "answered", "gone"} => calls[c].kind \in Asking \cup {"signOut", "change"}
  /\ calls[c].at \in {"answered", "gone"} => calls[c].to # Nowhere
  /\ calls[c].at = "gone" => calls[c].kind = "refresh"
  /\ calls[c].at = "none" => calls[c] = NoCall

\* One connection is made at a time, and only while there is none.
OneConnects(c) ==
  calls[c].kind \in SessionConnecting =>
    /\ view.status # "connected"
    /\ \A d \in Calls : calls[d].kind \in SessionConnecting => d = c
    /\ calls[c].at \in {"status", "user"} => calls[c].to # Nowhere
    /\ calls[c].at = "user" => calls[c].to \notin fresh
    /\ ~crossed => /\ calls[c].kind = "bootstrap" => saved = calls[c].to
                   /\ calls[c].at = "user" => saved = calls[c].to
                   /\ calls[c].at \in {"status", "user"} => client = calls[c].to

\* Without a crossing, the requests of the present session and what they meet.
OneSession(c) ==
  /\ calls[c].kind \in Asking \cup {"signOut", "change"} => view.status = "connected" /\ calls[c].to = client
  /\ calls[c].kind \in Changing \cup {"login"} => \A d \in Calls : d # c => calls[d] = NoCall
  /\ calls[c].kind \in {"refresh", "profile"} =>
       view.user = client /\ client \in signedIn /\ calls[c].at # "gone"
  /\ calls[c].kind = "setup" => view.user = NoOne /\ (calls[c].at = "answered" => client \notin fresh)
  /\ calls[c].kind = "login" => /\ view.user = NoOne /\ ~view.setup
                                /\ client \in signedIn <=> calls[c].at = "answered"
  /\ calls[c].kind = "signOut" => /\ view.user = client /\ ~view.setup
                                  /\ client \in signedIn <=> calls[c].at = "sent"

\* What is shown, and without a crossing what the server knows of it.
NobodyWithoutServer == view.status # "connected" => view.user = NoOne /\ ~view.setup
ViewIsKnown ==
  view.status = "connected" =>
    /\ view.server = client /\ view.server = saved /\ client \in Servers
    /\ view.user \in {NoOne, client}
    /\ view.setup => view.user = NoOne /\ (client \in fresh \/ CallsOf("setup", "answered"))
    /\ ~view.setup => client \notin fresh
    /\ \/ view.user = UserAt(client)
       \/ CallsOf("login", "answered") \/ CallsOf("signOut", "answered")

SessionInv ==
  /\ SessionTypeOK /\ NobodyWithoutServer
  /\ view.status = "loading" => InFlight(SessionConnecting)
  /\ \A c \in Calls : StageFits(c) /\ OneConnects(c)
  /\ ~crossed => ViewIsKnown /\ \A c \in Calls : OneSession(c)

-----------------------------------------------------------------------------
LEMMA CallAtRest == /\ NoCall.kind = "none" /\ NoCall.at = "none" /\ NoCall.to = Nowhere /\ NoCall \in SessionCalls
                    /\ "none" \notin CallKinds
  BY DEF NoCall, SessionCalls, CallKinds, SessionConnecting, Changing, Asking

LEMMA CallEnded ==
  ASSUME SessionTypeOK, NEW c \in Calls, ended(c)
  PROVE  /\ calls' \in [Calls -> SessionCalls] /\ calls'[c] = NoCall
         /\ \A d \in Calls : d # c => calls'[d] = calls[d]
  BY CallAtRest DEF SessionTypeOK, ended

LEMMA CallGoesOn ==
  ASSUME SessionTypeOK, NEW c \in Calls, calls[c] # NoCall, NEW turn \in CallStages, at(c, turn)
  PROVE  /\ calls' \in [Calls -> SessionCalls] /\ calls'[c] # NoCall
         /\ calls'[c].kind = calls[c].kind /\ calls'[c].to = calls[c].to /\ calls'[c].at = turn
         /\ \A d \in Calls : d # c => calls'[d] = calls[d]
<1> DEFINE new == [calls[c] EXCEPT !.at = turn]
<1>1. calls[c] \in [kind : CallKinds, to : Servers \cup {Nowhere}, at : CallStages]
  BY DEF SessionTypeOK, SessionCalls
<1>2. new \in SessionCalls /\ new.kind = calls[c].kind /\ new.to = calls[c].to /\ new.at = turn /\ new # NoCall
  BY <1>1, CallAtRest DEF SessionCalls, CallStages
<1>3. calls' = [calls EXCEPT ![c] = new]
  BY DEF at
<1> HIDE DEF new
<1> QED BY <1>2, <1>3 DEF SessionTypeOK

LEMMA CallStarted ==
  ASSUME SessionTypeOK, NEW c \in Calls, NEW sort \in CallKinds, NEW to \in Servers \cup {Nowhere},
         NEW turn \in CallStages, start(c, sort, to, turn)
  PROVE  /\ calls' \in [Calls -> SessionCalls] /\ calls[c] = NoCall /\ calls'[c] # NoCall
         /\ calls'[c].kind = sort /\ calls'[c].to = to /\ calls'[c].at = turn
         /\ \A d \in Calls : d # c => calls'[d] = calls[d]
         /\ crossed' \in BOOLEAN
         /\ ~crossed' => /\ crossed => sort = "connect" /\ \A d \in Calls : calls[d] = NoCall
                         /\ sort \in Changing => ~InFlight(Asking \cup Changing)
                         /\ sort \in Asking => ~InFlight(Changing) /\ ~InFlight({"login"})
                         /\ sort = "login" => ~InFlight(Asking)
<1> DEFINE new == [kind |-> sort, to |-> to, at |-> turn]
<1>1. new \in SessionCalls /\ new.kind = sort /\ new.to = to /\ new.at = turn /\ new # NoCall
  BY CallAtRest DEF SessionCalls, NoCall, CallKinds, SessionConnecting, Changing, Asking
<1>2. calls' = [calls EXCEPT ![c] = new] /\ calls[c] = NoCall
  BY DEF start, Idle
<1> HIDE DEF new
<1>3. /\ calls' \in [Calls -> SessionCalls] /\ calls'[c] = new
      /\ \A d \in Calls : d # c => calls'[d] = calls[d]
  BY <1>1, <1>2 DEF SessionTypeOK
<1>4. crossed' \in BOOLEAN
  BY DEF start
<1>5. ~crossed' => /\ crossed => sort = "connect" /\ \A d \in Calls : calls[d] = NoCall
                   /\ sort \in Changing => ~InFlight(Asking \cup Changing)
                   /\ sort \in Asking => ~InFlight(Changing) /\ ~InFlight({"login"})
                   /\ sort = "login" => ~InFlight(Asking)
  BY DEF start
<1> QED BY <1>1, <1>2, <1>3, <1>4, <1>5

LEMMA SessionInvInit == SessionInit => SessionInv
<1> SUFFICES ASSUME SessionInit PROVE SessionInv
  OBVIOUS
<1>0. view = Loading /\ view.status = "loading" /\ view.user = NoOne /\ ~view.setup /\ view \in SessionViews
  BY DEF SessionInit, Loading, SessionViews
<1>1. 1 \in Calls /\ calls \in [Calls -> SessionCalls] /\ calls[1] = [kind |-> "bootstrap", to |-> saved, at |-> "connect"]
      /\ \A c \in Calls : c # 1 => calls[c] = NoCall
  BY SessionAssumption, CallAtRest DEF SessionInit, SessionCalls, CallKinds, SessionConnecting, CallStages
<1>2. SessionTypeOK
  BY <1>0, <1>1 DEF SessionInit, SessionTypeOK
<1>3. InFlight(SessionConnecting)
  BY <1>1 DEF InFlight, SessionConnecting
<1>4. ASSUME NEW c \in Calls PROVE StageFits(c) /\ OneConnects(c)
  BY <1>0, <1>1, CallAtRest DEF StageFits, OneConnects, SessionConnecting, Asking, NoCall
<1>5. ASSUME NEW c \in Calls PROVE OneSession(c)
  BY <1>0, <1>1, CallAtRest DEF OneSession, Asking, Changing, NoCall
<1> QED BY <1>0, <1>2, <1>3, <1>4, <1>5 DEF SessionInv, NobodyWithoutServer, ViewIsKnown
LEMMA ConnectKeepsSession ==
  ASSUME SessionInv, NEW c \in Calls, NEW s \in Servers, connect(c, s)
  PROVE  SessionInv'
<1>0. /\ SessionTypeOK /\ start(c, "connect", s, "connect") /\ UNCHANGED <<view, client, signedIn, fresh>>
      /\ view.status = "disconnected" /\ saved' \in Servers \cup {Nowhere}
      /\ ~InFlight(SessionConnecting) /\ "connect" \in CallKinds /\ "connect" \in CallStages
  BY DEF SessionInv, SessionTypeOK, connect, InFlight, SessionConnecting, CallKinds, CallStages
<1>1. /\ calls' \in [Calls -> SessionCalls] /\ calls[c] = NoCall
      /\ calls'[c].kind = "connect" /\ calls'[c].to = s /\ calls'[c].at = "connect"
      /\ \A d \in Calls : d # c => calls'[d] = calls[d]
      /\ crossed' \in BOOLEAN
      /\ ~crossed' => /\ crossed => \A d \in Calls : calls[d] = NoCall
                      /\ ~InFlight(Asking \cup Changing)
  BY <1>0, CallStarted DEF Changing
<1>2. SessionTypeOK'
  BY <1>0, <1>1 DEF SessionTypeOK
<1>3. \A d \in Calls : d # c => calls[d].kind \notin SessionConnecting
  BY <1>0 DEF InFlight
<1>4. ASSUME NEW d \in Calls PROVE StageFits(d)' /\ OneConnects(d)'
  <2>1. CASE d = c
    BY <2>1, <1>0, <1>1, <1>3 DEF StageFits, OneConnects, SessionConnecting
  <2>2. CASE d # c
    BY <2>2, <1>0, <1>1, <1>3 DEF SessionInv, StageFits, OneConnects
  <2> QED BY <2>1, <2>2
<1>5. ASSUME ~crossed' PROVE ViewIsKnown' /\ \A d \in Calls : OneSession(d)'
  <2>1. \A d \in Calls : calls[d] = NoCall
    BY <1>0, <1>1, <1>5 DEF InFlight, SessionTypeOK, SessionCalls, CallKinds
  <2>2. \A d \in Calls : d # c => calls'[d] = NoCall
    BY <2>1, <1>1
  <2>3. \A d \in Calls : OneSession(d)'
    BY <2>2, <1>1, CallAtRest DEF OneSession, Asking, Changing, CallKinds
  <2> QED BY <2>3, <1>0 DEF ViewIsKnown
<1> QED BY <1>0, <1>2, <1>4, <1>5 DEF SessionInv, NobodyWithoutServer

LEMMA AskKeepsSession ==
  ASSUME SessionInv, NEW c \in Calls, NEW k \in {"refresh", "login", "profile", "setup", "signOut", "change"},
         ask(c, k)
  PROVE  SessionInv'
<1>0. /\ SessionTypeOK /\ start(c, k, client, "sent") /\ UNCHANGED <<view, saved, client, signedIn, fresh>>
      /\ view.status = "connected" /\ client \in Servers \cup {Nowhere}
      /\ k \in CallKinds /\ "sent" \in CallStages /\ k \in Asking \cup {"signOut", "change"}
      /\ k \notin SessionConnecting /\ k # "connect"
  BY DEF SessionInv, SessionTypeOK, ask, SessionConnecting, CallKinds, CallStages, Asking, Changing
<1>1. /\ calls' \in [Calls -> SessionCalls] /\ calls[c] = NoCall
      /\ calls'[c].kind = k /\ calls'[c].to = client /\ calls'[c].at = "sent"
      /\ \A d \in Calls : d # c => calls'[d] = calls[d]
      /\ crossed' \in BOOLEAN
      /\ ~crossed' => /\ ~crossed
                      /\ k \in Changing => ~InFlight(Asking \cup Changing)
                      /\ k \in Asking => ~InFlight(Changing) /\ ~InFlight({"login"})
                      /\ k = "login" => ~InFlight(Asking)
  BY <1>0, CallStarted
<1>2. SessionTypeOK'
  BY <1>0, <1>1 DEF SessionTypeOK
<1>3. ASSUME NEW d \in Calls PROVE StageFits(d)' /\ OneConnects(d)' /\ calls[d].kind \notin SessionConnecting
  <2>1. calls[d].kind \notin SessionConnecting
    BY <1>0 DEF SessionInv, OneConnects
  <2>2. CASE d = c
    <3>1. StageFits(d)'
      BY <2>2, <1>0, <1>1 DEF StageFits
    <3>2. OneConnects(d)'
      BY <2>2, <1>0, <1>1 DEF OneConnects
    <3> QED BY <2>1, <3>1, <3>2
  <2>3. CASE d # c
    BY <2>1, <2>3, <1>0, <1>1 DEF SessionInv, StageFits, OneConnects
  <2> QED BY <2>1, <2>2, <2>3
<1>4. ASSUME ~crossed' PROVE ViewIsKnown' /\ \A d \in Calls : OneSession(d)'
  <2>1. ViewIsKnown /\ \A d \in Calls : OneSession(d)
    BY <1>1, <1>4 DEF SessionInv
  <2>2. \A sort, turn : CallsOf(sort, turn) /\ sort # "none" => CallsOf(sort, turn)'
    BY <1>1, CallAtRest DEF CallsOf
  <2>3. ViewIsKnown'
    BY <2>1, <2>2, <1>0 DEF ViewIsKnown, UserAt
  <2>4. k \in Changing \cup {"login"} => \A d \in Calls : calls[d] = NoCall
    BY <1>0, <1>1, <1>3, <1>4 DEF InFlight, SessionTypeOK, SessionCalls, CallKinds, Changing, Asking
  <2>5. \A d \in Calls : calls[d].kind \notin Changing \cup {"login"}
    BY <1>0, <1>1, <1>4, <2>4, CallAtRest DEF InFlight, Changing, Asking, CallKinds
  <2>6. ASSUME NEW d \in Calls, d # c PROVE OneSession(d)'
    BY <2>1, <2>5, <2>6, <1>0, <1>1 DEF OneSession, Changing
  <2>7. view.user # NoOne => view.user = client
    BY <2>1, <1>0 DEF ViewIsKnown
  <2>8. k \in {"refresh", "profile", "signOut"} => view.user = client /\ view.user # NoOne
    BY <2>7, <1>0 DEF ask
  <2>9. view.user = UserAt(client)
    BY <2>1, <2>5, <1>0 DEF ViewIsKnown, CallsOf, Changing
  <2>10. client \in Servers /\ client # NoOne
    BY <2>1, <1>0, SessionAssumption DEF ViewIsKnown, NoOne
  <2>11. k \in {"refresh", "profile", "signOut"} => client \in signedIn /\ ~view.setup
    BY <2>8, <2>9, <2>1, <1>0 DEF UserAt, ViewIsKnown
  <2>12. k = "setup" => view.user = NoOne
    BY <2>1, <1>0 DEF ViewIsKnown, ask
  <2>13. k = "login" => view.user = NoOne /\ ~view.setup /\ client \notin signedIn
    BY <2>9, <2>10 DEF UserAt, ask
  <2>14. OneSession(c)'
    BY <2>4, <2>8, <2>11, <2>12, <2>13, <1>0, <1>1 DEF OneSession, Asking, Changing
  <2> QED BY <2>3, <2>6, <2>14
<1> QED BY <1>0, <1>2, <1>3, <1>4 DEF SessionInv, NobodyWithoutServer

\* The connection that is under way: at whatever stage, it is the only one.
LEMMA ConnectedKeepsSession ==
  ASSUME SessionInv, NEW c \in Calls, connected(c)
  PROVE  SessionInv'
<1>0. /\ SessionTypeOK /\ UNCHANGED <<view, saved, signedIn, fresh, crossed>> /\ at(c, "status")
      /\ calls[c].at = "connect" /\ client' = calls[c].to /\ client' # Nowhere
      /\ calls[c] # NoCall /\ "status" \in CallStages
  BY CallAtRest DEF SessionInv, connected, CallStages
<1>1. /\ calls' \in [Calls -> SessionCalls] /\ calls'[c].kind = calls[c].kind /\ calls'[c].to = calls[c].to
      /\ calls'[c].at = "status" /\ calls'[c] # NoCall /\ \A d \in Calls : d # c => calls'[d] = calls[d]
  BY <1>0, CallGoesOn
<1>2. calls[c].kind \in SessionConnecting /\ view.status # "connected" /\ client' \in Servers
      /\ \A d \in Calls : d # c => calls[d].kind \notin SessionConnecting
  BY <1>0 DEF SessionInv, StageFits, OneConnects, SessionTypeOK, SessionCalls
<1>3. SessionTypeOK'
  BY <1>0, <1>1, <1>2 DEF SessionTypeOK
<1>4. InFlight(SessionConnecting)'
  BY <1>1, <1>2 DEF InFlight
<1>5. ASSUME NEW d \in Calls PROVE StageFits(d)' /\ OneConnects(d)'
  <2>1. CASE d = c
    BY <2>1, <1>0, <1>1, <1>2 DEF SessionInv, StageFits, OneConnects
  <2>2. CASE d # c
    BY <2>2, <1>0, <1>1, <1>2 DEF SessionInv, StageFits, OneConnects
  <2> QED BY <2>1, <2>2
<1>6. ASSUME ~crossed', NEW d \in Calls PROVE OneSession(d)'
  <2>1. \A e \in Calls : OneSession(e)
    BY <1>0, <1>6 DEF SessionInv
  <2>2. calls[c].kind \notin Asking \cup {"signOut", "change"}
    BY <1>2 DEF SessionConnecting, Asking
  <2>3. \A e \in Calls : calls[e].kind \notin Asking \cup {"signOut", "change"}
    BY <1>2, <2>1 DEF OneSession
  <2>4. CASE d = c
    BY <2>1, <2>3, <2>4, <1>1, <2>2 DEF OneSession, Asking, Changing
  <2>5. CASE d # c
    BY <2>1, <2>3, <2>5, <1>0, <1>1, <2>2 DEF OneSession, Asking, Changing
  <2> QED BY <2>4, <2>5
<1> QED BY <1>0, <1>2, <1>3, <1>4, <1>5, <1>6 DEF SessionInv, NobodyWithoutServer, ViewIsKnown

\* A connection ends: what is shown is not the loading screen.
LEMMA ConnectionEnds ==
  ASSUME SessionInv, NEW c \in Calls, calls[c].kind \in SessionConnecting, ended(c),
         view' \in SessionViews, view'.status # "loading", client' \in Servers \cup {Nowhere},
         saved' \in Servers \cup {Nowhere},
         UNCHANGED <<signedIn, fresh, crossed>>, NobodyWithoutServer',
         view'.status = "connected" => /\ view'.user = UserAt(view'.server) /\ (view'.setup <=> view'.server \in fresh)
                                       /\ view'.server \in Servers
                                       /\ ~crossed => view'.server = client' /\ view'.server = saved'
  PROVE  SessionInv'
<1>0. SessionTypeOK /\ \A d \in Calls : StageFits(d) /\ OneConnects(d)
  BY DEF SessionInv
<1>1. /\ calls' \in [Calls -> SessionCalls] /\ calls'[c] = NoCall
      /\ \A d \in Calls : d # c => calls'[d] = calls[d]
  BY <1>0, CallEnded
<1>2. SessionTypeOK'
  BY <1>0, <1>1 DEF SessionTypeOK
<1>3. \A d \in Calls : calls'[d].kind \notin SessionConnecting
  BY <1>0, <1>1, CallAtRest DEF OneConnects, CallKinds
<1>4. ASSUME NEW d \in Calls PROVE StageFits(d)' /\ OneConnects(d)'
  BY <1>0, <1>1, <1>3, CallAtRest DEF StageFits, OneConnects
<1>5. ASSUME ~crossed' PROVE ViewIsKnown' /\ \A d \in Calls : OneSession(d)'
  <2>1. \A d \in Calls : OneSession(d) /\ calls[d].kind \notin Asking \cup {"signOut", "change"}
    BY <1>0, <1>5 DEF SessionInv, OneSession, OneConnects
  <2>2. \A d \in Calls : calls'[d].kind \notin CallKinds
    BY <1>1, <1>3, <2>1, CallAtRest DEF CallKinds, Changing, SessionConnecting
  <2>3. \A d \in Calls : OneSession(d)'
    BY <2>2 DEF OneSession, CallKinds, Asking, Changing
  <2>4. ViewIsKnown'
    <3>1. CASE view'.status = "connected"
      <4>1. client' \in Servers /\ client' # NoOne /\ view'.user = UserAt(client') /\ view'.server = saved'
            /\ (view'.setup <=> client' \in fresh) /\ view'.server = client'
        BY <3>1, <1>5, SessionAssumption DEF NoOne
      <4>2. fresh \cap signedIn = {} /\ signedIn' = signedIn /\ fresh' = fresh
        BY <1>0 DEF SessionTypeOK
      <4>3. client' \in fresh => view'.user = NoOne
        BY <4>1, <4>2 DEF UserAt
      <4>4. view'.user \in {NoOne, client'}
        BY <4>1 DEF UserAt
      <4> QED BY <4>1, <4>2, <4>3, <4>4 DEF ViewIsKnown, UserAt
    <3>2. CASE view'.status # "connected"
      BY <3>2 DEF ViewIsKnown
    <3> QED BY <3>1, <3>2
  <2> QED BY <2>3, <2>4
<1> QED BY <1>2, <1>4, <1>5 DEF SessionInv

LEMMA Disconnects ==
  ASSUME NEW s \in Servers \cup {Nowhere}, view' = Disconnected(s)
  PROVE  view' \in SessionViews /\ view'.status = "disconnected" /\ NobodyWithoutServer'
<1>1. view' = [status |-> "disconnected", server |-> s, setup |-> FALSE, user |-> NoOne]
  BY DEF Disconnected, Loading
<1>2. view' \in SessionViews /\ view'.status = "disconnected" /\ view'.user = NoOne /\ ~view'.setup
  BY <1>1 DEF SessionViews
<1> QED BY <1>2 DEF NobodyWithoutServer

LEMMA NothingSavedKeepsSession ==
  ASSUME SessionInv, NEW c \in Calls, nothingSaved(c)
  PROVE  SessionInv'
<1>1. /\ view' = Disconnected(Nowhere) /\ ended(c) /\ UNCHANGED <<saved, client, signedIn, fresh, crossed>>
      /\ calls[c].kind \in SessionConnecting
  BY DEF nothingSaved, SessionInv, StageFits
<1>2. view' \in SessionViews /\ view'.status = "disconnected" /\ NobodyWithoutServer'
  BY <1>1, Disconnects
<1>3. client \in Servers \cup {Nowhere} /\ saved \in Servers \cup {Nowhere}
  BY DEF SessionInv, SessionTypeOK
<1> QED BY <1>1, <1>2, <1>3, ConnectionEnds

LEMMA ConnectionFailsKeepsSession ==
  ASSUME SessionInv, NEW c \in Calls, connectionFails(c)
  PROVE  SessionInv'
<1>1. ended(c) /\ UNCHANGED <<saved, signedIn, fresh, crossed>> /\ calls[c].kind \in SessionConnecting
  BY DEF connectionFails, SessionInv, StageFits
<1>2. client \in Servers \cup {Nowhere} /\ saved \in Servers \cup {Nowhere}
      /\ view.server \in Servers \cup {Nowhere} /\ calls[c].to \in Servers \cup {Nowhere}
  BY CallAtRest DEF SessionInv, SessionTypeOK, SessionViews, SessionCalls
<1>3. client' \in Servers \cup {Nowhere}
  BY <1>2 DEF connectionFails
<1>4. PICK s \in Servers \cup {Nowhere} : view' = Disconnected(s)
  BY <1>2 DEF connectionFails
<1>5. view' \in SessionViews /\ view'.status = "disconnected" /\ NobodyWithoutServer'
  BY <1>4, Disconnects
<1> QED BY <1>1, <1>2, <1>3, <1>5, ConnectionEnds

LEMMA UserKnownKeepsSession ==
  ASSUME SessionInv, NEW c \in Calls, userKnown(c)
  PROVE  SessionInv'
<1>1. /\ ended(c) /\ UNCHANGED <<saved, client, signedIn, fresh, crossed>> /\ calls[c].kind \in SessionConnecting
      /\ calls[c].at = "user"
      /\ view' = [status |-> "connected", server |-> calls[c].to, setup |-> FALSE, user |-> UserAt(calls[c].to)]
  BY DEF userKnown, SessionInv, StageFits
<1>2. client \in Servers \cup {Nowhere} /\ saved \in Servers \cup {Nowhere} /\ calls[c].to \in Servers
  BY <1>1, CallAtRest DEF SessionInv, SessionTypeOK, SessionCalls, OneConnects
<1>3. ~crossed => client = calls[c].to /\ saved = calls[c].to
  BY <1>1 DEF SessionInv, OneConnects
<1>4. view' \in SessionViews /\ view'.status = "connected" /\ ~view'.setup /\ view'.server = calls[c].to
      /\ view'.user = UserAt(view'.server)
  BY <1>1, <1>2 DEF SessionViews, UserAt
<1>5. calls[c].to \notin fresh
  BY <1>1 DEF SessionInv, OneConnects
<1> QED BY <1>1, <1>2, <1>3, <1>4, <1>5, ConnectionEnds DEF NobodyWithoutServer

LEMMA StatusKnownKeepsSession ==
  ASSUME SessionInv, NEW c \in Calls, statusKnown(c)
  PROVE  SessionInv'
<1>0. /\ SessionTypeOK /\ UNCHANGED <<client, signedIn, fresh, crossed>> /\ calls[c].at = "status"
      /\ calls[c].kind \in SessionConnecting /\ calls[c].to \in Servers /\ calls[c] # NoCall
      /\ view.status # "connected" /\ client \in Servers \cup {Nowhere}
      /\ \A d \in Calls : d # c => calls[d].kind \notin SessionConnecting
      /\ ~crossed => client = calls[c].to /\ (calls[c].kind = "bootstrap" => saved = calls[c].to)
  BY CallAtRest DEF SessionInv, SessionTypeOK, StageFits, OneConnects, SessionCalls, statusKnown
<1>1. saved' \in Servers \cup {Nowhere} /\ (~crossed => saved' = calls[c].to)
  BY <1>0 DEF statusKnown, SessionTypeOK, SessionConnecting
<1>2. CASE calls[c].to \in fresh
  <2>1. /\ view' = [status |-> "connected", server |-> calls[c].to, setup |-> TRUE, user |-> NoOne]
        /\ ended(c)
    BY <1>2 DEF statusKnown
  <2>2. view' \in SessionViews /\ view'.status = "connected" /\ view'.setup /\ view'.server = calls[c].to
        /\ view'.user = NoOne
    BY <2>1, <1>0 DEF SessionViews
  <2>3. calls[c].to \notin signedIn
    BY <1>0, <1>2 DEF SessionTypeOK
  <2>4. view'.user = UserAt(view'.server)
    BY <2>2, <2>3 DEF UserAt
  <2> QED BY <1>0, <1>1, <1>2, <2>1, <2>2, <2>4, ConnectionEnds DEF NobodyWithoutServer
<1>3. CASE calls[c].to \notin fresh
  <2>0. view' = Loading /\ at(c, "user") /\ "user" \in CallStages
    BY <1>3 DEF statusKnown, CallStages
  <2>1. /\ calls' \in [Calls -> SessionCalls] /\ calls'[c].kind = calls[c].kind /\ calls'[c].to = calls[c].to
        /\ calls'[c].at = "user" /\ calls'[c] # NoCall /\ \A d \in Calls : d # c => calls'[d] = calls[d]
    BY <1>0, <2>0, CallGoesOn
  <2>2. view' \in SessionViews /\ view'.status = "loading" /\ view'.user = NoOne /\ ~view'.setup
    BY <2>0 DEF Loading, SessionViews
  <2>3. SessionTypeOK'
    BY <1>0, <1>1, <2>1, <2>2 DEF SessionTypeOK
  <2>4. InFlight(SessionConnecting)'
    BY <1>0, <2>1 DEF InFlight
  <2>5. ASSUME NEW d \in Calls PROVE StageFits(d)' /\ OneConnects(d)'
    <3>1. CASE d = c
      <4>1. StageFits(d)'
        BY <3>1, <1>0, <2>1 DEF StageFits
      <4>2. OneConnects(d)'
        BY <3>1, <1>0, <1>1, <1>3, <2>1, <2>2, SessionAssumption DEF OneConnects, Nowhere
      <4> QED BY <4>1, <4>2
    <3>2. CASE d # c
      BY <3>2, <1>0, <2>1 DEF SessionInv, StageFits, OneConnects
    <3> QED BY <3>1, <3>2
  <2>6. ASSUME ~crossed', NEW d \in Calls PROVE OneSession(d)'
    <3>1. \A e \in Calls : OneSession(e)
      BY <1>0, <2>6 DEF SessionInv
    <3>2. \A e \in Calls : calls[e].kind \notin Asking \cup {"signOut", "change"}
      BY <1>0, <3>1 DEF OneSession
    <3>3. CASE d = c
      BY <3>1, <3>2, <3>3, <2>1 DEF OneSession, Asking, Changing
    <3>4. CASE d # c
      BY <3>1, <3>2, <3>4, <1>0, <2>1 DEF OneSession, Asking, Changing
    <3> QED BY <3>3, <3>4
  <2> QED BY <2>2, <2>3, <2>4, <2>5, <2>6 DEF SessionInv, NobodyWithoutServer, ViewIsKnown
<1> QED BY <1>2, <1>3

\* A request goes on or ends: the connections are as they were.
LEMMA RequestKeepsConnections ==
  ASSUME SessionInv, NEW c \in Calls, calls[c].kind \notin SessionConnecting,
         calls'[c].kind \notin SessionConnecting, \A d \in Calls : d # c => calls'[d] = calls[d],
         view'.status = "connected" => view.status = "connected",
         fresh' \subseteq fresh, UNCHANGED <<saved, client, crossed>>
  PROVE  (\A d \in Calls : OneConnects(d)') /\ (InFlight(SessionConnecting) => InFlight(SessionConnecting)')
<1>1. ASSUME NEW d \in Calls PROVE OneConnects(d)'
  BY DEF SessionInv, OneConnects
<1>2. ASSUME InFlight(SessionConnecting) PROVE InFlight(SessionConnecting)'
  BY <1>2 DEF InFlight
<1> QED BY <1>1, <1>2

LEMMA RefusedKeepsSession ==
  ASSUME SessionInv, NEW c \in Calls, refused(c)
  PROVE  SessionInv'
<1>0. /\ SessionTypeOK /\ UNCHANGED <<view, saved, client, signedIn, fresh, crossed>> /\ ended(c)
      /\ calls[c].at = "sent" /\ calls[c].kind \in Asking \cup {"signOut"}
  BY DEF SessionInv, StageFits, refused
<1>1. /\ calls' \in [Calls -> SessionCalls] /\ calls'[c] = NoCall
      /\ \A d \in Calls : d # c => calls'[d] = calls[d]
  BY <1>0, CallEnded
<1>2. SessionTypeOK'
  BY <1>0, <1>1 DEF SessionTypeOK
<1>3. (\A d \in Calls : OneConnects(d)') /\ (InFlight(SessionConnecting) => InFlight(SessionConnecting)')
  <2>1. calls[c].kind \notin SessionConnecting /\ calls'[c].kind \notin SessionConnecting
    BY <1>0, <1>1, CallAtRest DEF SessionConnecting, Asking, CallKinds
  <2> QED BY <2>1, <1>0, <1>1, RequestKeepsConnections
<1>4. ASSUME NEW d \in Calls PROVE StageFits(d)'
  BY <1>1, CallAtRest DEF SessionInv, StageFits
<1>5. ASSUME ~crossed' PROVE ViewIsKnown' /\ \A d \in Calls : OneSession(d)'
  <2>1. ViewIsKnown /\ \A d \in Calls : OneSession(d)
    BY <1>0, <1>5 DEF SessionInv
  <2>2. \A sort : CallsOf(sort, "answered") => CallsOf(sort, "answered")'
    BY <1>0, <1>1 DEF CallsOf
  <2>3. ViewIsKnown'
    BY <2>1, <2>2, <1>0 DEF ViewIsKnown, UserAt
  <2>4. ASSUME NEW d \in Calls PROVE OneSession(d)'
    <3>1. CASE d = c
      BY <3>1, <1>1, CallAtRest DEF OneSession, CallKinds, Asking, Changing
    <3>2. CASE d # c
      BY <3>2, <2>1, <1>0, <1>1 DEF OneSession
    <3> QED BY <3>1, <3>2
  <2> QED BY <2>3, <2>4
<1> QED BY <1>0, <1>2, <1>3, <1>4, <1>5 DEF SessionInv, NobodyWithoutServer

LEMMA ServerLeftKeepsSession ==
  ASSUME SessionInv, NEW c \in Calls, serverLeft(c)
  PROVE  SessionInv'
<1>0. /\ SessionTypeOK /\ UNCHANGED <<saved, signedIn, fresh, crossed>> /\ ended(c)
      /\ calls[c].kind = "change" /\ client' \in Servers \cup {Nowhere}
      /\ view' = Disconnected(view.server) /\ view.server \in Servers \cup {Nowhere}
  BY DEF SessionInv, SessionTypeOK, SessionViews, serverLeft
<1>1. /\ calls' \in [Calls -> SessionCalls] /\ calls'[c] = NoCall
      /\ \A d \in Calls : d # c => calls'[d] = calls[d]
  BY <1>0, CallEnded
<1>2. view' \in SessionViews /\ view'.status = "disconnected" /\ NobodyWithoutServer'
  BY <1>0, Disconnects
<1>3. SessionTypeOK'
  BY <1>0, <1>1, <1>2 DEF SessionTypeOK
<1>4. ~crossed => \A d \in Calls : calls'[d] = NoCall
  BY <1>0, <1>1 DEF SessionInv, OneSession, Changing
<1>5. ASSUME NEW d \in Calls PROVE StageFits(d)' /\ OneConnects(d)'
  <2>1. CASE d = c
    BY <2>1, <1>1, CallAtRest DEF StageFits, OneConnects, CallKinds
  <2>2. CASE d # c
    BY <2>2, <1>0, <1>1, <1>2, <1>4, CallAtRest DEF SessionInv, StageFits, OneConnects, CallKinds
  <2> QED BY <2>1, <2>2
<1>6. ~crossed => \A d \in Calls : OneSession(d)'
  BY <1>4, CallAtRest DEF OneSession, CallKinds, Asking, Changing
<1> QED BY <1>0, <1>2, <1>3, <1>5, <1>6 DEF SessionInv, ViewIsKnown

LEMMA ServedKeepsSession ==
  ASSUME SessionInv, NEW c \in Calls, served(c)
  PROVE  SessionInv'
<1> DEFINE turn == IF calls[c].kind = "refresh" /\ calls[c].to \notin signedIn THEN "gone" ELSE "answered"
<1>0. /\ SessionTypeOK /\ UNCHANGED <<view, saved, client, crossed>> /\ at(c, turn) /\ turn \in CallStages
      /\ calls[c].at = "sent" /\ calls[c].kind \in Asking \cup {"signOut"} /\ calls[c].to \in Servers
      /\ turn \in {"answered", "gone"} /\ calls[c] # NoCall
  BY CallAtRest DEF SessionInv, SessionTypeOK, SessionCalls, StageFits, served, CallStages
<1>1. /\ calls' \in [Calls -> SessionCalls] /\ calls'[c].kind = calls[c].kind /\ calls'[c].to = calls[c].to
      /\ calls'[c].at = turn /\ calls'[c] # NoCall /\ \A d \in Calls : d # c => calls'[d] = calls[d]
  BY <1>0, CallGoesOn
<1>2. /\ calls[c].kind = "login" => calls[c].to \notin fresh
      /\ signedIn' = IF calls[c].kind = "login" THEN signedIn \cup {calls[c].to}
                     ELSE IF calls[c].kind = "signOut" THEN signedIn \ {calls[c].to} ELSE signedIn
      /\ fresh' = IF calls[c].kind = "setup" THEN fresh \ {calls[c].to} ELSE fresh
  BY DEF served
<1>a. turn = "gone" => calls[c].kind = "refresh" /\ calls[c].to \notin signedIn
  OBVIOUS
<1> HIDE DEF turn
<1>3. SessionTypeOK'
  BY <1>0, <1>1, <1>2 DEF SessionTypeOK
<1>4. (\A d \in Calls : OneConnects(d)') /\ (InFlight(SessionConnecting) => InFlight(SessionConnecting)')
  <2>1. calls[c].kind \notin SessionConnecting /\ calls'[c].kind \notin SessionConnecting
    BY <1>0, <1>1 DEF SessionConnecting, Asking
  <2> QED BY <2>1, <1>0, <1>1, <1>2, RequestKeepsConnections
<1>5. ASSUME NEW d \in Calls PROVE StageFits(d)'
  <2>1. CASE d = c
    BY <2>1, <1>0, <1>1, <1>a, SessionAssumption DEF StageFits, Nowhere
  <2>2. CASE d # c
    BY <2>2, <1>1 DEF SessionInv, StageFits
  <2> QED BY <2>1, <2>2
<1>6. ASSUME ~crossed' PROVE ViewIsKnown' /\ \A d \in Calls : OneSession(d)'
  <2>1. ViewIsKnown /\ \A d \in Calls : OneSession(d)
    BY <1>0, <1>6 DEF SessionInv
  <2>2. view.status = "connected" /\ calls[c].to = client
    BY <2>1, <1>0 DEF OneSession
  <2>3. \A sort, stg : CallsOf(sort, stg) /\ stg # "sent" => CallsOf(sort, stg)'
    BY <1>0, <1>1 DEF CallsOf
  <2>4. turn = "answered"
    BY <2>1, <2>2, <1>0, <1>a DEF OneSession
  <2>5. \A sort : sort = calls[c].kind => CallsOf(sort, "answered")'
    BY <2>4, <1>1 DEF CallsOf
  <2>6. \A d \in Calls : d # c /\ calls[c].kind \in {"login", "signOut"} => calls'[d] = NoCall
    BY <2>1, <1>1 DEF OneSession, Changing
  <2>7. ViewIsKnown'
    <3>1. view.user = UserAt(client)' \/ CallsOf("login", "answered")' \/ CallsOf("signOut", "answered")'
      BY <2>1, <2>2, <2>3, <2>5, <1>0, <1>2 DEF ViewIsKnown, UserAt
    <3>2. view.setup => client \in fresh' \/ CallsOf("setup", "answered")'
      BY <2>1, <2>2, <2>3, <2>5, <1>2 DEF ViewIsKnown
    <3> QED BY <3>1, <3>2, <2>1, <1>0, <1>2 DEF ViewIsKnown
  <2>8. ASSUME NEW d \in Calls, d = c PROVE OneSession(d)'
    <3>1. calls[c].kind \in Asking \cup {"signOut"} /\ calls'[d].kind = calls[c].kind /\ calls'[d].at = "answered"
          /\ calls'[d].to = client'
      BY <2>2, <2>4, <2>8, <1>0, <1>1
    <3>2. \A e \in Calls : e # c => (calls'[e] = calls[e])
      BY <1>1
    <3>3. CASE calls[c].kind = "login"
      BY <3>1, <3>2, <3>3, <2>1, <2>2, <2>8, <1>0, <1>2 DEF OneSession, Asking, Changing
    <3>4. CASE calls[c].kind = "signOut"
      BY <3>1, <3>2, <3>4, <2>1, <2>2, <2>8, <1>0, <1>2 DEF OneSession, Asking, Changing
    <3>5. CASE calls[c].kind = "setup"
      BY <3>1, <3>2, <3>5, <2>1, <2>2, <2>8, <1>0, <1>2 DEF OneSession, Asking, Changing
    <3>6. CASE calls[c].kind \in {"refresh", "profile"}
      BY <3>1, <3>2, <3>6, <2>1, <2>2, <2>8, <1>0, <1>2 DEF OneSession, Asking, Changing
    <3> QED BY <3>1, <3>3, <3>4, <3>5, <3>6 DEF Asking
  <2>9. ASSUME NEW d \in Calls, d # c PROVE OneSession(d)'
    <3>1. CASE calls[c].kind \in {"login", "signOut"}
      BY <3>1, <2>6, <2>9, CallAtRest DEF OneSession, Asking, Changing, CallKinds
    <3>2. CASE calls[c].kind \notin {"login", "signOut"}
      <4>1. signedIn' = signedIn /\ fresh' \subseteq fresh
        BY <3>2, <1>2
      <4>2. calls[d].kind \notin Changing \cup {"login"}
        BY <2>1, <2>9, <1>0 DEF OneSession
      <4> QED BY <4>1, <4>2, <2>1, <2>9, <1>0, <1>1 DEF OneSession, Changing
    <3> QED BY <3>1, <3>2
  <2> QED BY <2>7, <2>8, <2>9
<1> QED BY <1>0, <1>3, <1>4, <1>5, <1>6 DEF SessionInv, NobodyWithoutServer

SetUp(v, user) == [v EXCEPT !.setup = FALSE, !.user = user]
LEMMA SetUpView ==
  ASSUME NEW v \in SessionViews, NEW user \in Servers \cup {NoOne}, NEW w, w = SetUp(v, user)
  PROVE  w \in SessionViews /\ w.status = v.status /\ w.server = v.server /\ w.user = user /\ ~w.setup
<1>1. w \in SessionViews
  BY DEF SessionViews, SetUp
<1>2. w.status = v.status /\ w.server = v.server /\ w.user = user
  BY DEF SessionViews, SetUp
<1>3. ~w.setup
  BY DEF SessionViews, SetUp
<1> QED BY <1>1, <1>2, <1>3

LEMMA StageOfAnswer ==
  ASSUME SessionInv, NEW c \in Calls, calls[c].at \in {"answered", "gone"}, calls[c].kind # "refresh"
  PROVE  calls[c].at = "answered"
  BY DEF SessionInv, StageFits

LEMMA AnsweredKeepsSession ==
  ASSUME SessionInv, NEW c \in Calls, answered(c)
  PROVE  SessionInv'
<1>0. /\ SessionTypeOK /\ UNCHANGED <<saved, client, signedIn, fresh, crossed>> /\ ended(c)
      /\ calls[c].at \in {"answered", "gone"} /\ calls[c].kind \in Asking \cup {"signOut"}
      /\ calls[c].to \in Servers
  BY CallAtRest DEF SessionInv, SessionTypeOK, SessionCalls, StageFits, answered
<1>1. /\ calls' \in [Calls -> SessionCalls] /\ calls'[c] = NoCall
      /\ \A d \in Calls : d # c => calls'[d] = calls[d]
  BY <1>0, CallEnded
<1>2. /\ view' \in SessionViews /\ view'.status = view.status /\ view'.server = view.server
      /\ view.status # "connected" => view' = view
      /\ view.status = "connected" =>
           /\ view'.user = IF calls[c].kind \in {"login", "profile"} THEN calls[c].to
                           ELSE IF calls[c].kind = "refresh" /\ calls[c].at # "gone" THEN calls[c].to ELSE NoOne
           /\ calls[c].kind \in {"login", "profile", "setup"} => ~view'.setup
           /\ calls[c].kind \in {"refresh", "signOut"} => (view'.setup <=> view.setup)
  <2>1. PICK status \in {"loading", "disconnected", "connected"}, setup \in BOOLEAN, w \in Servers \cup {Nowhere}, user \in Servers \cup {NoOne} :
          view = [status |-> status, server |-> w, setup |-> setup, user |-> user]
    BY <1>0 DEF SessionTypeOK, SessionViews
  <2>2. CASE view.status # "connected"
    BY <2>2, <1>0 DEF answered, SessionTypeOK
  <2>3. CASE view.status = "connected" /\ calls[c].kind \in {"login", "profile"}
    <3>1. view' = SetUp(view, calls[c].to)
      BY <2>3 DEF answered, SetUp
    <3>2. view \in SessionViews /\ calls[c].to \in Servers \cup {NoOne}
      BY <1>0 DEF SessionTypeOK
    <3>3. view' \in SessionViews /\ view'.status = view.status /\ view'.server = view.server
          /\ view'.user = calls[c].to /\ ~view'.setup
      BY <3>1, <3>2, SetUpView
    <3> QED BY <3>3, <2>3
  <2>4. CASE view.status = "connected" /\ calls[c].kind = "refresh"
    <3>1. view' = [status |-> "connected", server |-> w, setup |-> setup,
                   user |-> IF calls[c].at = "gone" THEN NoOne ELSE calls[c].to]
      BY <2>1, <2>4 DEF answered
    <3> QED BY <3>1, <2>1, <2>4, <1>0 DEF SessionViews
  <2>5. CASE view.status = "connected" /\ calls[c].kind = "setup"
    <3>1. view' = SetUp(view, NoOne)
      BY <2>5 DEF answered, SetUp
    <3>2. view \in SessionViews /\ NoOne \in Servers \cup {NoOne}
      BY <1>0 DEF SessionTypeOK
    <3>3. view' \in SessionViews /\ view'.status = view.status /\ view'.server = view.server
          /\ view'.user = NoOne /\ ~view'.setup
      BY <3>1, <3>2, SetUpView
    <3> QED BY <3>3, <2>5
  <2>6. CASE view.status = "connected" /\ calls[c].kind = "signOut"
    <3>1. view' = [status |-> "connected", server |-> w, setup |-> setup, user |-> NoOne]
      BY <2>1, <2>6 DEF answered
    <3> QED BY <3>1, <2>1, <2>6, <1>0 DEF SessionViews
  <2> QED BY <2>2, <2>3, <2>4, <2>5, <2>6, <1>0 DEF Asking
<1>3. SessionTypeOK'
  BY <1>0, <1>1, <1>2 DEF SessionTypeOK
<1>4. (\A d \in Calls : OneConnects(d)') /\ (InFlight(SessionConnecting) => InFlight(SessionConnecting)')
  <2>1. calls[c].kind \notin SessionConnecting /\ calls'[c].kind \notin SessionConnecting
    BY <1>0, <1>1, CallAtRest DEF SessionConnecting, Asking, CallKinds
  <2> QED BY <2>1, <1>0, <1>1, <1>2, RequestKeepsConnections
<1>5. ASSUME NEW d \in Calls PROVE StageFits(d)'
  BY <1>1, CallAtRest DEF SessionInv, StageFits
<1>6. NobodyWithoutServer'
  BY <1>2 DEF SessionInv, NobodyWithoutServer
<1>7. ASSUME ~crossed' PROVE ViewIsKnown' /\ \A d \in Calls : OneSession(d)'
  <2>1. ViewIsKnown /\ \A d \in Calls : OneSession(d)
    BY <1>0, <1>7 DEF SessionInv
  <2>2. view.status = "connected" /\ calls[c].to = client /\ client # NoOne
    BY <2>1, <1>0, SessionAssumption DEF OneSession, NoOne
  <2>3. CASE calls[c].kind = "login"
    <3>1. view'.user = client /\ client \in signedIn /\ client \notin fresh /\ ~view'.setup
      BY <2>1, <2>2, <2>3, <1>0, <1>2, StageOfAnswer DEF OneSession, SessionTypeOK
    <3>2. \A d \in Calls : calls'[d] = NoCall
      BY <2>1, <2>3, <1>1 DEF OneSession
    <3>3. \A d \in Calls : OneSession(d)'
      BY <3>2, CallAtRest DEF OneSession, CallKinds, Asking, Changing
    <3>4. ViewIsKnown'
      BY <3>1, <2>1, <2>2, <1>0, <1>2 DEF ViewIsKnown, UserAt
    <3> QED BY <3>3, <3>4
  <2>4. CASE calls[c].kind = "signOut"
    <3>1. view'.user = NoOne /\ client \notin signedIn /\ ~view'.setup
      BY <2>1, <2>2, <2>4, <1>0, <1>2 DEF OneSession
    <3>a. client \notin fresh
      BY <2>1, <2>2, <2>4 DEF OneSession, ViewIsKnown
    <3>2. \A d \in Calls : calls'[d] = NoCall
      BY <2>1, <2>4, <1>1 DEF OneSession, Changing
    <3>3. \A d \in Calls : OneSession(d)'
      BY <3>2, CallAtRest DEF OneSession, CallKinds, Asking, Changing
    <3>4. ViewIsKnown'
      BY <3>1, <3>a, <2>1, <2>2, <1>0, <1>2 DEF ViewIsKnown, UserAt
    <3> QED BY <3>3, <3>4
  <2>5. CASE calls[c].kind \in {"refresh", "profile"}
    <3>1. view'.user = client /\ view.user = client /\ client \in signedIn /\ client \notin fresh
      BY <2>1, <2>2, <2>5, <1>0, <1>2 DEF OneSession, SessionTypeOK
    <3>2. ~view.setup /\ ~view'.setup
      BY <3>1, <2>1, <2>2, <2>5, <1>2 DEF ViewIsKnown
    <3>3. ASSUME NEW d \in Calls PROVE OneSession(d)'
      <4>1. CASE d = c
        BY <4>1, <1>1, CallAtRest DEF OneSession, CallKinds, Asking, Changing
      <4>2. CASE d # c
        BY <4>2, <3>1, <3>2, <2>1, <1>0, <1>1, <1>2 DEF OneSession
      <4> QED BY <4>1, <4>2
    <3>4. ViewIsKnown'
      BY <3>1, <3>2, <2>1, <2>2, <1>0, <1>2 DEF ViewIsKnown, UserAt
    <3> QED BY <3>3, <3>4
  <2>6. CASE calls[c].kind = "setup"
    <3>1. view'.user = NoOne /\ view.user = NoOne /\ client \notin fresh /\ ~view'.setup
      BY <2>1, <2>2, <2>6, <1>0, <1>2, StageOfAnswer DEF OneSession
    <3>2. \A d \in Calls : calls[d].kind \notin Changing \cup {"login"}
      BY <2>1, <2>6, <1>0, CallAtRest DEF OneSession, Changing
    <3>3. ASSUME NEW d \in Calls PROVE OneSession(d)'
      <4>1. CASE d = c
        BY <4>1, <1>1, CallAtRest DEF OneSession, CallKinds, Asking, Changing
      <4>2. CASE d # c
        BY <4>2, <3>1, <3>2, <2>1, <2>2, <1>0, <1>1, <1>2 DEF OneSession, Changing
      <4> QED BY <4>1, <4>2
    <3>4. view.user = UserAt(client)
      BY <2>1, <2>2, <3>2 DEF ViewIsKnown, CallsOf, Changing
    <3>5. ViewIsKnown'
      BY <3>1, <3>4, <2>1, <2>2, <1>0, <1>2 DEF ViewIsKnown, UserAt
    <3> QED BY <3>3, <3>5
  <2> QED BY <2>3, <2>4, <2>5, <2>6, <1>0 DEF Asking
<1> QED BY <1>0, <1>2, <1>3, <1>4, <1>5, <1>6, <1>7 DEF SessionInv

LEMMA SessionUndisturbed ==
  ASSUME SessionInv, UNCHANGED sessionVars
  PROVE  SessionInv'
  BY DEF SessionInv, sessionVars, SessionTypeOK, NobodyWithoutServer, StageFits, OneConnects, OneSession,
     ViewIsKnown, InFlight, UserAt, CallsOf

LEMMA SessionInvNext == SessionInv /\ [SessionNext]_sessionVars => SessionInv'
  BY ConnectKeepsSession, AskKeepsSession, ConnectedKeepsSession, NothingSavedKeepsSession,
     StatusKnownKeepsSession, UserKnownKeepsSession, ConnectionFailsKeepsSession, ServedKeepsSession,
     AnsweredKeepsSession, RefusedKeepsSession, ServerLeftKeepsSession, SessionUndisturbed DEF SessionNext

LEMMA SessionInvImplies == SessionInv => SessionIsTrue
<1> SUFFICES ASSUME SessionInv PROVE SessionIsTrue
  OBVIOUS
<1>1. view.status = "loading" => InFlight({"bootstrap", "connect"})
  BY DEF SessionInv, SessionConnecting
<1>2. ASSUME ~crossed, view.status = "connected"
      PROVE  view.server = client /\ view.server = saved /\ view.user \in {NoOne, view.server}
  BY <1>2 DEF SessionInv, ViewIsKnown
<1>3. ~crossed => view.user \in {NoOne, view.server}
  BY <1>2 DEF SessionInv, NobodyWithoutServer
<1>4. ASSUME ~crossed, view.status = "connected", Idle = Calls
      PROVE  view.user = UserAt(view.server) /\ (view.setup <=> view.server \in fresh)
  <2>1. \A c \in Calls : calls[c] = NoCall
    BY <1>4 DEF Idle
  <2>2. \A sort, turn : turn # "none" => ~CallsOf(sort, turn)
    BY <2>1, CallAtRest DEF CallsOf
  <2> QED BY <2>2, <1>4 DEF SessionInv, ViewIsKnown
<1> QED BY <1>1, <1>2, <1>3, <1>4 DEF SessionIsTrue

\* However connections, sign-ins, sign-outs and refreshes of any number of servers
\* overlap: the loading screen is left, a connected server is the one the requests
\* go to and a restart opens, and at rest the user shown is the one that server
\* knows, unless a change of session met another answer (session-provider.tsx).
THEOREM SessionIsAlwaysTrue == SessionSpec => []SessionIsTrue
<1>1. SessionInit => SessionInv
  BY SessionInvInit
<1>2. SessionInv /\ [SessionNext]_sessionVars => SessionInv'
  BY SessionInvNext
<1>3. SessionInv => SessionIsTrue
  BY SessionInvImplies
<1> QED BY <1>1, <1>2, <1>3, PTL DEF SessionSpec

-------------------------------------------------------------------------------
(* LocalServerPage.                                                           *)

Snapshots == [settings : Nat, runs : Nat]
FlowStates == [at : {"rest", "dialog", "first", "second", "recover"}, answer : Snapshots \cup {NotRead},
               outcome : {"none", "done", "failed"}]
PageStates == [settings : Nat \cup {-1}, runtime : Snapshots \cup {NotRead}]
Older(a, b) == a.settings <= b.settings /\ a.runs <= b.runs

PageTypeOK ==
  /\ server \in Snapshots /\ page \in PageStates /\ flow \in [Flows -> FlowStates]
  /\ databaseAction \in {"none"} \cup Database /\ pardoned \subseteq {"crossed", "failed", "twice"}

\* What is shown or answered was so at some time.
SnapshotsAreOld ==
  /\ page.settings <= server.settings
  /\ page.runtime # NotRead => Older(page.runtime, server)
  /\ \A f \in Flows : flow[f].outcome # "none" => flow[f].answer \in Snapshots /\ Older(flow[f].answer, server)

\* The page is read once, alone; only an import recovers.
ReadOnce ==
  /\ \A f \in Flows : flow[f].at = "recover" => f = "import"
  /\ \A f \in Flows : flow[f].at = "dialog" => f \in Database
  /\ Loaded => flow["refresh"] = AtRest
  /\ ~Loaded => /\ page = [settings |-> -1, runtime |-> NotRead]
                 /\ \A f \in Flows \ {"refresh"} : flow[f] = AtRest
  /\ flow["refresh"].at = "second" /\ flow["refresh"].outcome = "done" => flow["refresh"].answer = server

\* A function that has changed what runs will still read it, or say that it failed.
Owes(f) ==
  \/ flow[f].at = "first" /\ f \in {"save", "restart"} /\ flow[f].outcome # "none"
  \/ flow[f].at = "first" /\ f = "import" /\
       (flow[f].outcome = "failed" \/ (flow[f].outcome = "done" /\ flow[f].answer = server))
  \/ flow[f].at = "second" /\ f \in {"save", "restart", "export"} /\
       (flow[f].outcome # "done" \/ flow[f].answer = server)
  \/ flow[f].at = "second" /\ f = "import" /\ flow[f].outcome = "failed"
  \/ flow[f].at = "recover" /\ (flow[f].outcome # "done" \/ flow[f].answer = server)
Unpardoned == pardoned \subseteq {"twice"}
RuntimeIsComing == Unpardoned /\ Loaded => page.runtime = server \/ \E f \in Flows : Owes(f)
SettingsAreComing ==
  Unpardoned /\ Loaded =>
    \/ page.settings = server.settings
    \/ /\ flow["save"].at = "first" /\ flow["save"].outcome = "done"
       /\ flow["save"].answer.settings = server.settings

PageInv ==
  PageTypeOK /\ SnapshotsAreOld /\ ReadOnce /\ RuntimeIsComing /\ SettingsAreComing /\ DatabaseIsBusy
-----------------------------------------------------------------------------
LEMMA SnapshotFacts ==
  /\ NotRead \notin Snapshots /\ NotRead.settings = -1
  /\ \A a \in Snapshots : a.settings \in Nat /\ a.runs \in Nat /\ Older(a, a)
  /\ \A a, b \in Snapshots : Older(a, b) /\ Older(b, a) => a = b
  /\ \A a, b, c \in Snapshots : Older(a, b) /\ Older(b, c) => Older(a, c)
  BY DEF NotRead, Snapshots, Older

LEMMA RestFacts ==
  /\ AtRest \in FlowStates /\ AtRest.at = "rest" /\ AtRest.outcome = "none" /\ AtRest.answer = NotRead
  /\ \A x : LET k == [AtRest EXCEPT !.at = x]
            IN /\ k.at = x /\ k.outcome = "none" /\ k.answer = NotRead
               /\ x \in {"rest", "dialog", "first", "second", "recover"} => k \in FlowStates
               /\ x = "rest" => k = AtRest
<1>1. AtRest \in FlowStates /\ AtRest.at = "rest" /\ AtRest.outcome = "none" /\ AtRest.answer = NotRead
  BY DEF AtRest, FlowStates
<1>2. ASSUME NEW x
      PROVE  LET k == [AtRest EXCEPT !.at = x]
             IN /\ k.at = x /\ k.outcome = "none" /\ k.answer = NotRead
                /\ x \in {"rest", "dialog", "first", "second", "recover"} => k \in FlowStates
                /\ x = "rest" => k = AtRest
  BY DEF AtRest, FlowStates
<1> QED BY <1>1, <1>2

LEMMA AwaitsFacts ==
  ASSUME PageTypeOK, NEW f \in Flows, NEW x \in {"rest", "dialog", "first", "second", "recover"}, awaits(f, x)
  PROVE  /\ flow' \in [Flows -> FlowStates]
         /\ flow'[f].at = x /\ flow'[f].outcome = "none" /\ (x = "rest" => flow'[f] = AtRest)
         /\ \A g \in Flows : g # f => flow'[g] = flow[g]
<1> DEFINE k == [AtRest EXCEPT !.at = x]
<1>1. k.at = x /\ k.outcome = "none" /\ k \in FlowStates /\ (x = "rest" => k = AtRest)
  BY RestFacts
<1>2. flow' = [flow EXCEPT ![f] = k]
  BY DEF awaits
<1> HIDE DEF k
<1> QED BY <1>1, <1>2 DEF PageTypeOK

LEMMA PageInvInit == PageInit => PageInv
<1> SUFFICES ASSUME PageInit PROVE PageInv
  OBVIOUS
<1> DEFINE k == [AtRest EXCEPT !.at = "first"]
<1>1. k.at = "first" /\ k.outcome = "none" /\ k \in FlowStates
  BY RestFacts
<1>2. flow = [f \in Flows |-> IF f = "refresh" THEN k ELSE AtRest]
  BY DEF PageInit
<1> HIDE DEF k
<1>3. /\ flow \in [Flows -> FlowStates] /\ flow["refresh"].at = "first"
      /\ \A f \in Flows : flow[f].outcome = "none" /\ flow[f].at \in {"rest", "first"} /\ (f # "refresh" => flow[f] = AtRest)
  BY <1>1, <1>2, RestFacts DEF Flows
<1>4. server \in Snapshots /\ server.settings = 0
  BY DEF PageInit, Snapshots
<1>5. page = [settings |-> -1, runtime |-> NotRead]
  BY DEF PageInit, NotRead
<1>6. page \in PageStates /\ page.settings = -1 /\ page.runtime = NotRead
  BY <1>5 DEF PageStates
<1>7. ~Loaded
  BY <1>6 DEF Loaded, NotRead
<1>8. PageTypeOK
  BY <1>3, <1>4, <1>6 DEF PageInit, PageTypeOK
<1>9. SnapshotsAreOld
  BY <1>3, <1>4, <1>6 DEF SnapshotsAreOld
<1>10. ReadOnce
  BY <1>3, <1>5, <1>7 DEF ReadOnce
<1>11. DatabaseIsBusy
  BY <1>3, RestFacts DEF DatabaseIsBusy, Running, Database, Flows
<1> QED BY <1>7, <1>8, <1>9, <1>10, <1>11 DEF PageInv, RuntimeIsComing, SettingsAreComing

-----------------------------------------------------------------------------
OwesSettings ==
  flow["save"].at = "first" /\ flow["save"].outcome = "done" /\ flow["save"].answer.settings = server.settings

\* A function moves, or shows what it was answered: what is owed is still owed.
LEMMA StillComing ==
  ASSUME PageInv, NEW f \in Flows, Loaded, pardoned \subseteq pardoned', server' = server, PageTypeOK',
         \A g \in Flows : g # f => flow'[g] = flow[g],
         page'.settings <= server.settings, Unpardoned' => page.settings <= page'.settings,
         page'.runtime = page.runtime \/ (page'.runtime \in Snapshots /\ Older(page'.runtime, server)),
         Unpardoned' /\ page.runtime # NotRead => page'.runtime # NotRead /\ Older(page.runtime, page'.runtime),
         Unpardoned' /\ Owes(f) => Owes(f)' \/ page'.runtime = server,
         Unpardoned' /\ f = "save" /\ OwesSettings => OwesSettings' \/ page'.settings = server.settings
  PROVE  RuntimeIsComing' /\ SettingsAreComing'
<1>0. PageTypeOK /\ server \in Snapshots /\ page \in PageStates /\ page' \in PageStates
  BY DEF PageInv, PageTypeOK
<1>1. Unpardoned' => Unpardoned
  BY DEF Unpardoned
<1>2. ASSUME Unpardoned' PROVE page'.runtime = server \/ \E g \in Flows : Owes(g)'
  <2>1. CASE page.runtime = server
    <3>1. Older(page.runtime, page'.runtime) /\ page.runtime # NotRead
      BY <1>0, <1>2, <2>1, SnapshotFacts
    <3>2. page'.runtime = page.runtime \/ (page'.runtime \in Snapshots /\ Older(page'.runtime, page.runtime))
      BY <2>1
    <3>3. page'.runtime = page.runtime
      BY <1>0, <2>1, <3>1, <3>2, SnapshotFacts
    <3> QED BY <2>1, <3>3
  <2>2. CASE \E g \in Flows : Owes(g)
    <3>1. PICK g \in Flows : Owes(g)
      BY <2>2
    <3>2. CASE g = f
      BY <1>2, <3>1, <3>2
    <3>3. CASE g # f
      BY <3>1, <3>3 DEF Owes
    <3> QED BY <3>2, <3>3
  <2> QED BY <1>1, <1>2, <2>1, <2>2 DEF PageInv, RuntimeIsComing
<1>3. ASSUME Unpardoned' PROVE page'.settings = server.settings \/ OwesSettings'
  <2>1. CASE page.settings = server.settings
    BY <1>0, <1>3, <2>1 DEF PageStates, Snapshots
  <2>2. CASE OwesSettings
    <3>1. CASE f = "save"
      BY <1>3, <2>2, <3>1
    <3>2. CASE f # "save"
      BY <2>2, <3>2 DEF OwesSettings, Flows
    <3> QED BY <3>1, <3>2
  <2> QED BY <1>1, <1>3, <2>1, <2>2 DEF PageInv, SettingsAreComing, OwesSettings
<1> QED BY <1>2, <1>3 DEF RuntimeIsComing, SettingsAreComing, OwesSettings

\* The functions but the first reading: each moves alone, on a page that is loaded.
LEMMA FunctionMoves ==
  ASSUME PageInv, NEW f \in Flows \ {"refresh"}, NEW x \in {"rest", "dialog", "first", "second", "recover"},
         awaits(f, x), server' = server, Loaded, Loaded', page' \in PageStates,
         x = "recover" => f = "import", x = "dialog" => f \in Database,
         page'.settings <= server.settings, page'.runtime # NotRead => Older(page'.runtime, server)
  PROVE  /\ flow' \in [Flows -> FlowStates] /\ SnapshotsAreOld' /\ ReadOnce'
         /\ flow'[f].at = x /\ flow'[f].outcome = "none" /\ (x = "rest" => flow'[f] = AtRest)
         /\ \A g \in Flows : g # f => flow'[g] = flow[g]
<1>1. /\ flow' \in [Flows -> FlowStates]
      /\ flow'[f].at = x /\ flow'[f].outcome = "none" /\ (x = "rest" => flow'[f] = AtRest)
      /\ \A g \in Flows : g # f => flow'[g] = flow[g]
  BY AwaitsFacts DEF PageInv
<1>2. SnapshotsAreOld'
  BY <1>1 DEF PageInv, SnapshotsAreOld
<1>3. ReadOnce'
  <2>1. flow'["refresh"] = flow["refresh"]
    BY <1>1 DEF Flows
  <2>2. \A g \in Flows : /\ flow'[g].at = "recover" => g = "import"
                         /\ flow'[g].at = "dialog" => g \in Database
    BY <1>1 DEF PageInv, ReadOnce
  <2> QED BY <2>1, <2>2 DEF PageInv, ReadOnce
<1> QED BY <1>1, <1>2, <1>3

\* Before a function is called it owes nothing.
LEMMA QuietMoves ==
  ASSUME PageInv, NEW f \in Flows \ {"refresh"}, NEW x \in {"rest", "dialog", "first"}, awaits(f, x),
         UNCHANGED <<server, page>>, pardoned' \in {pardoned, pardoned \cup {"twice"}},
         databaseAction' \in {"none"} \cup Database, Loaded, flow[f].at \in {"rest", "dialog"}, DatabaseIsBusy',
         x = "dialog" => f \in Database
  PROVE  PageInv'
<1>0. PageTypeOK /\ Loaded'
  BY DEF PageInv, Loaded
<1>1. /\ flow' \in [Flows -> FlowStates] /\ SnapshotsAreOld' /\ ReadOnce'
      /\ \A g \in Flows : g # f => flow'[g] = flow[g]
  BY <1>0, FunctionMoves DEF PageInv, SnapshotsAreOld, PageTypeOK
<1>2. PageTypeOK'
  BY <1>0, <1>1 DEF PageTypeOK
<1>3. ~Owes(f) /\ (f = "save" => ~OwesSettings)
  BY DEF Owes, OwesSettings
<1>4. page.settings <= server.settings /\ page.settings <= page.settings
      /\ (page.runtime # NotRead => page.runtime \in Snapshots /\ Older(page.runtime, page.runtime))
  BY <1>0, SnapshotFacts DEF PageInv, SnapshotsAreOld, PageTypeOK, PageStates
<1>5. RuntimeIsComing' /\ SettingsAreComing'
  BY <1>1, <1>2, <1>3, <1>4, StillComing
<1> QED BY <1>1, <1>2, <1>5 DEF PageInv

LEMMA LoadedFlows ==
  ASSUME PageInv, NEW f \in Flows \ {"refresh"}, flow[f] # AtRest
  PROVE  Loaded
  BY DEF PageInv, ReadOnce

LEMMA beginsKeepPage ==
  ASSUME PageInv, NEW f \in Flows, beginFunction(f) \/ askFile(f) \/ dialogClosed(f)
  PROVE  PageInv'
<1>1. /\ f # "refresh" /\ UNCHANGED <<server, page, databaseAction, pardoned>>
      /\ flow[f].at \in {"rest", "dialog"} /\ Loaded
      /\ \E x \in {"rest", "dialog", "first"} : awaits(f, x) /\ (f \in Database => x # "first") /\ (x = "dialog" => f \in Database)
  <2>1. CASE beginFunction(f)
    BY <2>1, RestFacts DEF beginFunction, LocalServerConfiguration, LocalServerRuntime, Database
  <2>2. CASE askFile(f)
    BY <2>2, RestFacts DEF askFile, LocalServerDatabase, Database
  <2>3. CASE dialogClosed(f)
    <3>1. f # "refresh"
      BY <2>3 DEF dialogClosed, PageInv, ReadOnce, Database
    <3>2. Loaded
      BY <2>3, <3>1, LoadedFlows, RestFacts DEF dialogClosed
    <3> QED BY <2>3, <3>1, <3>2 DEF dialogClosed
  <2> QED BY <2>1, <2>2, <2>3
<1>2. PICK x \in {"rest", "dialog", "first"} : awaits(f, x) /\ (f \in Database => x # "first") /\ (x = "dialog" => f \in Database)
  BY <1>1
<1>3. flow'[f].at = x /\ \A g \in Flows : g # f => flow'[g] = flow[g]
  BY <1>2, AwaitsFacts DEF PageInv
<1>4. DatabaseIsBusy'
  <2>1. \A g \in Database : Running(g)' => Running(g)
    BY <1>2, <1>3 DEF Running, Database, Flows
  <2> QED BY <1>1, <2>1 DEF PageInv, DatabaseIsBusy
<1> QED BY <1>1, <1>2, <1>4, QuietMoves DEF PageInv, PageTypeOK

LEMMA fileChosenKeepsPage ==
  ASSUME PageInv, NEW f \in Flows, fileChosen(f)
  PROVE  PageInv'
<1>0. PageTypeOK /\ flow[f].at = "dialog" /\ awaits(f, "first") /\ databaseAction' = f /\ UNCHANGED <<server, page>>
      /\ pardoned' = pardoned \cup (IF databaseAction # "none" THEN {"twice"} ELSE {})
  BY DEF PageInv, fileChosen
<1>1. f \in Database /\ f \in Flows \ {"refresh"}
  BY <1>0 DEF PageInv, ReadOnce, Database
<1>2. Loaded
  BY <1>0, <1>1, LoadedFlows, RestFacts
<1>3. flow'[f].at = "first" /\ \A g \in Flows : g # f => flow'[g] = flow[g]
  BY <1>0, AwaitsFacts
<1>4. DatabaseIsBusy'
  <2> SUFFICES ASSUME "twice" \notin pardoned', NEW g \in Database, Running(g)' PROVE g = f
    BY <1>0 DEF DatabaseIsBusy
  <2>1. "twice" \notin pardoned /\ databaseAction = "none"
    BY <1>0
  <2>2. g # f => Running(g)
    BY <1>3 DEF Running, Database, Flows
  <2> QED BY <2>1, <2>2 DEF PageInv, DatabaseIsBusy, Database
<1>5. pardoned' \in {pardoned, pardoned \cup {"twice"}}
  BY <1>0
<1> QED BY <1>0, <1>1, <1>2, <1>4, <1>5, QuietMoves

LEMMA refreshKeepsPage ==
  ASSUME PageInv, refreshed \/ allRefreshed
  PROVE  PageInv'
<1>0. PageTypeOK /\ "refresh" \in Flows /\ UNCHANGED <<server, databaseAction, pardoned>>
  BY DEF PageInv, refreshed, allRefreshed, Flows
<1>1. /\ flow["refresh"].at \in {"first", "second"} /\ flow["refresh"] # AtRest
      /\ ~Loaded /\ page = [settings |-> -1, runtime |-> NotRead]
      /\ \A f \in Flows \ {"refresh"} : flow[f] = AtRest
  <2>1. flow["refresh"].at \in {"first", "second"} /\ flow["refresh"] # AtRest
    BY RestFacts DEF refreshed, allRefreshed, Answered
  <2> QED BY <2>1 DEF PageInv, ReadOnce
<1>2. PICK x \in {"rest", "second"} : awaits("refresh", x)
  BY DEF refreshed, allRefreshed
<1>3. /\ flow' \in [Flows -> FlowStates] /\ flow'["refresh"].outcome = "none" /\ flow'["refresh"].at = x
      /\ (x = "rest" => flow'["refresh"] = AtRest) /\ \A f \in Flows \ {"refresh"} : flow'[f] = AtRest
  BY <1>0, <1>1, <1>2, AwaitsFacts
<1>4. \/ page' = page
      \/ x = "rest" /\ page' = [settings |-> server.settings, runtime |-> server]
  <2>1. CASE refreshed
    BY <2>1 DEF refreshed
  <2>2. CASE allRefreshed
    <3>1. flow["refresh"].outcome # "failed" => flow["refresh"].answer = server
      BY <1>1, <2>2 DEF allRefreshed, Answered, PageInv, ReadOnce
    <3>2. flow'["refresh"].at = "rest"
      BY <1>0, <2>2, AwaitsFacts DEF allRefreshed
    <3> QED BY <1>3, <2>2, <3>1, <3>2 DEF allRefreshed
  <2> QED BY <2>1, <2>2
<1>5. server \in Snapshots /\ server.settings \in Nat
  BY <1>0, SnapshotFacts DEF PageTypeOK
<1>6. \/ page' = page /\ ~Loaded'
      \/ /\ x = "rest" /\ page'.settings = server.settings /\ page'.runtime = server /\ page' \in PageStates
         /\ Loaded' /\ flow'["refresh"] = AtRest
  BY <1>1, <1>3, <1>4, <1>5 DEF Loaded, PageStates, NotRead
<1>7. PageTypeOK'
  BY <1>0, <1>3, <1>6 DEF PageTypeOK
<1>8. SnapshotsAreOld'
  <2>1. \A f \in Flows : flow'[f].outcome = "none"
    BY <1>3, RestFacts
  <2>2. Older(server, server) /\ server.settings <= server.settings
    BY <1>5, SnapshotFacts
  <2>3. page.settings <= server.settings /\ (page.runtime # NotRead => Older(page.runtime, server))
    BY DEF PageInv, SnapshotsAreOld
  <2> QED BY <1>0, <1>6, <2>1, <2>2, <2>3 DEF SnapshotsAreOld
<1>9. ReadOnce'
  <2>1. \A f \in Flows : flow'[f].at \in {"rest", "second"} /\ flow'[f].outcome = "none"
    BY <1>3, RestFacts
  <2> QED BY <1>1, <1>3, <1>6, <2>1 DEF ReadOnce
<1>10. RuntimeIsComing' /\ SettingsAreComing'
  BY <1>0, <1>6 DEF RuntimeIsComing, SettingsAreComing
<1>11. DatabaseIsBusy'
  BY <1>3, RestFacts DEF DatabaseIsBusy, Running, Database, Flows
<1> QED BY <1>7, <1>8, <1>9, <1>10, <1>11 DEF PageInv

LEMMA executeKeepsPage ==
  ASSUME PageInv, NEW f \in Flows, execute(f)
  PROVE  PageInv'
<1>0. PageTypeOK /\ flow[f].at \in {"first", "second", "recover"} /\ flow[f].outcome = "none"
      /\ UNCHANGED <<page, databaseAction, pardoned>> /\ flow[f] # AtRest
  BY RestFacts DEF PageInv, execute
<1>1. PICK outcome \in {"done", "failed"} :
         /\ server' = IF flow[f].at = "first" THEN Effects(f, outcome = "failed") ELSE server
         /\ flow' = [flow EXCEPT ![f].outcome = outcome, ![f].answer = server']
  BY DEF execute
<1>2. /\ server' \in Snapshots /\ Older(server, server')
      /\ \/ server' = server
         \/ /\ flow[f].at = "first" /\ f \in {"save", "restart", "import"}
            /\ server'.settings = server.settings \/ (f = "save" /\ outcome = "done")
  <2>1. server \in Snapshots /\ server.settings \in Nat /\ server.runs \in Nat /\ Older(server, server)
    BY <1>0, SnapshotFacts DEF PageTypeOK
  <2>2. PICK e \in {server, [server EXCEPT !.settings = @ + 1], [server EXCEPT !.runs = @ + 1]} :
          /\ server' = e
          /\ e # server => flow[f].at = "first" /\ f \in {"save", "restart", "import"}
          /\ e = [server EXCEPT !.settings = @ + 1] /\ e # server => f = "save" /\ outcome = "done"
    <3>1. CASE flow[f].at # "first"
      BY <1>1, <3>1
    <3>2. CASE flow[f].at = "first" /\ f = "save" /\ outcome = "done"
      BY <1>1, <3>2 DEF Effects
    <3>3. CASE flow[f].at = "first" /\ f = "save" /\ outcome = "failed"
      <4>1. server' = [server EXCEPT !.runs = @ + 1]
        BY <1>1, <3>3 DEF Effects
      <4>2. [server EXCEPT !.runs = @ + 1] # [server EXCEPT !.settings = @ + 1]
        BY <2>1 DEF Snapshots
      <4> QED BY <3>3, <4>1, <4>2
    <3>4. CASE flow[f].at = "first" /\ f \in {"restart", "import"}
      <4>1. server' = [server EXCEPT !.runs = @ + 1]
        BY <1>1, <3>4 DEF Effects
      <4>2. [server EXCEPT !.runs = @ + 1] # [server EXCEPT !.settings = @ + 1]
        BY <2>1 DEF Snapshots
      <4> QED BY <3>4, <4>1, <4>2
    <3>5. CASE flow[f].at = "first" /\ f \in {"refresh", "export"}
      BY <1>1, <3>5 DEF Effects
    <3> QED BY <1>1, <3>1, <3>2, <3>3, <3>4, <3>5 DEF Flows
  <2>3. CASE e = server
    BY <2>1, <2>2, <2>3
  <2>4. CASE e # server /\ e = [server EXCEPT !.settings = @ + 1]
    <3>1. e \in Snapshots /\ Older(server, e)
      BY <2>1, <2>4 DEF Snapshots, Older
    <3> QED BY <2>2, <2>4, <3>1
  <2>5. CASE e # server /\ e = [server EXCEPT !.runs = @ + 1]
    <3>1. e \in Snapshots /\ Older(server, e) /\ e.settings = server.settings
      BY <2>1, <2>5 DEF Snapshots, Older
    <3> QED BY <2>2, <2>5, <3>1
  <2> QED BY <2>2, <2>3, <2>4, <2>5
<1>3. /\ flow' \in [Flows -> FlowStates] /\ flow'[f].outcome = outcome /\ flow'[f].answer = server'
      /\ flow'[f].at = flow[f].at /\ \A g \in Flows : g # f => flow'[g] = flow[g]
  BY <1>0, <1>1, <1>2 DEF PageTypeOK, FlowStates
<1>4. PageTypeOK'
  BY <1>0, <1>2, <1>3 DEF PageTypeOK
<1>5. server \in Snapshots /\ page \in PageStates /\ server.settings <= server'.settings
  BY <1>0, <1>2 DEF PageTypeOK, Older
<1>6. \A a \in Snapshots : Older(a, server) => Older(a, server')
  BY <1>2, <1>5, SnapshotFacts
<1>7. SnapshotsAreOld'
  <2>1. page.settings <= server'.settings
    BY <1>2, <1>5 DEF PageInv, SnapshotsAreOld, PageStates, Snapshots
  <2>2. page.runtime # NotRead => Older(page.runtime, server')
    BY <1>5, <1>6 DEF PageInv, SnapshotsAreOld, PageStates
  <2>3. ASSUME NEW g \in Flows, flow'[g].outcome # "none"
        PROVE  flow'[g].answer \in Snapshots /\ Older(flow'[g].answer, server')
    <3>1. CASE g = f
      BY <1>2, <1>3, <3>1, SnapshotFacts
    <3>2. CASE g # f
      BY <1>3, <1>6, <2>3, <3>2 DEF PageInv, SnapshotsAreOld
    <3> QED BY <3>1, <3>2
  <2> QED BY <1>0, <2>1, <2>2, <2>3 DEF SnapshotsAreOld
<1>8. Loaded' <=> Loaded
  BY <1>0 DEF Loaded
<1>9. f # "refresh" => Loaded
  BY <1>0, LoadedFlows
<1>10. ReadOnce'
  <2>1. \A g \in Flows : flow'[g].at = flow[g].at
    BY <1>3
  <2>2. Loaded => flow'["refresh"] = AtRest
    BY <1>0, <1>3 DEF PageInv, ReadOnce, Flows
  <2>3. ~Loaded => /\ page' = [settings |-> -1, runtime |-> NotRead]
                   /\ \A g \in Flows \ {"refresh"} : flow'[g] = AtRest
    BY <1>0, <1>3, <1>9 DEF PageInv, ReadOnce
  <2>4. flow'["refresh"].at = "second" /\ flow'["refresh"].outcome = "done" => flow'["refresh"].answer = server'
    <3>1. CASE f = "refresh"
      BY <1>3, <3>1
    <3>2. CASE f # "refresh"
      BY <1>8, <1>9, <2>2, <3>2, RestFacts
    <3> QED BY <3>1, <3>2
  <2> QED BY <1>8, <2>1, <2>2, <2>3, <2>4 DEF PageInv, ReadOnce
<1>11. RuntimeIsComing'
  <2> SUFFICES ASSUME Unpardoned, Loaded PROVE page.runtime = server' \/ \E g \in Flows : Owes(g)'
    BY <1>0, <1>8 DEF RuntimeIsComing, Unpardoned
  <2>1. CASE server' # server
    <3>1. Owes(f)'
      BY <1>2, <1>3, <2>1 DEF Owes
    <3> QED BY <3>1
  <2>2. CASE server' = server
    <3>1. CASE page.runtime = server
      BY <2>2, <3>1
    <3>2. CASE \E g \in Flows : Owes(g)
      <4>1. PICK g \in Flows : Owes(g)
        BY <3>2
      <4>2. CASE g = f
        <5>1. Owes(f)'
          BY <1>0, <1>3, <2>2, <4>1, <4>2 DEF Owes
        <5> QED BY <5>1
      <4>3. CASE g # f
        <5>1. Owes(g)'
          BY <1>3, <2>2, <4>1, <4>3 DEF Owes
        <5> QED BY <5>1
      <4> QED BY <4>2, <4>3
    <3> QED BY <3>1, <3>2 DEF PageInv, RuntimeIsComing
  <2> QED BY <2>1, <2>2
<1>12. SettingsAreComing'
  <2> SUFFICES ASSUME Unpardoned, Loaded PROVE page.settings = server'.settings \/ OwesSettings'
    BY <1>0, <1>8 DEF SettingsAreComing, Unpardoned, OwesSettings
  <2>1. CASE f = "save" /\ outcome = "done" /\ flow[f].at = "first"
    BY <1>3, <2>1 DEF OwesSettings
  <2>2. CASE ~(f = "save" /\ outcome = "done" /\ flow[f].at = "first")
    <3>1. server'.settings = server.settings
      BY <1>2, <2>2
    <3>2. OwesSettings => f # "save"
      BY <1>0 DEF OwesSettings
    <3>3. OwesSettings => OwesSettings'
      BY <1>3, <3>1, <3>2 DEF OwesSettings, Flows
    <3> QED BY <3>1, <3>3 DEF PageInv, SettingsAreComing, OwesSettings
  <2> QED BY <2>1, <2>2
<1>13. DatabaseIsBusy'
  <2>1. \A g \in Flows : flow'[g].at = flow[g].at
    BY <1>3
  <2>2. \A g \in Database : Running(g)' <=> Running(g)
    BY <2>1 DEF Running, Database, Flows
  <2> QED BY <1>0, <2>2 DEF PageInv, DatabaseIsBusy
<1> QED BY <1>4, <1>7, <1>10, <1>11, <1>12, <1>13 DEF PageInv

-----------------------------------------------------------------------------
\* What is presented is not older than what was shown, or it is noted.
LEMMA PresentFacts ==
  ASSUME PageInv, Loaded, NEW what \in {"settings", "runtime", "nothing"}, NEW answer \in Snapshots,
         Older(answer, server), present(what, answer)
  PROVE  /\ page' \in PageStates /\ pardoned \subseteq pardoned' /\ pardoned' \subseteq pardoned \cup {"crossed"}
         /\ page'.settings <= server.settings /\ Loaded'
         /\ Unpardoned' => page.settings <= page'.settings
         /\ page'.runtime = page.runtime \/ (page'.runtime \in Snapshots /\ Older(page'.runtime, server))
         /\ Unpardoned' /\ page.runtime # NotRead => page'.runtime # NotRead /\ Older(page.runtime, page'.runtime)
         /\ what = "settings" => page'.settings = answer.settings
         /\ what = "runtime" => page'.runtime = answer
<1>0. page \in PageStates /\ server \in Snapshots /\ page.settings <= server.settings
      /\ page.settings \in Nat /\ answer.settings \in Nat /\ server.settings \in Nat /\ answer.settings <= server.settings
      /\ page.runtime \in Snapshots \cup {NotRead}
  BY SnapshotFacts DEF PageInv, PageTypeOK, SnapshotsAreOld, Loaded, PageStates, Older
<1>1. pardoned \subseteq pardoned' /\ pardoned' \subseteq pardoned \cup {"crossed"}
  BY DEF present
<1>2. Unpardoned' => "crossed" \notin pardoned'
  BY DEF Unpardoned
<1>3. page.runtime # NotRead => Older(page.runtime, page.runtime)
  BY <1>0, SnapshotFacts
<1>4. CASE what = "settings"
  <2>1. page' = [page EXCEPT !.settings = answer.settings]
    BY <1>4 DEF present
  <2>2. page' \in PageStates /\ page'.settings = answer.settings /\ page'.runtime = page.runtime
    BY <1>0, <2>1 DEF PageStates
  <2>3. answer.settings < page.settings => "crossed" \in pardoned'
    BY <1>4 DEF present
  <2>4. Loaded'
    BY <1>0, <2>2, SnapshotFacts DEF Loaded
  <2> QED BY <1>0, <1>1, <1>2, <1>3, <1>4, <2>2, <2>3, <2>4
<1>5. CASE what = "runtime"
  <2>1. page' = [page EXCEPT !.runtime = answer]
    BY <1>5 DEF present
  <2>2. page' \in PageStates /\ page'.settings = page.settings /\ page'.runtime = answer
    BY <1>0, <2>1 DEF PageStates
  <2>3. page.runtime # NotRead /\ (answer.settings < page.runtime.settings \/ answer.runs < page.runtime.runs)
          => "crossed" \in pardoned'
    BY <1>5 DEF present
  <2>4. Unpardoned' /\ page.runtime # NotRead => answer # NotRead /\ Older(page.runtime, answer)
    <3>1. page.runtime # NotRead => /\ page.runtime.settings \in Nat /\ page.runtime.runs \in Nat
                                    /\ answer.settings \in Nat /\ answer.runs \in Nat
      BY <1>0, SnapshotFacts
    <3> QED BY <1>2, <2>3, <3>1, SnapshotFacts DEF Older
  <2>5. Loaded'
    BY <1>0, <2>2, SnapshotFacts DEF Loaded
  <2> QED BY <1>0, <1>1, <1>5, <2>2, <2>4, <2>5
<1>6. CASE what = "nothing"
  <2>1. page' = page
    BY <1>6 DEF present
  <2>2. Loaded'
    BY <2>1 DEF Loaded
  <2> QED BY <1>0, <1>1, <1>3, <1>6, <2>1, <2>2
<1> QED BY <1>4, <1>5, <1>6

\* An answered function moves on: what it owed it has shown, or still owes.
LEMMA AnsweredMoves ==
  ASSUME PageInv, NEW f \in Flows \ {"refresh"}, Loaded, Loaded', NEW x \in {"rest", "second", "recover"}, awaits(f, x),
         x = "recover" => f = "import", server' = server, pardoned \subseteq pardoned',
         pardoned' \subseteq pardoned \cup {"crossed", "failed"}, page' \in PageStates,
         x # "rest" => databaseAction' = databaseAction,
         x = "rest" => databaseAction' = IF f \in Database THEN "none" ELSE databaseAction,
         page'.settings <= server.settings, Unpardoned' => page.settings <= page'.settings,
         page'.runtime \in {page.runtime, NotRead} \/ (page'.runtime \in Snapshots /\ Older(page'.runtime, server)),
         page'.runtime = NotRead /\ page.runtime # NotRead => ~Unpardoned',
         Unpardoned' /\ page.runtime # NotRead => page'.runtime # NotRead /\ Older(page.runtime, page'.runtime),
         Unpardoned' /\ Owes(f) /\ x = "rest" => page'.runtime = server,
         Unpardoned' /\ Owes(f) /\ x = "second" => f \in {"save", "restart"} \/ page'.runtime = server,
         Unpardoned' /\ f = "save" /\ OwesSettings => page'.settings = server.settings,
         flow[f].at \in {"first", "second", "recover"}
  PROVE  PageInv'
<1>0. PageTypeOK /\ page \in PageStates /\ server \in Snapshots
  BY DEF PageInv, PageTypeOK
<1>1. page'.runtime # NotRead => Older(page'.runtime, server)
  BY DEF PageInv, SnapshotsAreOld
<1>2. /\ flow' \in [Flows -> FlowStates] /\ SnapshotsAreOld' /\ ReadOnce'
      /\ flow'[f].at = x /\ flow'[f].outcome = "none" /\ (x = "rest" => flow'[f] = AtRest)
      /\ \A g \in Flows : g # f => flow'[g] = flow[g]
  BY <1>0, <1>1, FunctionMoves
<1>3. PageTypeOK'
  BY <1>0, <1>2 DEF PageTypeOK
<1>4. Unpardoned' /\ Owes(f) => Owes(f)' \/ page'.runtime = server
  <2>1. x = "second" /\ f \in {"save", "restart"} => Owes(f)'
    BY <1>2 DEF Owes
  <2>2. x = "recover" => Owes(f)'
    BY <1>2 DEF Owes
  <2> QED BY <2>1, <2>2
<1>5. RuntimeIsComing' /\ SettingsAreComing'
  <2>1. CASE Unpardoned'
    <3>1. page'.runtime = page.runtime \/ (page'.runtime \in Snapshots /\ Older(page'.runtime, server))
      BY <2>1
    <3> QED BY <1>2, <1>3, <1>4, <2>1, <3>1, StillComing
  <2>2. CASE ~Unpardoned'
    BY <2>2 DEF RuntimeIsComing, SettingsAreComing
  <2> QED BY <2>1, <2>2
<1>6. DatabaseIsBusy'
  <2> SUFFICES ASSUME "twice" \notin pardoned', NEW g \in Database, Running(g)' PROVE databaseAction' = g
    BY DEF DatabaseIsBusy
  <2>1. Running(g) /\ (g = f => x # "rest")
    BY <1>2 DEF Running, Database, Flows
  <2>2. databaseAction = g
    BY <2>1 DEF PageInv, DatabaseIsBusy
  <2>3. f \in Database => databaseAction = f
    BY DEF PageInv, DatabaseIsBusy, Running
  <2> QED BY <2>1, <2>2, <2>3
<1> QED BY <1>2, <1>3, <1>5, <1>6 DEF PageInv

LEMMA firstSucceedsKeepsPage ==
  ASSUME PageInv, NEW f \in Flows, firstSucceeds(f)
  PROVE  PageInv'
<1> DEFINE what == CASE f = "save" -> "settings" [] f = "import" -> "runtime" [] OTHER -> "nothing"
<1>0. f # "refresh" /\ flow[f].at = "first" /\ flow[f].outcome = "done" /\ present(what, flow[f].answer)
      /\ awaits(f, "second") /\ UNCHANGED <<server, databaseAction>>
  BY DEF firstSucceeds, Answered
<1>1. what \in {"settings", "runtime", "nothing"} /\ (f = "save" => what = "settings") /\ (f = "import" => what = "runtime")
  OBVIOUS
<1> HIDE DEF what
<1>2. Loaded /\ flow[f].answer \in Snapshots /\ Older(flow[f].answer, server)
  BY <1>0, LoadedFlows, RestFacts DEF PageInv, SnapshotsAreOld
<1>3. /\ page' \in PageStates /\ pardoned \subseteq pardoned' /\ pardoned' \subseteq pardoned \cup {"crossed"}
      /\ page'.settings <= server.settings /\ Loaded'
      /\ Unpardoned' => page.settings <= page'.settings
      /\ page'.runtime = page.runtime \/ (page'.runtime \in Snapshots /\ Older(page'.runtime, server))
      /\ Unpardoned' /\ page.runtime # NotRead => page'.runtime # NotRead /\ Older(page.runtime, page'.runtime)
      /\ what = "settings" => page'.settings = flow[f].answer.settings
      /\ what = "runtime" => page'.runtime = flow[f].answer
  BY <1>0, <1>1, <1>2, PresentFacts
<1>4. Owes(f) => f \in {"save", "restart"} \/ page'.runtime = server
  BY <1>0, <1>1, <1>3 DEF Owes
<1>5. f = "save" /\ OwesSettings => page'.settings = server.settings
  BY <1>1, <1>3 DEF OwesSettings
<1>6. page'.runtime = NotRead /\ page.runtime # NotRead => ~Unpardoned'
  BY <1>3
<1> QED BY <1>0, <1>2, <1>3, <1>4, <1>5, <1>6, AnsweredMoves

LEMMA secondSucceedsKeepsPage ==
  ASSUME PageInv, NEW f \in Flows, secondSucceeds(f)
  PROVE  PageInv'
<1> DEFINE what == IF f = "import" THEN "settings" ELSE "runtime"
<1>0. f # "refresh" /\ flow[f].at = "second" /\ flow[f].outcome = "done" /\ present(what, flow[f].answer)
      /\ awaits(f, "rest") /\ server' = server
      /\ databaseAction' = IF f \in Database THEN "none" ELSE databaseAction
  BY DEF secondSucceeds, Answered, functionOver
<1>1. what \in {"settings", "runtime", "nothing"} /\ (f # "import" => what = "runtime")
  OBVIOUS
<1> HIDE DEF what
<1>2. Loaded /\ flow[f].answer \in Snapshots /\ Older(flow[f].answer, server)
  BY <1>0, LoadedFlows, RestFacts DEF PageInv, SnapshotsAreOld
<1>3. /\ page' \in PageStates /\ pardoned \subseteq pardoned' /\ pardoned' \subseteq pardoned \cup {"crossed"}
      /\ page'.settings <= server.settings /\ Loaded'
      /\ Unpardoned' => page.settings <= page'.settings
      /\ page'.runtime = page.runtime \/ (page'.runtime \in Snapshots /\ Older(page'.runtime, server))
      /\ Unpardoned' /\ page.runtime # NotRead => page'.runtime # NotRead /\ Older(page.runtime, page'.runtime)
      /\ what = "runtime" => page'.runtime = flow[f].answer
  BY <1>0, <1>1, <1>2, PresentFacts
<1>4. Owes(f) => page'.runtime = server
  BY <1>0, <1>1, <1>3 DEF Owes
<1>5. ~(f = "save" /\ OwesSettings)
  BY <1>0 DEF OwesSettings
<1>6. page'.runtime = NotRead /\ page.runtime # NotRead => ~Unpardoned'
  BY <1>3
<1> QED BY <1>0, <1>2, <1>3, <1>4, <1>5, <1>6, AnsweredMoves

LEMMA functionFailsKeepsPage ==
  ASSUME PageInv, NEW f \in Flows, functionFails(f)
  PROVE  PageInv'
<1>0. f # "refresh" /\ flow[f].at \in {"first", "second"} /\ flow[f].outcome = "failed" /\ UNCHANGED <<server, page>>
  BY DEF functionFails, Answered
<1>1. Loaded /\ Loaded' /\ page \in PageStates /\ page.settings <= server.settings /\ page.settings <= page.settings
      /\ (page.runtime # NotRead => page.runtime \in Snapshots /\ Older(page.runtime, page.runtime))
      /\ databaseAction \in {"none"} \cup Database
  <2>1. Loaded
    BY <1>0, LoadedFlows, RestFacts
  <2> QED BY <1>0, <2>1, SnapshotFacts DEF PageInv, SnapshotsAreOld, Loaded, PageTypeOK, PageStates
<1>2. ~(f = "save" /\ OwesSettings)
  BY <1>0 DEF OwesSettings
<1>3. CASE f = "import"
  <2>1. awaits(f, "recover") /\ UNCHANGED <<databaseAction, pardoned>>
    BY <1>3 DEF functionFails
  <2> QED BY <1>0, <1>1, <1>2, <1>3, <2>1, AnsweredMoves
<1>4. CASE f # "import"
  <2>1. awaits(f, "rest") /\ (databaseAction' = IF f \in Database THEN "none" ELSE databaseAction)
        /\ pardoned' = IF f = "export" /\ flow[f].at = "first" THEN pardoned ELSE pardoned \cup {"failed"}
    BY <1>4 DEF functionFails, functionOver
  <2>2. Unpardoned' => ~Owes(f)
    BY <1>0, <1>4, <2>1 DEF Unpardoned, Owes
  <2> QED BY <1>0, <1>1, <1>2, <1>4, <2>1, <2>2, AnsweredMoves
<1> QED BY <1>3, <1>4

LEMMA recoveredKeepsPage ==
  ASSUME PageInv, NEW f \in Flows, recovered(f)
  PROVE  PageInv'
<1>0. /\ flow[f].at = "recover" /\ flow[f].outcome \in {"done", "failed"} /\ f = "import" /\ server' = server
      /\ awaits(f, "rest") /\ databaseAction' = IF f \in Database THEN "none" ELSE databaseAction
  BY DEF recovered, Answered, functionOver, PageInv, ReadOnce
<1>1. Loaded /\ flow[f].answer \in Snapshots /\ Older(flow[f].answer, server) /\ page \in PageStates
      /\ page.settings <= server.settings /\ page.settings <= page.settings
  <2>1. Loaded
    BY <1>0, LoadedFlows, RestFacts
  <2>2. page \in PageStates /\ page.settings <= page.settings
    BY DEF PageInv, PageTypeOK, PageStates
  <2> QED BY <1>0, <2>1, <2>2 DEF PageInv, SnapshotsAreOld
<1>2. ~(f = "save" /\ OwesSettings)
  BY <1>0
<1>3. CASE flow[f].outcome = "failed"
  <2>1. page' = [page EXCEPT !.runtime = NotRead] /\ pardoned' = pardoned \cup {"failed"}
    BY <1>3 DEF recovered
  <2>2. page' \in PageStates /\ page'.settings = page.settings /\ page'.runtime = NotRead /\ ~Unpardoned'
    BY <1>1, <2>1 DEF PageStates, Unpardoned
  <2>3. Loaded'
    BY <1>1, <2>2 DEF Loaded
  <2> QED BY <1>0, <1>1, <1>2, <2>1, <2>2, <2>3, AnsweredMoves
<1>4. CASE flow[f].outcome # "failed"
  <2>1. present("runtime", flow[f].answer)
    BY <1>4 DEF recovered
  <2>2. /\ page' \in PageStates /\ pardoned \subseteq pardoned' /\ pardoned' \subseteq pardoned \cup {"crossed"}
        /\ page'.settings <= server.settings /\ Loaded'
        /\ Unpardoned' => page.settings <= page'.settings
        /\ page'.runtime = page.runtime \/ (page'.runtime \in Snapshots /\ Older(page'.runtime, server))
        /\ Unpardoned' /\ page.runtime # NotRead => page'.runtime # NotRead /\ Older(page.runtime, page'.runtime)
        /\ page'.runtime = flow[f].answer
    BY <1>1, <2>1, PresentFacts
  <2>3. Owes(f) => page'.runtime = server
    BY <1>0, <1>4, <2>2 DEF Owes
  <2>4. page'.runtime = NotRead /\ page.runtime # NotRead => ~Unpardoned'
    BY <2>2
  <2> QED BY <1>0, <1>1, <1>2, <2>2, <2>3, <2>4, AnsweredMoves
<1> QED BY <1>3, <1>4

-----------------------------------------------------------------------------
LEMMA PageInvNext == PageInv /\ [PageNext]_pageVars => PageInv'
<1> SUFFICES ASSUME PageInv, [PageNext]_pageVars PROVE PageInv'
  OBVIOUS
<1>1. CASE PageNext
  BY <1>1, refreshKeepsPage, executeKeepsPage, beginsKeepPage, fileChosenKeepsPage, firstSucceedsKeepsPage,
     secondSucceedsKeepsPage, functionFailsKeepsPage, recoveredKeepsPage DEF PageNext
<1>2. CASE UNCHANGED pageVars
  <2>1. UNCHANGED <<server, page, flow, databaseAction, pardoned>>
    BY <1>2 DEF pageVars
  <2>2. \A f : Owes(f)' <=> Owes(f)
    BY <2>1 DEF Owes
  <2>3. PageTypeOK' /\ SnapshotsAreOld' /\ ReadOnce'
    BY <2>1 DEF PageInv, PageTypeOK, SnapshotsAreOld, ReadOnce, Loaded
  <2>4. RuntimeIsComing' /\ SettingsAreComing' /\ DatabaseIsBusy'
    BY <2>1, <2>2 DEF PageInv, RuntimeIsComing, SettingsAreComing, DatabaseIsBusy, Unpardoned, Loaded, Running
  <2> QED BY <2>3, <2>4 DEF PageInv
<1> QED BY <1>1, <1>2

LEMMA PageInvIsTrue == PageInv => PageIsTrue
<1> SUFFICES ASSUME PageInv PROVE PageIsTrue
  OBVIOUS
<1>1. RestIsShown
  <2> SUFFICES ASSUME \A f \in Flows : flow[f] = AtRest, Loaded, Unpardoned
               PROVE  page.settings = server.settings /\ page.runtime = server
    BY DEF RestIsShown, Unpardoned
  <2>1. \A f \in Flows : ~Owes(f)
    BY RestFacts DEF Owes
  <2>2. flow["save"].at = "rest"
    BY RestFacts DEF Flows
  <2> QED BY <2>1, <2>2 DEF PageInv, RuntimeIsComing, SettingsAreComing
<1> QED BY <1>1 DEF PageInv, PageIsTrue

(* However many functions of the local server's page overlap, and in whatever *)
(* order their commands run and are answered: at rest the page shows what is  *)
(* saved and what runs, unless a snapshot overtook a newer one or a failure   *)
(* left what was shown, and the database is exported or imported once         *)
(* (local-server-page.tsx).                                                   *)
THEOREM PageIsAlwaysTrue == PageSpec => []PageIsTrue
<1>1. PageInit => PageInv
  BY PageInvInit
<1>2. PageInv /\ [PageNext]_pageVars => PageInv'
  BY PageInvNext
<1>3. PageInv => PageIsTrue
  BY PageInvIsTrue
<1> QED BY <1>1, <1>2, <1>3, PTL DEF PageSpec

-------------------------------------------------------------------------------
(* DesktopSync.                                                               *)

RunStages == {"validate", "native", "running", "done", "refused", "conflicts"}
EditStages == {"validate", "clear", "revoke", "save", "saved"}
RunEvents == [pair : Pairs, stage : {"started", "finished", "failed"}]

\* A call, whatever list it carries, and the stages of its sort.
IsCall(c) ==
  /\ c = [kind |-> c.kind, pair |-> c.pair, at |-> c.at, next |-> c.next]
  /\ c.kind \in {"none", "reset"} \cup Edits \cup Runs
  /\ c.kind = "none" => c.at = "none"
  /\ c.kind = "reset" => c.at = "clear"
  /\ c.kind \in Edits => c.at \in EditStages
  /\ c.kind \in Runs => c.at \in RunStages /\ c.pair \in Pairs
  /\ c.kind = "load" => c.at \in {"save", "saved"}
  /\ c.kind \in {"resolve", "remove"} => c.at # "validate"
  /\ c.at = "revoke" => c.kind = "remove"
  /\ c.at = "clear" => c.kind \in {"reset", "reselect", "remove"}

SyncTypeOK ==
  /\ ops = [o \in Ops |-> ops[o]] /\ \A o \in Ops : IsCall(ops[o])
  /\ active \in [Pairs -> {"none", "user", "scheduler"}]
  /\ running \subseteq Pairs
  /\ runEvents \in Seq(RunEvents)

\* The engine runs for the user what a call of the provider waits for.
Waits(o, p) == ops[o].at = "running" /\ ops[o].pair = p
UserRuns(p) ==
  /\ active[p] = "user" <=> \E o \in Ops : Waits(o, p)
  /\ \A o, q \in Ops : Waits(o, p) /\ Waits(q, p) => o = q

\* The events of a pair that are on their way: the start of its run, then its end.
Starts(i, p) == runEvents[i].pair = p /\ runEvents[i].stage = "started"
Ends(i, p) == runEvents[i].pair = p /\ runEvents[i].stage # "started"
Started(p) == \E i \in 1..Len(runEvents) : Starts(i, p)
Ended(p) == \E i \in 1..Len(runEvents) : Ends(i, p)
InOrder(p) ==
  \A i, j \in 1..Len(runEvents) : /\ Starts(i, p) /\ Starts(j, p) => i = j
                                  /\ Ends(i, p) /\ Ends(j, p) => i = j
                                  /\ Starts(i, p) /\ Ends(j, p) => i < j

\* A pair is run by one call and nobody else, or by the scheduler and nobody
\* else; then its mark follows the run by the events that are still on their way.
PairInv(p) ==
  /\ InOrder(p)
  /\ RunsOf(p) # {} =>
       /\ p \in running /\ ~Started(p) /\ ~Ended(p) /\ active[p] # "scheduler"
       /\ \A o, q \in RunsOf(p) : o = q
  /\ RunsOf(p) = {} =>
       /\ p \in running <=> (active[p] = "scheduler" \/ Ended(p)) /\ ~Started(p)
       /\ Ended(p) => active[p] = "none"
       /\ Started(p) => active[p] = "scheduler" \/ Ended(p)

\* One edit at a time has one list to write, and writes it before it counts.
EditInv ==
  ~raced => /\ \A o, q \in Editing : o = q
            /\ Editing = {} => ref = stored
            /\ \A o \in Editing : IF ops[o].at = "saved" THEN ops[o].next = stored
                                  ELSE ops[o].kind # "load" => ref = stored

PairsInv == \A p \in Pairs : UserRuns(p) /\ (p \notin excused => PairInv(p))
SyncInv == SyncTypeOK /\ PairsInv /\ EditInv

-----------------------------------------------------------------------------
(* Calls.                                                                      *)
NewCall(sort, p, place, next) == [kind |-> sort, pair |-> p, at |-> place, next |-> next]

LEMMA NewCallIs ==
  ASSUME NEW k, NEW p, NEW place, NEW n
  PROVE  LET c == NewCall(k, p, place, n) IN c.kind = k /\ c.pair = p /\ c.at = place /\ c.next = n
  BY DEF NewCall

LEMMA NoneIsCall == IsCall(None) /\ None.kind = "none" /\ None.at = "none"
  BY DEF IsCall, None, Edits, Runs

LEMMA BeginsCall ==
  ASSUME SyncTypeOK, NEW o \in Ops, NEW sort, NEW p, NEW place, NEW next, begin(o, sort, p, place, next),
         IsCall(NewCall(sort, p, place, next))
  PROVE  /\ ops' = [q \in Ops |-> ops'[q]] /\ (\A q \in Ops : IsCall(ops'[q]))
         /\ ops[o].kind = "none" /\ ops[o].at = "none"
         /\ ops'[o].kind = sort /\ ops'[o].pair = p /\ ops'[o].at = place /\ ops'[o].next = next
         /\ \A q \in Ops : q # o => ops'[q] = ops[q]
<1>1. ops' = [ops EXCEPT ![o] = NewCall(sort, p, place, next)] /\ ops[o] = None
  BY DEF begin, NewCall
<1>2. NewCall(sort, p, place, next).kind = sort /\ NewCall(sort, p, place, next).pair = p
      /\ NewCall(sort, p, place, next).at = place /\ NewCall(sort, p, place, next).next = next
  BY DEF NewCall
<1>3. ops'[o] = NewCall(sort, p, place, next) /\ (\A q \in Ops : q # o => ops'[q] = ops[q])
      /\ ops' = [q \in Ops |-> ops'[q]]
  BY <1>1 DEF SyncTypeOK
<1> QED BY <1>1, <1>2, <1>3, NoneIsCall DEF SyncTypeOK

LEMMA CallGoes ==
  ASSUME SyncTypeOK, NEW o \in Ops, NEW place, goto(o, place)
  PROVE  /\ ops' = [q \in Ops |-> ops'[q]]
         /\ ops'[o] = NewCall(ops[o].kind, ops[o].pair, place, ops[o].next)
         /\ ops'[o].kind = ops[o].kind /\ ops'[o].pair = ops[o].pair /\ ops'[o].at = place
         /\ ops'[o].next = ops[o].next
         /\ \A q \in Ops : q # o => ops'[q] = ops[q]
<1> DEFINE c == ops[o]
<1>1. c = [kind |-> c.kind, pair |-> c.pair, at |-> c.at, next |-> c.next]
  BY DEF SyncTypeOK, IsCall
<1>2. ops' = [ops EXCEPT ![o] = [c EXCEPT !.at = place]]
  BY DEF goto
<1>3. ops'[o] = [c EXCEPT !.at = place] /\ (\A q \in Ops : q # o => ops'[q] = ops[q])
      /\ ops' = [q \in Ops |-> ops'[q]]
  BY <1>2 DEF SyncTypeOK
<1> HIDE DEF c
<1>4. [c EXCEPT !.at = place] = NewCall(c.kind, c.pair, place, c.next)
  BY <1>1 DEF NewCall
<1>5. ops'[o] = NewCall(ops[o].kind, ops[o].pair, place, ops[o].next)
  BY <1>3, <1>4 DEF c
<1> HIDE DEF c
<1>6. ops'[o].kind = c.kind /\ ops'[o].pair = c.pair /\ ops'[o].at = place /\ ops'[o].next = c.next
  BY <1>3, <1>4, NewCallIs
<1> QED BY <1>3, <1>5, <1>6 DEF c

LEMMA CallEnds ==
  ASSUME SyncTypeOK, NEW o \in Ops, over(o)
  PROVE  /\ ops' = [q \in Ops |-> ops'[q]] /\ (\A q \in Ops : IsCall(ops'[q]))
         /\ ops'[o].kind = "none" /\ ops'[o].at = "none"
         /\ \A q \in Ops : q # o => ops'[q] = ops[q]
<1>1. ops' = [ops EXCEPT ![o] = None]
  BY DEF over
<1>2. ops'[o] = None /\ (\A q \in Ops : q # o => ops'[q] = ops[q]) /\ ops' = [q \in Ops |-> ops'[q]]
  BY <1>1 DEF SyncTypeOK
<1> QED BY <1>2, NoneIsCall DEF SyncTypeOK

\* The pairs are not concerned where no run begins, ends or reaches the engine.
LEMMA PairsUndisturbed ==
  ASSUME SyncTypeOK, PairsInv, UNCHANGED <<running, active, runEvents, excused>>,
         \A q \in Ops : /\ ops'[q].kind \in Runs <=> ops[q].kind \in Runs
                        /\ ops[q].kind \in Runs => ops'[q].pair = ops[q].pair
                        /\ ops'[q].at = "running" <=> ops[q].at = "running"
  PROVE  PairsInv'
<1>1. \A q \in Ops : ops[q].at = "running" => ops[q].kind \in Runs
  BY DEF SyncTypeOK, IsCall, EditStages, Edits, Runs
<1>2. \A p \in Pairs : RunsOf(p)' = RunsOf(p)
  BY DEF RunsOf
<1>3. \A p \in Pairs, q \in Ops : Waits(q, p)' <=> Waits(q, p)
  BY <1>1 DEF Waits
<1>4. \A p \in Pairs : /\ Started(p)' <=> Started(p)
                       /\ Ended(p)' <=> Ended(p)
                       /\ InOrder(p)' <=> InOrder(p)
  BY DEF Started, Ended, InOrder, Starts, Ends
<1>5. ASSUME NEW p \in Pairs PROVE UserRuns(p)'
  BY <1>3 DEF PairsInv, UserRuns
<1>6. ASSUME NEW p \in Pairs, p \notin excused' PROVE PairInv(p)'
  BY <1>2, <1>4, <1>6 DEF PairsInv, PairInv
<1> QED BY <1>5, <1>6 DEF PairsInv

\* Nor are the edits, where none begins or ends, or writes its list.
LEMMA EditsUndisturbed ==
  ASSUME EditInv, UNCHANGED <<ref, stored>>, raced' <=> raced,
         \A q \in Ops : /\ ops'[q].kind \in Edits <=> ops[q].kind \in Edits
                        /\ ops[q].kind \in Edits =>
                             /\ ops'[q].kind = ops[q].kind
                             /\ ops'[q].at = "saved" <=> ops[q].at = "saved"
                             /\ ops[q].at = "saved" => ops'[q].next = ops[q].next
  PROVE  EditInv'
<1>1. Editing' = Editing
  BY DEF Editing
<1>2. \A q \in Editing : ops[q].kind \in Edits /\ q \in Ops
  BY DEF Editing
<1>3. ASSUME NEW o \in Editing', ~raced'
      PROVE  IF ops'[o].at = "saved" THEN ops'[o].next = stored' ELSE ops'[o].kind # "load" => ref' = stored'
  BY <1>1, <1>2, <1>3 DEF EditInv
<1>4. ~raced' => (\A o, q \in Editing' : o = q) /\ (Editing' = {} => ref' = stored')
  BY <1>1 DEF EditInv
<1> QED BY <1>3, <1>4 DEF EditInv

-----------------------------------------------------------------------------
(* Edits, resets, and what is outside of the calls.                            *)

\* A call that is no run begins.
LEMMA BegunKeepsPairs ==
  ASSUME SyncInv, NEW o \in Ops, NEW sort \in Edits \cup {"reset"}, NEW p \in Pairs, NEW place, NEW next,
         begin(o, sort, p, place, next), IsCall(NewCall(sort, p, place, next)),
         UNCHANGED <<running, active, runEvents, excused>>
  PROVE  SyncTypeOK' /\ PairsInv'
<1>0. SyncTypeOK /\ PairsInv
  BY DEF SyncInv
<1>1. /\ ops' = [q \in Ops |-> ops'[q]] /\ (\A q \in Ops : IsCall(ops'[q]))
      /\ ops[o].kind = "none" /\ ops[o].at = "none"
      /\ ops'[o].kind = sort /\ ops'[o].at = place
      /\ \A q \in Ops : q # o => ops'[q] = ops[q]
  BY <1>0, BeginsCall
<1>2. SyncTypeOK'
  BY <1>0, <1>1 DEF SyncTypeOK
<1>3. IsCall(ops'[o])
  BY <1>1
<1>4. place # "running" /\ sort \notin Runs /\ ops[o].kind \notin Runs
  BY <1>1, <1>3 DEF IsCall, Edits, Runs, EditStages
<1>5. \A q \in Ops : /\ ops'[q].kind \in Runs <=> ops[q].kind \in Runs
                     /\ ops[q].kind \in Runs => ops'[q].pair = ops[q].pair
                     /\ ops'[q].at = "running" <=> ops[q].at = "running"
  BY <1>1, <1>4
<1>6. PairsInv'
  BY <1>0, <1>5, PairsUndisturbed
<1> QED BY <1>2, <1>6

\* An edit begins alone, with the list that is stored, or is excused.
LEMMA BegunEdit ==
  ASSUME SyncInv, NEW o \in Ops, NEW sort \in Edits \ {"load"}, NEW p \in Pairs, NEW place, NEW next,
         begin(o, sort, p, place, next), IsCall(NewCall(sort, p, place, next)), place # "saved",
         UNCHANGED <<ref, stored, running, active, runEvents, excused>>,
         raced' <=> (Editing # {} \/ ref # stored)
  PROVE  SyncInv'
<1>0. SyncTypeOK
  BY DEF SyncInv
<1>1. /\ ops'[o].kind = sort /\ ops'[o].at = place
      /\ \A q \in Ops : q # o => ops'[q] = ops[q]
  BY <1>0, BeginsCall
<1>2. SyncTypeOK' /\ PairsInv'
  BY BegunKeepsPairs
<1>3. ASSUME ~raced' PROVE Editing' = {o} /\ ref' = stored'
  BY <1>1, <1>3 DEF Editing
<1>4. EditInv'
  BY <1>1, <1>3 DEF EditInv
<1> QED BY <1>2, <1>4 DEF SyncInv

LEMMA editKeepsInv ==
  ASSUME SyncInv, NEW o \in Ops, NEW p \in Pairs, addPair(o, p) \/ updatePair(o, p)
  PROVE  SyncInv'
<1>1. PICK sort \in {"add", "update", "reselect"}, version \in Nat : edit(o, p, sort, version)
  BY SyncAssumption DEF addPair, updatePair
<1> DEFINE next == [ref EXCEPT ![p] = version]
<1>2. /\ begin(o, sort, p, "validate", next)
      /\ UNCHANGED <<ref, stored, running, active, runEvents, excused>>
      /\ raced' <=> (Editing # {} \/ ref # stored)
  BY <1>1 DEF edit
<1> HIDE DEF next
<1>3. IsCall(NewCall(sort, p, "validate", next))
  BY NewCallIs DEF IsCall, NewCall, Edits, Runs, EditStages
<1> QED BY <1>2, <1>3, BegunEdit DEF Edits

LEMMA removePairKeepsInv ==
  ASSUME SyncInv, NEW o \in Ops, NEW p \in Pairs, removePair(o, p)
  PROVE  SyncInv'
<1>1. /\ begin(o, "remove", p, "clear", <<>>)
      /\ UNCHANGED <<ref, stored, running, active, runEvents, excused>>
      /\ raced' <=> (Editing # {} \/ ref # stored)
  BY DEF removePair
<1>2. IsCall(NewCall("remove", p, "clear", <<>>))
  BY DEF IsCall, NewCall, Edits, Runs, EditStages
<1> QED BY <1>1, <1>2, BegunEdit DEF Edits

LEMMA resetPairStateKeepsInv ==
  ASSUME SyncInv, NEW o \in Ops, NEW p \in Pairs, resetPairState(o, p)
  PROVE  SyncInv'
<1>0. SyncTypeOK /\ EditInv
  BY DEF SyncInv
<1>1. /\ begin(o, "reset", p, "clear", <<>>)
      /\ UNCHANGED <<ref, stored, raced, running, active, runEvents, excused>>
  BY DEF resetPairState
<1>2. IsCall(NewCall("reset", p, "clear", <<>>))
  BY DEF IsCall, NewCall, Edits, Runs, EditStages
<1>3. SyncTypeOK' /\ PairsInv'
  BY <1>1, <1>2, BegunKeepsPairs
<1>4. /\ ops[o].kind = "none" /\ ops'[o].kind = "reset"
      /\ \A q \in Ops : q # o => ops'[q] = ops[q]
  BY <1>0, <1>1, <1>2, BeginsCall
<1>5. EditInv'
  BY <1>0, <1>1, <1>4, EditsUndisturbed DEF Edits
<1> QED BY <1>3, <1>5 DEF SyncInv

\* A call goes on, but does not reach the engine, return from it or write a list.
LEMMA GoneOn ==
  ASSUME SyncInv, NEW o \in Ops, UNCHANGED <<ref, stored, running, active, runEvents, excused>>,
         raced' <=> raced,
         ops' = [q \in Ops |-> ops'[q]], IsCall(ops'[o]),
         ops'[o].kind = ops[o].kind, ops'[o].pair = ops[o].pair,
         ops[o].at \notin {"running", "saved"}, ops'[o].at \notin {"running", "saved"},
         \A q \in Ops : q # o => ops'[q] = ops[q]
  PROVE  SyncInv'
<1>0. SyncTypeOK /\ PairsInv /\ EditInv
  BY DEF SyncInv
<1>1. SyncTypeOK'
  BY <1>0 DEF SyncTypeOK
<1>2. \A q \in Ops : /\ ops'[q].kind \in Runs <=> ops[q].kind \in Runs
                     /\ ops[q].kind \in Runs => ops'[q].pair = ops[q].pair
                     /\ ops'[q].at = "running" <=> ops[q].at = "running"
  OBVIOUS
<1>3. \A q \in Ops : /\ ops'[q].kind \in Edits <=> ops[q].kind \in Edits
                     /\ ops[q].kind \in Edits =>
                          /\ ops'[q].kind = ops[q].kind
                          /\ ops'[q].at = "saved" <=> ops[q].at = "saved"
                          /\ ops[q].at = "saved" => ops'[q].next = ops[q].next
  OBVIOUS
<1>4. PairsInv'
  BY <1>0, <1>2, PairsUndisturbed
<1>5. EditInv'
  BY <1>0, <1>3, EditsUndisturbed
<1> QED BY <1>1, <1>4, <1>5 DEF SyncInv

\* A call that is no edit is over without having been the engine's.
LEMMA ResetOver ==
  ASSUME SyncInv, NEW o \in Ops, over(o), ops[o].kind = "reset",
         UNCHANGED <<ref, stored, running, active, runEvents, excused>>, raced' <=> raced
  PROVE  SyncInv'
<1>0. SyncTypeOK /\ PairsInv /\ EditInv
  BY DEF SyncInv
<1>1. /\ ops' = [q \in Ops |-> ops'[q]] /\ (\A q \in Ops : IsCall(ops'[q]))
      /\ ops'[o].kind = "none" /\ ops'[o].at = "none"
      /\ \A q \in Ops : q # o => ops'[q] = ops[q]
  BY <1>0, CallEnds
<1>2. ops[o].at = "clear"
  BY <1>0 DEF SyncTypeOK, IsCall
<1>3. SyncTypeOK'
  BY <1>0, <1>1 DEF SyncTypeOK
<1>4. PairsInv'
  BY <1>0, <1>1, <1>2, PairsUndisturbed DEF Runs
<1>5. EditInv'
  BY <1>0, <1>1, <1>2, EditsUndisturbed DEF Edits
<1> QED BY <1>3, <1>4, <1>5 DEF SyncInv

LEMMA validatedKeepsInv ==
  ASSUME SyncInv, NEW o \in Ops, validated(o)
  PROVE  SyncInv'
<1> DEFINE place == CASE ops[o].kind = "run" -> "native"
                      [] ops[o].kind = "reselect" -> "clear"
                      [] OTHER -> "save"
<1>0. SyncTypeOK /\ IsCall(ops[o])
  BY DEF SyncInv, SyncTypeOK
<1>1. /\ ops[o].at = "validate" /\ goto(o, place)
      /\ UNCHANGED <<ref, stored, raced, running, active, runEvents, excused>>
  BY DEF validated
<1>2. ops[o].kind \in {"run", "add", "update", "reselect"}
  BY <1>0, <1>1 DEF IsCall, Edits, Runs
<1>3. /\ place \in {"native", "clear", "save"}
      /\ ops[o].kind = "run" <=> place = "native"
      /\ ops[o].kind = "reselect" <=> place = "clear"
  BY <1>2
<1> HIDE DEF place
<1>4. /\ ops' = [q \in Ops |-> ops'[q]]
      /\ ops'[o] = NewCall(ops[o].kind, ops[o].pair, place, ops[o].next)
      /\ ops'[o].kind = ops[o].kind /\ ops'[o].pair = ops[o].pair /\ ops'[o].at = place
      /\ \A q \in Ops : q # o => ops'[q] = ops[q]
  BY <1>0, <1>1, CallGoes
<1>5. ops'[o] = [kind |-> ops'[o].kind, pair |-> ops'[o].pair, at |-> ops'[o].at, next |-> ops'[o].next]
  BY <1>4, NewCallIs DEF NewCall
<1>6. IsCall(ops'[o])
  BY <1>0, <1>2, <1>3, <1>4, <1>5 DEF IsCall, Edits, Runs, EditStages, RunStages
<1> QED BY <1>1, <1>3, <1>4, <1>6, GoneOn

LEMMA clearedKeepsInv ==
  ASSUME SyncInv, NEW o \in Ops, cleared(o)
  PROVE  SyncInv'
<1>0. SyncTypeOK /\ IsCall(ops[o])
  BY DEF SyncInv, SyncTypeOK
<1>1. /\ ops[o].at = "clear"
      /\ UNCHANGED <<ref, stored, raced, running, active, runEvents, excused>>
      /\ ops[o].kind = "reset" => over(o)
      /\ ops[o].kind = "reselect" => goto(o, "save")
      /\ ops[o].kind = "remove" => goto(o, "revoke")
  BY DEF cleared
<1>2. ops[o].kind \in {"reset", "reselect", "remove"}
  BY <1>0, <1>1 DEF IsCall
<1>3. CASE ops[o].kind = "reset"
  BY <1>1, <1>3, ResetOver
<1>4. CASE ops[o].kind # "reset"
  <2>1. PICK place \in {"save", "revoke"} : goto(o, place) /\ (ops[o].kind = "remove" <=> place = "revoke")
    BY <1>1, <1>2, <1>4
  <2>2. /\ ops' = [q \in Ops |-> ops'[q]]
        /\ ops'[o] = NewCall(ops[o].kind, ops[o].pair, place, ops[o].next)
        /\ ops'[o].kind = ops[o].kind /\ ops'[o].pair = ops[o].pair /\ ops'[o].at = place
        /\ \A q \in Ops : q # o => ops'[q] = ops[q]
    BY <1>0, <2>1, CallGoes
  <2>3. ops'[o] = [kind |-> ops'[o].kind, pair |-> ops'[o].pair, at |-> ops'[o].at, next |-> ops'[o].next]
    BY <2>2, NewCallIs DEF NewCall
  <2>4. IsCall(ops'[o])
    BY <1>0, <1>2, <1>4, <2>1, <2>2, <2>3 DEF IsCall, Edits, Runs, EditStages, RunStages
  <2> QED BY <1>1, <2>1, <2>2, <2>4, GoneOn
<1> QED BY <1>3, <1>4

LEMMA revokedKeepsInv ==
  ASSUME SyncInv, NEW o \in Ops, revoked(o)
  PROVE  SyncInv'
<1> DEFINE next == [ref EXCEPT ![ops[o].pair] = 0]
           c == ops[o]
<1>0. SyncTypeOK /\ IsCall(ops[o])
  BY DEF SyncInv, SyncTypeOK
<1>1. /\ ops[o].at = "revoke" /\ ops' = [ops EXCEPT ![o].at = "save", ![o].next = next]
      /\ UNCHANGED <<ref, stored, raced, running, active, runEvents, excused>>
  BY DEF revoked
<1>2. ops[o].kind = "remove"
  BY <1>0, <1>1 DEF IsCall
<1> HIDE DEF next
<1>3. ops' = [ops EXCEPT ![o] = [[c EXCEPT !.at = "save"] EXCEPT !.next = next]]
  BY <1>0, <1>1 DEF SyncTypeOK
<1>4. /\ ops'[o] = [[c EXCEPT !.at = "save"] EXCEPT !.next = next]
      /\ (\A q \in Ops : q # o => ops'[q] = ops[q]) /\ ops' = [q \in Ops |-> ops'[q]]
  BY <1>0, <1>3 DEF SyncTypeOK
<1>5. c = [kind |-> c.kind, pair |-> c.pair, at |-> c.at, next |-> c.next]
  BY <1>0 DEF IsCall
<1> HIDE DEF c
<1>6. [c EXCEPT !.at = "save"] = NewCall(c.kind, c.pair, "save", c.next)
  BY <1>5 DEF NewCall
<1>7. [NewCall(c.kind, c.pair, "save", c.next) EXCEPT !.next = next] = NewCall(c.kind, c.pair, "save", next)
  BY DEF NewCall
<1>8. ops'[o] = NewCall(c.kind, c.pair, "save", next)
  BY <1>4, <1>6, <1>7
<1>9. ops'[o].kind = c.kind /\ ops'[o].pair = c.pair /\ ops'[o].at = "save"
  BY <1>8, NewCallIs
<1>10. ops'[o] = [kind |-> ops'[o].kind, pair |-> ops'[o].pair, at |-> ops'[o].at, next |-> ops'[o].next]
  BY <1>8, NewCallIs DEF NewCall
<1>11. IsCall(ops'[o])
  BY <1>0, <1>2, <1>9, <1>10 DEF IsCall, Edits, Runs, EditStages, RunStages, c
<1> QED BY <1>1, <1>4, <1>9, <1>11, GoneOn DEF c

LEMMA otherwiseKeepsInv == SyncInv /\ (subscribe \/ configure \/ sessionChanges \/ UNCHANGED syncVars) => SyncInv'
<1> SUFFICES ASSUME SyncInv, subscribe \/ configure \/ sessionChanges \/ UNCHANGED syncVars PROVE SyncInv'
  OBVIOUS
<1>0. SyncTypeOK /\ PairsInv /\ EditInv
  BY DEF SyncInv
<1>1. UNCHANGED <<ref, stored, raced, running, active, runEvents, excused, ops>>
  BY DEF subscribe, configure, sessionChanges, syncVars
<1>2. SyncTypeOK'
  BY <1>0, <1>1 DEF SyncTypeOK
<1>3. PairsInv'
  BY <1>0, <1>1, PairsUndisturbed
<1>4. EditInv'
  BY <1>0, <1>1, EditsUndisturbed
<1> QED BY <1>2, <1>3, <1>4 DEF SyncInv

-----------------------------------------------------------------------------
(* The list is written, kept, or not.                                          *)

\* An edit goes on or is over: the pairs are not concerned.
LEMMA EditKeepsPairs ==
  ASSUME SyncTypeOK, PairsInv, NEW o \in Ops, UNCHANGED <<running, active, runEvents, excused>>,
         ops' = [q \in Ops |-> ops'[q]], IsCall(ops'[o]), ops[o].kind \in Edits, ops'[o].kind \notin Runs,
         \A q \in Ops : q # o => ops'[q] = ops[q]
  PROVE  SyncTypeOK' /\ PairsInv'
<1>1. SyncTypeOK'
  BY DEF SyncTypeOK
<1>2. ops[o].at # "running" /\ ops'[o].at # "running" /\ ops[o].kind \notin Runs
  BY DEF SyncTypeOK, IsCall, Edits, Runs, EditStages
<1>3. \A q \in Ops : /\ ops'[q].kind \in Runs <=> ops[q].kind \in Runs
                     /\ ops[q].kind \in Runs => ops'[q].pair = ops[q].pair
                     /\ ops'[q].at = "running" <=> ops[q].at = "running"
  BY <1>2
<1>4. PairsInv'
  BY <1>3, PairsUndisturbed
<1> QED BY <1>1, <1>4

\* It is over, with the list that is stored.
LEMMA EditOver ==
  ASSUME SyncInv, NEW o \in Ops, over(o), ops[o].kind \in Edits,
         UNCHANGED <<running, active, runEvents, excused, stored>>,
         ~raced' => ~raced /\ ref' = stored
  PROVE  SyncInv'
<1>0. SyncTypeOK /\ PairsInv /\ EditInv
  BY DEF SyncInv
<1>1. /\ ops' = [q \in Ops |-> ops'[q]] /\ (\A q \in Ops : IsCall(ops'[q]))
      /\ ops'[o].kind = "none"
      /\ \A q \in Ops : q # o => ops'[q] = ops[q]
  BY <1>0, CallEnds
<1>2. "none" \notin Runs /\ "none" \notin Edits
  BY DEF Runs, Edits
<1>3. SyncTypeOK' /\ PairsInv'
  BY <1>0, <1>1, <1>2, EditKeepsPairs
<1>4. ASSUME ~raced' PROVE Editing' = {}
  <2>1. \A q \in Editing : q = o
    BY <1>0, <1>4 DEF EditInv, Editing
  <2> QED BY <1>1, <1>2, <2>1 DEF Editing
<1>5. EditInv'
  BY <1>4 DEF EditInv
<1> QED BY <1>3, <1>5 DEF SyncInv

LEMMA persistedKeepsInv ==
  ASSUME SyncInv, NEW o \in Ops, persisted(o)
  PROVE  SyncInv'
<1>0. SyncTypeOK /\ EditInv /\ IsCall(ops[o])
  BY DEF SyncInv, SyncTypeOK
<1>1. /\ ops[o].at = "saved" /\ over(o) /\ ref' = ops[o].next
      /\ UNCHANGED <<running, active, runEvents, excused, stored, raced>>
  BY DEF persisted
<1>2. ops[o].kind \in Edits
  BY <1>0, <1>1 DEF IsCall, Runs, Edits, RunStages
<1>3. ~raced => ref' = stored
  BY <1>0, <1>1, <1>2 DEF EditInv, Editing
<1> QED BY <1>1, <1>2, <1>3, EditOver

LEMMA writtenKeepsInv ==
  ASSUME SyncInv, NEW o \in Ops, written(o)
  PROVE  SyncInv'
<1> DEFINE c == ops[o]
           next == IF c.kind = "load" THEN stored ELSE c.next
<1>0. SyncTypeOK /\ PairsInv /\ EditInv /\ IsCall(c)
  BY DEF SyncInv, SyncTypeOK
<1>1. c.at = "save" /\ UNCHANGED <<ref, running, active, runEvents, excused, raced>>
  BY DEF written
<1>2. c.kind \in Edits
  BY <1>0, <1>1 DEF IsCall, Runs, Edits, RunStages
<1>3. /\ ops' = [q \in Ops |-> ops'[q]] /\ (\A q \in Ops : q # o => ops'[q] = ops[q])
      /\ ops'[o] = NewCall(c.kind, c.pair, "saved", next)
      /\ stored' = next
  <2>1. CASE c.kind = "load"
    <3>1. ops' = [ops EXCEPT ![o].at = "saved", ![o].next = stored] /\ stored' = stored
      BY <2>1 DEF written
    <3>2. ops' = [ops EXCEPT ![o] = [[c EXCEPT !.at = "saved"] EXCEPT !.next = stored]]
      BY <1>0, <3>1 DEF SyncTypeOK
    <3>3. /\ ops'[o] = [[c EXCEPT !.at = "saved"] EXCEPT !.next = stored]
          /\ (\A q \in Ops : q # o => ops'[q] = ops[q]) /\ ops' = [q \in Ops |-> ops'[q]]
      BY <1>0, <3>2 DEF SyncTypeOK
    <3>4. c = [kind |-> c.kind, pair |-> c.pair, at |-> c.at, next |-> c.next]
      BY <1>0 DEF IsCall
    <3> HIDE DEF c
    <3>5. [c EXCEPT !.at = "saved"] = NewCall(c.kind, c.pair, "saved", c.next)
      BY <3>4 DEF NewCall
    <3>6. [NewCall(c.kind, c.pair, "saved", c.next) EXCEPT !.next = stored]
            = NewCall(c.kind, c.pair, "saved", stored)
      BY DEF NewCall
    <3> QED BY <2>1, <3>1, <3>3, <3>5, <3>6
  <2>2. CASE c.kind # "load"
    <3>1. goto(o, "saved") /\ stored' = c.next
      BY <2>2 DEF written
    <3>2. /\ ops' = [q \in Ops |-> ops'[q]]
          /\ ops'[o] = NewCall(ops[o].kind, ops[o].pair, "saved", ops[o].next)
          /\ \A q \in Ops : q # o => ops'[q] = ops[q]
      BY <1>0, <3>1, CallGoes
    <3> QED BY <2>2, <3>1, <3>2
  <2> QED BY <2>1, <2>2
<1> HIDE DEF next
<1>4. /\ ops'[o].kind = c.kind /\ ops'[o].pair = c.pair /\ ops'[o].at = "saved" /\ ops'[o].next = next
      /\ ops'[o] = [kind |-> ops'[o].kind, pair |-> ops'[o].pair, at |-> ops'[o].at, next |-> ops'[o].next]
  <2> HIDE DEF c
  <2>1. ops'[o].kind = c.kind /\ ops'[o].pair = c.pair /\ ops'[o].at = "saved" /\ ops'[o].next = next
    BY <1>3, NewCallIs
  <2> QED BY <1>3, <2>1 DEF NewCall
<1>5. IsCall(ops'[o]) /\ c.kind \notin Runs
  BY <1>0, <1>2, <1>4 DEF IsCall, Edits, Runs, EditStages, RunStages
<1>6. SyncTypeOK' /\ PairsInv'
  BY <1>0, <1>1, <1>2, <1>3, <1>4, <1>5, EditKeepsPairs
<1>7. Editing' = Editing /\ o \in Editing
  BY <1>2, <1>3, <1>4 DEF Editing
<1>8. EditInv'
  <2>1. ASSUME ~raced' PROVE (\A p, q \in Editing' : p = q) /\ \A q \in Editing' : q = o
    BY <1>0, <1>1, <1>7, <2>1 DEF EditInv
  <2>2. ops'[o].at = "saved" /\ ops'[o].next = stored'
    BY <1>3, <1>4
  <2> QED BY <1>7, <2>1, <2>2 DEF EditInv
<1> QED BY <1>6, <1>8 DEF SyncInv

\* A run that is not the engine's is over, and its mark with it.
LEMMA RunOver ==
  ASSUME SyncInv, NEW o \in Ops, over(o), ops[o].kind \in Runs, ops[o].at # "running",
         running' = running \ {ops[o].pair},
         UNCHANGED <<active, runEvents, excused, ref, stored>>, raced' <=> raced
  PROVE  SyncInv'
<1>0. SyncTypeOK /\ PairsInv /\ EditInv /\ ops[o].pair \in Pairs
  BY DEF SyncInv, SyncTypeOK, IsCall
<1>p. PICK p \in Pairs : p = ops[o].pair
  BY <1>0
<1>1. /\ ops' = [q \in Ops |-> ops'[q]] /\ (\A q \in Ops : IsCall(ops'[q]))
      /\ ops'[o].kind = "none" /\ ops'[o].at = "none"
      /\ \A q \in Ops : q # o => ops'[q] = ops[q]
  BY <1>0, CallEnds
<1>2. SyncTypeOK'
  BY <1>0, <1>1 DEF SyncTypeOK
<1>3. \A r \in Pairs : RunsOf(r)' = RunsOf(r) \ {o}
  BY <1>1 DEF RunsOf, Runs
<1>4. \A r \in Pairs : r # p => RunsOf(r)' = RunsOf(r)
  BY <1>3, <1>p DEF RunsOf
<1>5. \A r \in Pairs, q \in Ops : Waits(q, r)' <=> Waits(q, r)
  BY <1>1 DEF Waits
<1>6. \A r \in Pairs : /\ Started(r)' <=> Started(r)
                       /\ Ended(r)' <=> Ended(r)
                       /\ InOrder(r)' <=> InOrder(r)
  BY DEF Started, Ended, InOrder, Starts, Ends
<1>7. ASSUME NEW r \in Pairs PROVE UserRuns(r)'
  BY <1>0, <1>5 DEF PairsInv, UserRuns
<1>8. ASSUME NEW r \in Pairs, r \notin excused', r # p PROVE PairInv(r)'
  <2>1. PairInv(r) /\ (r \in running' <=> r \in running)
    BY <1>0, <1>8, <1>p DEF PairsInv
  <2> QED BY <2>1, <1>4, <1>6, <1>8 DEF PairInv
<1>9. ASSUME p \notin excused' PROVE PairInv(p)'
  <2>1. o \in RunsOf(p)
    BY <1>p DEF RunsOf
  <2>2. PairInv(p)
    BY <1>0, <1>9 DEF PairsInv
  <2>3. RunsOf(p)' = {} /\ p \notin running'
    BY <1>0, <1>3, <1>p, <2>1, <2>2 DEF PairInv
  <2>4. ~Started(p) /\ ~Ended(p) /\ InOrder(p) /\ active[p] # "scheduler"
    BY <2>1, <2>2 DEF PairInv
  <2> QED BY <2>3, <2>4, <1>6 DEF PairInv
<1>10. PairsInv'
  BY <1>7, <1>8, <1>9 DEF PairsInv
<1>11. EditInv'
  BY <1>0, <1>1, EditsUndisturbed DEF Edits, Runs
<1> QED BY <1>2, <1>10, <1>11 DEF SyncInv

LEMMA failsKeepsInv ==
  ASSUME SyncInv, NEW o \in Ops, fails(o)
  PROVE  SyncInv'
<1>0. SyncTypeOK /\ EditInv /\ IsCall(ops[o])
  BY DEF SyncInv, SyncTypeOK
<1>1. /\ ops[o].at \in {"validate", "clear", "revoke", "save"} /\ over(o)
      /\ ops[o].kind = "run" => running' = running \ {ops[o].pair}
      /\ ops[o].kind # "run" => UNCHANGED running
      /\ raced' <=> (raced \/ ops[o].kind = "load")
      /\ UNCHANGED <<ref, stored, active, runEvents, excused>>
  BY DEF fails
<1>2. ops[o].kind \in {"run", "reset"} \cup Edits
  BY <1>0, <1>1 DEF IsCall, Runs, RunStages
<1>3. CASE ops[o].kind = "run"
  BY <1>1, <1>3, RunOver DEF Runs
<1>4. CASE ops[o].kind = "reset"
  BY <1>1, <1>4, ResetOver
<1>5. CASE ops[o].kind \in Edits
  <2>1. ~raced' => ref' = stored /\ ~raced
    BY <1>0, <1>1, <1>5 DEF EditInv, Editing
  <2> QED BY <1>1, <1>5, <2>1, EditOver DEF Edits
<1> QED BY <1>2, <1>3, <1>4, <1>5

LEMMA conflictsReadKeepsInv ==
  ASSUME SyncInv, NEW o \in Ops, conflictsRead(o)
  PROVE  SyncInv'
<1>0. IsCall(ops[o])
  BY DEF SyncInv, SyncTypeOK
<1>1. /\ ops[o].at = "conflicts" /\ over(o) /\ running' = running \ {ops[o].pair}
      /\ UNCHANGED <<active, runEvents, excused, ref, stored, raced>>
  BY DEF conflictsRead
<1>2. ops[o].kind \in Runs
  BY <1>0, <1>1 DEF IsCall, EditStages
<1> QED BY <1>1, <1>2, RunOver

LEMMA runAnsweredKeepsInv ==
  ASSUME SyncInv, NEW o \in Ops, runAnswered(o)
  PROVE  SyncInv'
<1>0. SyncTypeOK /\ IsCall(ops[o])
  BY DEF SyncInv, SyncTypeOK
<1>1. /\ ops[o].at \in {"done", "refused"}
      /\ ops[o].at = "done" => goto(o, "conflicts") /\ UNCHANGED running
      /\ ops[o].at = "refused" => over(o) /\ running' = running \ {ops[o].pair}
      /\ UNCHANGED <<active, runEvents, excused, ref, stored, raced>>
  BY DEF runAnswered
<1>2. ops[o].kind \in Runs
  BY <1>0, <1>1 DEF IsCall, EditStages
<1>3. CASE ops[o].at = "done"
  <2>1. /\ ops' = [q \in Ops |-> ops'[q]]
        /\ ops'[o] = NewCall(ops[o].kind, ops[o].pair, "conflicts", ops[o].next)
        /\ ops'[o].kind = ops[o].kind /\ ops'[o].pair = ops[o].pair /\ ops'[o].at = "conflicts"
        /\ \A q \in Ops : q # o => ops'[q] = ops[q]
    BY <1>0, <1>1, <1>3, CallGoes
  <2>2. ops'[o] = [kind |-> ops'[o].kind, pair |-> ops'[o].pair, at |-> ops'[o].at, next |-> ops'[o].next]
    BY <2>1, NewCallIs DEF NewCall
  <2>3. IsCall(ops'[o])
    BY <1>0, <1>2, <2>1, <2>2 DEF IsCall, Edits, Runs, EditStages, RunStages
  <2> QED BY <1>1, <1>3, <2>1, <2>3, GoneOn
<1>4. CASE ops[o].at = "refused"
  BY <1>1, <1>2, <1>4, RunOver
<1> QED BY <1>1, <1>3, <1>4

-----------------------------------------------------------------------------
(* The engine, for the user and for the scheduler.                             *)

\* What else a step of the engine does not concern.
LEMMA OtherPairs ==
  ASSUME PairsInv, NEW p \in Pairs, NEW r \in Pairs, r # p,
         RunsOf(r)' = RunsOf(r), \A q \in Ops : Waits(q, r)' <=> Waits(q, r),
         r \in running' <=> r \in running, active'[r] = active[r], r \in excused' <=> r \in excused,
         Started(r)' <=> Started(r), Ended(r)' <=> Ended(r), InOrder(r) => InOrder(r)'
  PROVE  UserRuns(r)' /\ (r \notin excused' => PairInv(r)')
  BY DEF PairsInv, UserRuns, PairInv

LEMMA SameEvents ==
  ASSUME UNCHANGED runEvents, NEW r \in Pairs
  PROVE  /\ Started(r)' <=> Started(r)
         /\ Ended(r)' <=> Ended(r)
         /\ InOrder(r)' <=> InOrder(r)
  BY DEF Started, Ended, InOrder, Starts, Ends

LEMMA EventsAre == SyncTypeOK => /\ Len(runEvents) \in Nat
                                 /\ \A i \in 1..Len(runEvents) : runEvents[i] \in RunEvents
  BY LenProperties, ElementOfSeq DEF SyncTypeOK

LEMMA ToldIsOnItsWay ==
  ASSUME SyncTypeOK, NEW p \in Pairs
  PROVE  Told(p) <=> Started(p) \/ Ended(p)
<1>1. DOMAIN runEvents = 1..Len(runEvents)
  BY LenProperties DEF SyncTypeOK
<1> QED BY <1>1 DEF Told, Started, Ended, Starts, Ends

LEMMA startRunKeepsInv ==
  ASSUME SyncInv, NEW o \in Ops, NEW p \in Pairs, runPair(o, p) \/ resolveConflict(o, p)
  PROVE  SyncInv'
<1>0. SyncTypeOK /\ PairsInv /\ EditInv
  BY DEF SyncInv
<1>1. PICK sort \in Runs, place \in {"validate", "native"} :
        startRun(o, p, sort, place) /\ (sort = "resolve" => place # "validate")
  BY DEF runPair, resolveConflict, Runs
<1>2. /\ begin(o, sort, p, place, <<>>) /\ p \notin running
      /\ running' = running \cup {p}
      /\ excused' = IF active[p] # "none" \/ Told(p) \/ RunsOf(p) # {} THEN excused \cup {p} ELSE excused \ {p}
      /\ UNCHANGED <<ref, stored, active, runEvents, raced>>
  BY <1>1 DEF startRun
<1>3. IsCall(NewCall(sort, p, place, <<>>))
  BY <1>1, NewCallIs DEF IsCall, NewCall, Edits, Runs, RunStages
<1>4. /\ ops' = [q \in Ops |-> ops'[q]] /\ (\A q \in Ops : IsCall(ops'[q]))
      /\ ops[o].kind = "none" /\ ops[o].at = "none"
      /\ ops'[o].kind = sort /\ ops'[o].pair = p /\ ops'[o].at = place
      /\ \A q \in Ops : q # o => ops'[q] = ops[q]
  BY <1>0, <1>2, <1>3, BeginsCall
<1>5. SyncTypeOK'
  BY <1>0, <1>2, <1>4 DEF SyncTypeOK
<1>6. ops[o].kind \notin Runs /\ ops[o].kind \notin Edits /\ sort \notin Edits
  BY <1>4 DEF Runs, Edits
<1>7. \A r \in Pairs : RunsOf(r)' = IF r = p THEN RunsOf(r) \cup {o} ELSE RunsOf(r)
  BY <1>4, <1>6 DEF RunsOf
<1>8. \A r \in Pairs, q \in Ops : Waits(q, r)' <=> Waits(q, r)
  BY <1>4 DEF Waits
<1>9. ASSUME NEW r \in Pairs, r # p PROVE UserRuns(r)' /\ (r \notin excused' => PairInv(r)')
  BY <1>0, <1>2, <1>7, <1>8, <1>9, OtherPairs, SameEvents
<1>10. UserRuns(p)'
  BY <1>0, <1>2, <1>8 DEF PairsInv, UserRuns
<1>11. ASSUME p \notin excused' PROVE PairInv(p)'
  <2>1. active[p] = "none" /\ ~Started(p) /\ ~Ended(p) /\ RunsOf(p) = {}
    BY <1>0, <1>2, <1>11, ToldIsOnItsWay
  <2>2. RunsOf(p)' = {o} /\ ~Started(p)' /\ ~Ended(p)'
    BY <2>1, <1>2, <1>7, SameEvents
  <2>3. InOrder(p)'
    BY <2>2 DEF InOrder, Started, Ended
  <2> QED BY <1>2, <2>1, <2>2, <2>3 DEF PairInv
<1>12. PairsInv'
  BY <1>9, <1>10, <1>11 DEF PairsInv
<1>13. EditInv'
  BY <1>0, <1>2, <1>4, <1>6, EditsUndisturbed
<1> QED BY <1>5, <1>12, <1>13 DEF SyncInv

\* A run goes to the engine, or returns from it.
LEMMA EngineKeepsInv ==
  ASSUME SyncInv, NEW o \in Ops, NEW p \in Pairs, p = ops[o].pair, ops[o].kind \in Runs,
         NEW place \in RunStages, goto(o, place), place # "validate",
         active[p] # "scheduler",
         active' = [active EXCEPT ![p] = IF place = "running" THEN "user" ELSE "none"],
         \A q \in Ops : Waits(q, p) => q = o,
         UNCHANGED <<ref, stored, raced, running, runEvents, excused>>
  PROVE  SyncInv'
<1>0. SyncTypeOK /\ PairsInv /\ EditInv /\ IsCall(ops[o])
  BY DEF SyncInv, SyncTypeOK
<1>1. /\ ops' = [q \in Ops |-> ops'[q]]
      /\ ops'[o] = NewCall(ops[o].kind, ops[o].pair, place, ops[o].next)
      /\ ops'[o].kind = ops[o].kind /\ ops'[o].pair = ops[o].pair /\ ops'[o].at = place
      /\ \A q \in Ops : q # o => ops'[q] = ops[q]
  BY <1>0, CallGoes
<1>2. ops'[o] = [kind |-> ops'[o].kind, pair |-> ops'[o].pair, at |-> ops'[o].at, next |-> ops'[o].next]
  BY <1>1, NewCallIs DEF NewCall
<1>3. IsCall(ops'[o])
  BY <1>0, <1>1, <1>2 DEF IsCall, Edits, Runs, EditStages, RunStages
<1>4. active' \in [Pairs -> {"none", "user", "scheduler"}]
      /\ active'[p] = (IF place = "running" THEN "user" ELSE "none")
      /\ \A r \in Pairs : r # p => active'[r] = active[r]
  BY <1>0 DEF SyncTypeOK
<1>5. SyncTypeOK'
  BY <1>0, <1>1, <1>3, <1>4 DEF SyncTypeOK
<1>6. \A r \in Pairs : RunsOf(r)' = RunsOf(r)
  BY <1>1 DEF RunsOf
<1>7. ASSUME NEW r \in Pairs, r # p PROVE UserRuns(r)' /\ (r \notin excused' => PairInv(r)')
  <2>1. \A q \in Ops : Waits(q, r)' <=> Waits(q, r)
    BY <1>1, <1>7 DEF Waits
  <2> QED BY <1>0, <1>4, <1>6, <1>7, <2>1, OtherPairs, SameEvents
<1>8. UserRuns(p)'
  <2>1. \A q \in Ops : Waits(q, p)' <=> q = o /\ place = "running"
    BY <1>1 DEF Waits
  <2> QED BY <1>4, <2>1 DEF UserRuns
<1>9. ASSUME p \notin excused' PROVE PairInv(p)'
  <2>1. o \in RunsOf(p)
    BY DEF RunsOf
  <2>2. PairInv(p) /\ active'[p] # "scheduler"
    BY <1>0, <1>4, <1>9 DEF PairsInv
  <2>3. RunsOf(p)' = RunsOf(p) /\ Started(p)' = Started(p) /\ Ended(p)' = Ended(p) /\ (InOrder(p)' <=> InOrder(p))
    BY <1>6 DEF Started, Ended, InOrder, Starts, Ends
  <2> QED BY <2>1, <2>2, <2>3 DEF PairInv
<1>10. PairsInv'
  BY <1>7, <1>8, <1>9 DEF PairsInv
<1>11. EditInv'
  BY <1>0, <1>1, EditsUndisturbed DEF Edits, Runs
<1> QED BY <1>5, <1>10, <1>11 DEF SyncInv

LEMMA beginRunKeepsInv ==
  ASSUME SyncInv, NEW o \in Ops, beginRun(o)
  PROVE  SyncInv'
<1>0. SyncTypeOK /\ PairsInv /\ IsCall(ops[o])
  BY DEF SyncInv, SyncTypeOK
<1>1. /\ ops[o].at = "native"
      /\ active[ops[o].pair] = "none" => active' = [active EXCEPT ![ops[o].pair] = "user"] /\ goto(o, "running")
      /\ active[ops[o].pair] # "none" => UNCHANGED active /\ goto(o, "refused")
      /\ UNCHANGED <<ref, stored, raced, running, runEvents, excused>>
  BY DEF beginRun
<1>2. ops[o].kind \in Runs /\ ops[o].pair \in Pairs
  BY <1>0, <1>1 DEF IsCall, EditStages
<1>3. PICK p \in Pairs : p = ops[o].pair
  BY <1>2
<1>4. CASE active[p] = "none"
  <2>1. \A q \in Ops : ~Waits(q, p)
    BY <1>0, <1>4 DEF PairsInv, UserRuns
  <2>2. active' = [active EXCEPT ![p] = IF "running" = "running" THEN "user" ELSE "none"]
    BY <1>1, <1>3, <1>4
  <2>3. goto(o, "running")
    BY <1>1, <1>3, <1>4
  <2> QED BY <1>1, <1>2, <1>3, <1>4, <2>1, <2>2, <2>3, EngineKeepsInv DEF RunStages
<1>5. CASE active[p] # "none"
  <2>1. goto(o, "refused") /\ UNCHANGED active
    BY <1>1, <1>3, <1>5
  <2>2. /\ ops' = [q \in Ops |-> ops'[q]]
        /\ ops'[o] = NewCall(ops[o].kind, ops[o].pair, "refused", ops[o].next)
        /\ ops'[o].kind = ops[o].kind /\ ops'[o].pair = ops[o].pair /\ ops'[o].at = "refused"
        /\ \A q \in Ops : q # o => ops'[q] = ops[q]
    BY <1>0, <2>1, CallGoes
  <2>3. ops'[o] = [kind |-> ops'[o].kind, pair |-> ops'[o].pair, at |-> ops'[o].at, next |-> ops'[o].next]
    BY <2>2, NewCallIs DEF NewCall
  <2>4. IsCall(ops'[o])
    BY <1>0, <1>2, <2>2, <2>3 DEF IsCall, Edits, Runs, EditStages, RunStages
  <2> QED BY <1>1, <2>1, <2>2, <2>4, GoneOn
<1> QED BY <1>4, <1>5

LEMMA endRunKeepsInv ==
  ASSUME SyncInv, NEW o \in Ops, endRun(o)
  PROVE  SyncInv'
<1>0. SyncTypeOK /\ PairsInv /\ IsCall(ops[o])
  BY DEF SyncInv, SyncTypeOK
<1>1. /\ ops[o].at = "running" /\ active' = [active EXCEPT ![ops[o].pair] = "none"]
      /\ UNCHANGED <<ref, stored, raced, running, runEvents, excused>>
  BY DEF endRun
<1>2. PICK place \in {"done", "refused"} : goto(o, place)
  BY DEF endRun
<1>3. ops[o].kind \in Runs /\ ops[o].pair \in Pairs
  BY <1>0, <1>1 DEF IsCall, EditStages
<1>4. PICK p \in Pairs : p = ops[o].pair
  BY <1>3
<1>5. Waits(o, p)
  BY <1>1, <1>4 DEF Waits
<1>6. active[p] = "user" /\ \A q \in Ops : Waits(q, p) => q = o
  BY <1>0, <1>5 DEF PairsInv, UserRuns
<1>7. active' = [active EXCEPT ![p] = IF place = "running" THEN "user" ELSE "none"]
  BY <1>1, <1>2, <1>4
<1>8. place \in RunStages /\ place # "validate"
  BY DEF RunStages
<1> QED BY <1>1, <1>2, <1>3, <1>4, <1>6, <1>7, <1>8, EngineKeepsInv

\* One more event is on its way: the start of a run, or the end of one.
LEMMA Sent ==
  ASSUME SyncTypeOK, NEW p \in Pairs, NEW heard \in {"started", "finished", "failed"}, Send(p, heard)
  PROVE  /\ runEvents' \in Seq(RunEvents)
         /\ \A r \in Pairs : r # p => /\ Started(r)' <=> Started(r)
                                      /\ Ended(r)' <=> Ended(r)
                                      /\ InOrder(r) => InOrder(r)'
         /\ Started(p)' <=> Started(p) \/ heard = "started"
         /\ Ended(p)' <=> Ended(p) \/ heard # "started"
         /\ InOrder(p) /\ ~Ended(p) /\ (heard = "started" => ~Started(p)) => InOrder(p)'
<1> DEFINE e == [pair |-> p, stage |-> heard]
           n == Len(runEvents)
<1>1. e \in RunEvents /\ e.pair = p /\ e.stage = heard /\ runEvents' = Append(runEvents, e)
  BY DEF RunEvents, Send
<1> HIDE DEF e
<1>2. /\ runEvents' \in Seq(RunEvents) /\ Len(runEvents') = n + 1 /\ n \in Nat
      /\ (\A i \in 1..n : runEvents'[i] = runEvents[i]) /\ runEvents'[n + 1] = e
  BY <1>1, AppendProperties, LenProperties DEF SyncTypeOK
<1> HIDE DEF n
<1>3. \A i \in 1..n, r \in Pairs : (Starts(i, r)' <=> Starts(i, r)) /\ (Ends(i, r)' <=> Ends(i, r))
  BY <1>2 DEF Starts, Ends
<1>4. \A r \in Pairs : \A i : i = n + 1 => /\ Starts(i, r)' <=> (r = p /\ heard = "started")
                                           /\ Ends(i, r)' <=> (r = p /\ heard # "started")
  BY <1>1, <1>2 DEF Starts, Ends
<1>5. \A i : i \in 1..Len(runEvents') <=> i \in 1..n \/ i = n + 1
  BY <1>2
<1>6. \A r \in Pairs : /\ Started(r)' <=> Started(r) \/ (r = p /\ heard = "started")
                       /\ Ended(r)' <=> Ended(r) \/ (r = p /\ heard # "started")
  BY <1>3, <1>4, <1>5 DEF Started, Ended, n
<1>7. \A i \in 1..n : i < n + 1
  BY <1>2
<1>8. ASSUME NEW r \in Pairs, InOrder(r), r # p \/ (~Ended(r) /\ (heard = "started" => ~Started(r)))
      PROVE  InOrder(r)'
  <2>1. ASSUME NEW i \in 1..n, NEW j \in 1..n
        PROVE  /\ Starts(i, r)' /\ Starts(j, r)' => i = j
               /\ Ends(i, r)' /\ Ends(j, r)' => i = j
               /\ Starts(i, r)' /\ Ends(j, r)' => i < j
    BY <1>3, <1>8 DEF InOrder, n
  <2>2. ASSUME NEW i \in 1..n, NEW j, j = n + 1
        PROVE  /\ ~(Starts(i, r)' /\ Starts(j, r)') /\ ~(Ends(i, r)' /\ Ends(j, r)')
               /\ ~(Starts(j, r)' /\ Ends(i, r)') /\ i < j
    BY <1>3, <1>4, <1>7, <1>8, <2>2 DEF Started, Ended, n
  <2>3. \A i : i = n + 1 => ~(Starts(i, r)' /\ Ends(i, r)')
    BY <1>4
  <2>4. InOrder(r)' <=>
          \A i, j \in 1..Len(runEvents') : /\ Starts(i, r)' /\ Starts(j, r)' => i = j
                                           /\ Ends(i, r)' /\ Ends(j, r)' => i = j
                                           /\ Starts(i, r)' /\ Ends(j, r)' => i < j
    BY DEF InOrder
  <2> QED BY <1>5, <2>1, <2>2, <2>3, <2>4
<1> QED BY <1>2, <1>6, <1>8

LEMMA scheduledKeepsInv ==
  ASSUME SyncInv, NEW p \in Pairs, scheduled(p)
  PROVE  SyncInv'
<1>0. SyncTypeOK /\ PairsInv /\ EditInv
  BY DEF SyncInv
<1>1. /\ active[p] = "none" /\ active' = [active EXCEPT ![p] = "scheduler"] /\ Send(p, "started")
      /\ excused' = IF RunsOf(p) # {} \/ p \in running \/ Told(p) THEN excused \cup {p} ELSE excused \ {p}
      /\ UNCHANGED <<ref, stored, raced, running, ops>>
  BY DEF scheduled
<1>2. /\ runEvents' \in Seq(RunEvents)
      /\ \A r \in Pairs : r # p => /\ Started(r)' <=> Started(r)
                                   /\ Ended(r)' <=> Ended(r)
                                   /\ InOrder(r) => InOrder(r)'
      /\ Started(p)' /\ (Ended(p)' <=> Ended(p))
      /\ InOrder(p) /\ ~Ended(p) /\ ~Started(p) => InOrder(p)'
  BY <1>0, <1>1, Sent
<1>3. /\ active' \in [Pairs -> {"none", "user", "scheduler"}] /\ active'[p] = "scheduler"
      /\ \A r \in Pairs : r # p => active'[r] = active[r]
  BY <1>0, <1>1 DEF SyncTypeOK
<1>4. SyncTypeOK'
  BY <1>0, <1>1, <1>2, <1>3 DEF SyncTypeOK
<1>5. /\ \A r \in Pairs : RunsOf(r)' = RunsOf(r)
      /\ \A r \in Pairs, q \in Ops : Waits(q, r)' <=> Waits(q, r)
  BY <1>1 DEF RunsOf, Waits
<1>6. ASSUME NEW r \in Pairs, r # p PROVE UserRuns(r)' /\ (r \notin excused' => PairInv(r)')
  BY <1>0, <1>1, <1>2, <1>3, <1>5, <1>6, OtherPairs
<1>7. UserRuns(p)'
  BY <1>0, <1>1, <1>3, <1>5 DEF PairsInv, UserRuns
<1>8. ASSUME p \notin excused' PROVE PairInv(p)'
  <2>1. RunsOf(p) = {} /\ p \notin running /\ ~Started(p) /\ ~Ended(p)
    BY <1>0, <1>1, <1>8, ToldIsOnItsWay
  <2>2. InOrder(p)
    BY <2>1 DEF InOrder, Started, Ended
  <2> QED BY <1>1, <1>2, <1>3, <1>5, <2>1, <2>2 DEF PairInv
<1>9. PairsInv'
  BY <1>6, <1>7, <1>8 DEF PairsInv
<1>10. EditInv'
  BY <1>0, <1>1, EditsUndisturbed
<1> QED BY <1>4, <1>9, <1>10 DEF SyncInv

LEMMA finishedKeepsInv ==
  ASSUME SyncInv, NEW p \in Pairs, finished(p)
  PROVE  SyncInv'
<1>0. SyncTypeOK /\ PairsInv /\ EditInv
  BY DEF SyncInv
<1>1. /\ active[p] = "scheduler" /\ active' = [active EXCEPT ![p] = "none"]
      /\ UNCHANGED <<ref, stored, raced, running, ops, excused>>
  BY DEF finished
<1>a. PICK heard \in {"finished", "failed"} : Send(p, heard)
  BY DEF finished
<1>2. /\ runEvents' \in Seq(RunEvents)
      /\ \A r \in Pairs : r # p => /\ Started(r)' <=> Started(r)
                                   /\ Ended(r)' <=> Ended(r)
                                   /\ InOrder(r) => InOrder(r)'
      /\ Ended(p)' /\ (Started(p)' <=> Started(p))
      /\ InOrder(p) /\ ~Ended(p) => InOrder(p)'
  BY <1>0, <1>a, Sent
<1>3. /\ active' \in [Pairs -> {"none", "user", "scheduler"}] /\ active'[p] = "none"
      /\ \A r \in Pairs : r # p => active'[r] = active[r]
  BY <1>0, <1>1 DEF SyncTypeOK
<1>4. SyncTypeOK'
  BY <1>0, <1>1, <1>2, <1>3 DEF SyncTypeOK
<1>5. /\ \A r \in Pairs : RunsOf(r)' = RunsOf(r)
      /\ \A r \in Pairs, q \in Ops : Waits(q, r)' <=> Waits(q, r)
  BY <1>1 DEF RunsOf, Waits
<1>6. ASSUME NEW r \in Pairs, r # p PROVE UserRuns(r)' /\ (r \notin excused' => PairInv(r)')
  BY <1>0, <1>1, <1>2, <1>3, <1>5, <1>6, OtherPairs
<1>7. UserRuns(p)'
  BY <1>0, <1>1, <1>3, <1>5 DEF PairsInv, UserRuns
<1>8. ASSUME p \notin excused' PROVE PairInv(p)'
  <2>1. PairInv(p)
    BY <1>0, <1>1, <1>8 DEF PairsInv
  <2>2. RunsOf(p) = {} /\ ~Ended(p) /\ (p \in running <=> ~Started(p)) /\ InOrder(p)
    BY <1>1, <2>1 DEF PairInv
  <2> QED BY <1>1, <1>2, <1>3, <1>5, <2>2 DEF PairInv
<1>9. PairsInv'
  BY <1>6, <1>7, <1>8 DEF PairsInv
<1>10. EditInv'
  BY <1>0, <1>1, EditsUndisturbed
<1> QED BY <1>4, <1>9, <1>10 DEF SyncInv

\* The first event is there: it is on its way no more, and the others are.
LEMMA Arrived ==
  ASSUME SyncTypeOK, runEvents # <<>>, runEvents' = Tail(runEvents), NEW e, e = Head(runEvents)
  PROVE  /\ runEvents' \in Seq(RunEvents) /\ e \in RunEvents
         /\ \A r \in Pairs : r # e.pair => /\ Started(r)' <=> Started(r)
                                           /\ Ended(r)' <=> Ended(r)
         /\ \A r \in Pairs : InOrder(r) => InOrder(r)'
         /\ \A r \in Pairs : r = e.pair /\ InOrder(r) =>
              IF e.stage = "started" THEN Started(r) /\ ~Started(r)' /\ (Ended(r)' <=> Ended(r))
              ELSE Ended(r) /\ ~Started(r) /\ ~Started(r)' /\ ~Ended(r)'
<1> DEFINE n == Len(runEvents)
<1>1. /\ runEvents' \in Seq(RunEvents) /\ Len(runEvents') = n - 1 /\ n \in Nat /\ n >= 1
      /\ \A i \in 1..n - 1 : runEvents'[i] = runEvents[i + 1]
      /\ e = runEvents[1] /\ e \in RunEvents
  BY HeadTailProperties, LenProperties, EmptySeq, ElementOfSeq DEF SyncTypeOK
<1> HIDE DEF n
<1>2. \A i \in 1..n - 1, r \in Pairs : \A j : j = i + 1 =>
        (Starts(i, r)' <=> Starts(j, r)) /\ (Ends(i, r)' <=> Ends(j, r))
  BY <1>1 DEF Starts, Ends
<1>3. \A j \in 1..n : j = 1 \/ (j - 1 \in 1..n - 1 /\ j = (j - 1) + 1)
  BY <1>1
<1>4. \A i \in 1..n - 1 : i + 1 \in 1..n /\ i + 1 # 1 /\ i + 1 > 1
  BY <1>1
<1>5. 1 \in 1..n
  BY <1>1
<1>6. \A r \in Pairs : /\ Starts(1, r) <=> (e.pair = r /\ e.stage = "started")
                       /\ Ends(1, r) <=> (e.pair = r /\ e.stage # "started")
  BY <1>1 DEF Starts, Ends
<1>7. \A r \in Pairs : Started(r)' <=> \E j \in 1..n : j # 1 /\ Starts(j, r)
  <2>1. \A r \in Pairs : Started(r)' <=> \E i \in 1..n - 1 : Starts(i, r)'
    BY <1>1 DEF Started
  <2> QED BY <1>2, <1>3, <1>4, <2>1
<1>8. \A r \in Pairs : Ended(r)' <=> \E j \in 1..n : j # 1 /\ Ends(j, r)
  <2>1. \A r \in Pairs : Ended(r)' <=> \E i \in 1..n - 1 : Ends(i, r)'
    BY <1>1 DEF Ended
  <2> QED BY <1>2, <1>3, <1>4, <2>1
<1>9. \A r \in Pairs : (Started(r) <=> \E j \in 1..n : Starts(j, r)) /\ (Ended(r) <=> \E j \in 1..n : Ends(j, r))
  BY DEF Started, Ended, n
<1>10. ASSUME NEW r \in Pairs, InOrder(r) PROVE InOrder(r)'
  <2>1. ASSUME NEW i \in 1..n - 1, NEW j \in 1..n - 1
        PROVE  /\ Starts(i, r)' /\ Starts(j, r)' => i = j
               /\ Ends(i, r)' /\ Ends(j, r)' => i = j
               /\ Starts(i, r)' /\ Ends(j, r)' => i < j
    <3>1. PICK k \in 1..n, l \in 1..n : k = i + 1 /\ l = j + 1
      BY <1>4
    <3>2. /\ Starts(k, r) /\ Starts(l, r) => k = l
          /\ Ends(k, r) /\ Ends(l, r) => k = l
          /\ Starts(k, r) /\ Ends(l, r) => k < l
      BY <1>10 DEF InOrder, n
    <3>3. (k = l => i = j) /\ (k < l => i < j)
      BY <1>1, <3>1
    <3>4. /\ Starts(i, r)' <=> Starts(k, r)
          /\ Starts(j, r)' <=> Starts(l, r)
          /\ Ends(i, r)' <=> Ends(k, r)
          /\ Ends(j, r)' <=> Ends(l, r)
      BY <1>2, <3>1
    <3> QED BY <3>2, <3>3, <3>4
  <2>2. InOrder(r)' <=>
          \A i, j \in 1..n - 1 : /\ Starts(i, r)' /\ Starts(j, r)' => i = j
                                 /\ Ends(i, r)' /\ Ends(j, r)' => i = j
                                 /\ Starts(i, r)' /\ Ends(j, r)' => i < j
    BY <1>1 DEF InOrder
  <2> QED BY <2>1, <2>2
<1>11. ASSUME NEW r \in Pairs, r # e.pair PROVE (Started(r)' <=> Started(r)) /\ (Ended(r)' <=> Ended(r))
  BY <1>6, <1>7, <1>8, <1>9, <1>11
<1>12. ASSUME NEW r \in Pairs, r = e.pair, InOrder(r), e.stage = "started"
       PROVE  Started(r) /\ ~Started(r)' /\ (Ended(r)' <=> Ended(r))
  <2>1. Starts(1, r) /\ ~Ends(1, r) /\ \A j \in 1..n : Starts(j, r) => j = 1
    BY <1>5, <1>6, <1>12 DEF InOrder, n
  <2> QED BY <2>1, <1>5, <1>7, <1>8, <1>9
<1>13. ASSUME NEW r \in Pairs, r = e.pair, InOrder(r), e.stage # "started"
       PROVE  Ended(r) /\ ~Started(r) /\ ~Started(r)' /\ ~Ended(r)'
  <2>1. Ends(1, r)
    BY <1>6, <1>13
  <2>2. \A j \in 1..n : Ends(j, r) => j = 1
    BY <1>5, <1>13, <2>1 DEF InOrder, n
  <2>3. \A j \in 1..n : Starts(j, r) => j < 1
    BY <1>5, <1>13, <2>1 DEF InOrder, n
  <2>4. \A j \in 1..n : ~Starts(j, r)
    BY <1>1, <2>3
  <2> QED BY <2>1, <2>2, <2>4, <1>5, <1>7, <1>8, <1>9
<1> QED BY <1>1, <1>10, <1>11, <1>12, <1>13

LEMMA deliveredKeepsInv ==
  ASSUME SyncInv, delivered
  PROVE  SyncInv'
<1>0. SyncTypeOK /\ PairsInv /\ EditInv
  BY DEF SyncInv
<1>1. PICK e : e = Head(runEvents)
  OBVIOUS
<1>2. /\ runEvents # <<>> /\ runEvents' = Tail(runEvents)
      /\ UNCHANGED <<ref, stored, raced, ops, active>>
      /\ \/ /\ running' = IF e.stage = "started" THEN running \cup {e.pair} ELSE running \ {e.pair}
            /\ UNCHANGED excused
         \/ excused' = excused \cup {e.pair} /\ UNCHANGED running
  BY <1>1 DEF delivered
<1>3. /\ runEvents' \in Seq(RunEvents) /\ e \in RunEvents
      /\ \A r \in Pairs : r # e.pair => /\ Started(r)' <=> Started(r)
                                        /\ Ended(r)' <=> Ended(r)
      /\ \A r \in Pairs : InOrder(r) => InOrder(r)'
      /\ \A r \in Pairs : r = e.pair /\ InOrder(r) =>
           IF e.stage = "started" THEN Started(r) /\ ~Started(r)' /\ (Ended(r)' <=> Ended(r))
           ELSE Ended(r) /\ ~Started(r) /\ ~Started(r)' /\ ~Ended(r)'
  BY <1>0, <1>1, <1>2, Arrived
<1>4. PICK p \in Pairs : p = e.pair
  BY <1>3 DEF RunEvents
<1>5. running' \subseteq Pairs
  BY <1>0, <1>2, <1>4 DEF SyncTypeOK
<1>6. SyncTypeOK'
  BY <1>0, <1>2, <1>3, <1>5 DEF SyncTypeOK
<1>7. /\ \A r \in Pairs : RunsOf(r)' = RunsOf(r)
      /\ \A r \in Pairs, q \in Ops : Waits(q, r)' <=> Waits(q, r)
  BY <1>2 DEF RunsOf, Waits
<1>8. ASSUME NEW r \in Pairs, r # p PROVE UserRuns(r)' /\ (r \notin excused' => PairInv(r)')
  BY <1>0, <1>2, <1>3, <1>4, <1>7, <1>8, OtherPairs
<1>9. UserRuns(p)'
  BY <1>0, <1>2, <1>7 DEF PairsInv, UserRuns
<1>10. ASSUME p \notin excused' PROVE PairInv(p)'
  <2>1. /\ running' = (IF e.stage = "started" THEN running \cup {p} ELSE running \ {p})
        /\ p \notin excused
    BY <1>2, <1>4, <1>10
  <2>2. PairInv(p) /\ InOrder(p) /\ InOrder(p)'
    BY <1>0, <1>3, <2>1 DEF PairsInv, PairInv
  <2>3. IF e.stage = "started" THEN Started(p) /\ ~Started(p)' /\ (Ended(p)' <=> Ended(p))
        ELSE Ended(p) /\ ~Started(p) /\ ~Started(p)' /\ ~Ended(p)'
    BY <1>3, <1>4, <2>2
  <2>4. RunsOf(p) = {} /\ RunsOf(p)' = {}
    BY <1>7, <2>2, <2>3 DEF PairInv
  <2>5. CASE e.stage = "started"
    <3>1. active[p] = "scheduler" \/ Ended(p)
      BY <2>2, <2>3, <2>4, <2>5 DEF PairInv
    <3>2. Ended(p) => active[p] = "none"
      BY <2>2, <2>4 DEF PairInv
    <3>3. p \in running'
      BY <2>1, <2>5
    <3> QED BY <1>2, <2>2, <2>3, <2>4, <2>5, <3>1, <3>2, <3>3 DEF PairInv
  <2>6. CASE e.stage # "started"
    <3>1. active[p] = "none"
      BY <2>2, <2>3, <2>4, <2>6 DEF PairInv
    <3>2. p \notin running'
      BY <2>1, <2>6
    <3> QED BY <1>2, <2>2, <2>3, <2>4, <2>6, <3>1, <3>2 DEF PairInv
  <2> QED BY <2>5, <2>6
<1>11. PairsInv'
  BY <1>8, <1>9, <1>10 DEF PairsInv
<1>12. EditInv'
  BY <1>0, <1>2, EditsUndisturbed
<1> QED BY <1>6, <1>11, <1>12 DEF SyncInv
-----------------------------------------------------------------------------
LEMMA SyncInvInit == SyncInit => SyncInv
<1> SUFFICES ASSUME SyncInit PROVE SyncInv
  OBVIOUS
<1> DEFINE first == NewCall("load", "none", "save", <<>>)
<1>1. [None EXCEPT !.kind = "load", !.at = "save"] = [[None EXCEPT !.kind = "load"] EXCEPT !.at = "save"]
  OBVIOUS
<1>2. [[None EXCEPT !.kind = "load"] EXCEPT !.at = "save"] = first
  <2>1. [None EXCEPT !.kind = "load"] = NewCall("load", "none", "none", <<>>)
    BY DEF None, NewCall
  <2>2. [NewCall("load", "none", "none", <<>>) EXCEPT !.at = "save"] = first
    BY DEF NewCall
  <2> QED BY <2>1, <2>2
<1>3. ops = [o \in Ops |-> IF o = 1 THEN [None EXCEPT !.kind = "load", !.at = "save"] ELSE None]
  BY DEF SyncInit
<1>4. IsCall(first) /\ first.kind = "load" /\ first.at = "save"
  BY DEF NewCall, IsCall, Edits, Runs, EditStages
<1> HIDE DEF first
<1>5. /\ ops = [o \in Ops |-> ops[o]]
      /\ \A o \in Ops : IF o = 1 THEN ops[o] = first ELSE ops[o] = None
  BY <1>1, <1>2, <1>3
<1>6. \A o \in Ops : /\ IsCall(ops[o])
                     /\ o = 1 => ops[o].kind = "load" /\ ops[o].at = "save"
                     /\ o # 1 => ops[o].kind = "none" /\ ops[o].at = "none"
  BY <1>4, <1>5, NoneIsCall
<1>7. /\ active = [p \in Pairs |-> "none"] /\ running = {} /\ runEvents = <<>>
      /\ excused = {} /\ raced = FALSE
  BY DEF SyncInit
<1>8. SyncTypeOK
  <2>1. active \in [Pairs -> {"none", "user", "scheduler"}]
    BY <1>7
  <2>2. runEvents \in Seq(RunEvents)
    BY <1>7
  <2> QED BY <1>5, <1>6, <1>7, <2>1, <2>2 DEF SyncTypeOK
<1>9. Len(runEvents) = 0
  BY <1>7
<1>10. ASSUME NEW p \in Pairs PROVE UserRuns(p) /\ PairInv(p)
  <2>1. \A o \in Ops : ~Waits(o, p)
    BY <1>6 DEF Waits
  <2>2. RunsOf(p) = {}
    BY <1>6 DEF RunsOf, Runs
  <2>3. ~Started(p) /\ ~Ended(p) /\ InOrder(p)
    BY <1>9 DEF Started, Ended, InOrder
  <2>4. active[p] = "none" /\ p \notin running
    BY <1>7
  <2> QED BY <2>1, <2>2, <2>3, <2>4 DEF UserRuns, PairInv
<1>11. PairsInv
  BY <1>10 DEF PairsInv
<1>12. Editing = {1}
  BY <1>6, SyncAssumption DEF Editing, Edits
<1>13. EditInv
  BY <1>6, <1>12, SyncAssumption DEF EditInv
<1> QED BY <1>8, <1>11, <1>13 DEF SyncInv

LEMMA SyncInvNext == SyncInv /\ [SyncNext]_syncVars => SyncInv'
<1> SUFFICES ASSUME SyncInv, [SyncNext]_syncVars PROVE SyncInv'
  OBVIOUS
<1>1. ASSUME NEW o \in Ops, NEW p \in Pairs,
             \/ addPair(o, p) \/ updatePair(o, p) \/ removePair(o, p) \/ resetPairState(o, p)
             \/ runPair(o, p) \/ resolveConflict(o, p)
      PROVE  SyncInv'
  BY <1>1, editKeepsInv, removePairKeepsInv, resetPairStateKeepsInv, startRunKeepsInv
<1>2. ASSUME NEW o \in Ops, syncStep(o) PROVE SyncInv'
  <2>1. CASE validated(o) \/ cleared(o) \/ revoked(o) \/ written(o) \/ persisted(o)
    BY <2>1, validatedKeepsInv, clearedKeepsInv, revokedKeepsInv, writtenKeepsInv, persistedKeepsInv
  <2>2. CASE fails(o) \/ beginRun(o) \/ endRun(o) \/ runAnswered(o) \/ conflictsRead(o)
    BY <2>2, failsKeepsInv, beginRunKeepsInv, endRunKeepsInv, runAnsweredKeepsInv,
       conflictsReadKeepsInv
  <2> QED BY <1>2, <2>1, <2>2 DEF syncStep
<1>3. ASSUME NEW p \in Pairs, scheduled(p) \/ finished(p) PROVE SyncInv'
  BY <1>3, scheduledKeepsInv, finishedKeepsInv
<1>4. CASE delivered
  BY <1>4, deliveredKeepsInv
<1>5. CASE subscribe \/ configure \/ sessionChanges \/ UNCHANGED syncVars
  BY <1>5, otherwiseKeepsInv
<1> QED BY <1>1, <1>2, <1>3, <1>4, <1>5 DEF SyncNext

LEMMA SyncInvIsTrue == SyncInv => SyncIsTrue
<1> SUFFICES ASSUME SyncInv PROVE SyncIsTrue
  OBVIOUS
<1>0. SyncTypeOK /\ PairsInv /\ EditInv
  BY DEF SyncInv
<1>1. EditsAreKept
  BY <1>0 DEF EditInv, EditsAreKept
<1>2. ASSUME NEW p \in Pairs \ excused
      PROVE  /\ p \in running => RunsOf(p) # {} \/ active[p] # "none" \/ Told(p)
             /\ active[p] # "none" => p \in running \/ Told(p)
             /\ Cardinality(RunsOf(p)) <= 1
  <2>1. UserRuns(p) /\ PairInv(p)
    BY <1>0 DEF PairsInv
  <2>2. Told(p) <=> Started(p) \/ Ended(p)
    BY <1>0, ToldIsOnItsWay
  <2>3. active[p] \in {"none", "user", "scheduler"}
    BY <1>0 DEF SyncTypeOK
  <2>4. active[p] = "user" => RunsOf(p) # {}
    <3>1. \A o \in Ops : Waits(o, p) => o \in RunsOf(p)
      BY <1>0 DEF SyncTypeOK, IsCall, Waits, RunsOf, Runs, EditStages, Edits
    <3> QED BY <2>1, <3>1 DEF UserRuns
  <2>5. CASE RunsOf(p) = {}
    <3>1. Cardinality(RunsOf(p)) = 0
      BY <2>5, FS_EmptySet
    <3> QED BY <2>1, <2>2, <2>3, <2>4, <2>5, <3>1 DEF PairInv
  <2>6. CASE RunsOf(p) # {}
    <3>1. p \in running /\ \A o, q \in RunsOf(p) : o = q
      BY <2>1, <2>6 DEF PairInv
    <3>2. PICK o : RunsOf(p) = {o}
      BY <2>6, <3>1
    <3>3. Cardinality(RunsOf(p)) = 1
      BY <3>2, FS_Singleton
    <3> QED BY <2>6, <3>1, <3>3
  <2> QED BY <2>5, <2>6
<1>3. RunningIsTrue
  BY <1>2 DEF RunningIsTrue
<1> QED BY <1>1, <1>3 DEF SyncIsTrue

\* The provider knows what runs, and the list in memory is the one in the file
\* once no edit is under way (SyncIsTrue), for any pairs, versions, calls and
\* events of sync-provider.tsx.
THEOREM SyncIsAlwaysTrue == SyncSpec => []SyncIsTrue
<1>1. SyncInit => SyncInv
  BY SyncInvInit
<1>2. SyncInv /\ [SyncNext]_syncVars => SyncInv'
  BY SyncInvNext
<1>3. SyncInv => SyncIsTrue
  BY SyncInvIsTrue
<1> QED BY <1>1, <1>2, <1>3, PTL DEF SyncSpec

-------------------------------------------------------------------------------
(* LocalProvisioning.                                                         *)

Phases == {"none", "called", "prepare", "database", "backend", "connect", "web", "finish",
           "succeeded", "stopping", "rollback", "failed"}
Switch == {"on", "off"}
Reads == [snapshot : LocalRuntimeSnapshot, late : BOOLEAN]

ProvisioningTypeOK ==
  /\ localRuntime \in LocalRuntimeSnapshot
  /\ attempt = [at |-> attempt.at, web |-> attempt.web, started |-> attempt.started]
  /\ attempt.at \in Phases /\ attempt.started \subseteq {"pg", "backend", "web"}
  /\ config \in Switch /\ settings \in Switch \cup {Unknown} /\ loads \subseteq Switch
  /\ screen \in {"form", "steps", "connected"}
  /\ steps = [reached |-> steps.reached, webError |-> steps.webError, error |-> steps.error]
  /\ steps.reached \in ToSet(STAGES) /\ steps.webError \in BOOLEAN /\ steps.error \in BOOLEAN
  /\ polls \in Seq(Reads)

Both == {"pg", "backend"}
Down == ~Up(localRuntime.pg) /\ ~Up(localRuntime.backend)
AllUp == Up(localRuntime.pg) /\ Up(localRuntime.backend)

\* What the runtime looks like while a command is where it is.
RuntimeIs ==
  /\ attempt.at = "none" => polls = <<>> /\ (screen # "connected" => Down)
  /\ attempt.at # "none" => screen = "steps" /\ ~steps.error
  /\ attempt.at \in {"called", "prepare", "failed"} => Down
  /\ attempt.at \in {"called", "prepare"} => attempt.started = {}
  /\ attempt.at = "prepare" => localRuntime.status = "preparing"
  /\ attempt.at \in {"database", "backend", "connect", "web", "finish"} => Both \subseteq attempt.started
  /\ attempt.at \in {"database", "backend", "connect", "web"} => localRuntime.web \in {"none", "installed"}
  /\ attempt.at = "database" =>
       /\ Down
       /\ \/ localRuntime.status = "installing" /\ localRuntime.pg = "none"
          \/ localRuntime.status = "startingDatabase" /\ localRuntime.pg = "installed"
  /\ attempt.at = "backend" =>
       /\ Up(localRuntime.pg) /\ ~Up(localRuntime.backend)
       /\ \/ localRuntime.status \in {"databaseReady", "startingBackend"}
          \/ localRuntime.status = "installing" /\ localRuntime.backend = "none"
  /\ attempt.at = "connect" => AllUp /\ localRuntime.status = "startingBackend"
  /\ attempt.at = "web" => AllUp /\ config = "on" /\ localRuntime.status \in {"installing", "startingWeb"}
  /\ attempt.at = "finish" =>
       /\ AllUp
       /\ \/ localRuntime.status \in {"startingBackend", "startingWeb"}
          \/ localRuntime.status = "installing" /\ localRuntime.web = "error"
  /\ attempt.at \in {"succeeded", "stopping"} => AllUp /\ localRuntime.status = "ready"
  /\ attempt.at = "rollback" => IF attempt.started = {} THEN Down ELSE Both \subseteq attempt.started
  /\ attempt.at = "failed" => localRuntime.status \in {"failed", "stopped"}
  /\ screen = "connected" => localRuntime.status = "ready" /\ AllUp
  /\ steps.error => attempt = Resting

\* How far a snapshot makes the screen believe the runtime is.
StageOf(s, web) == Index(getLocalProvisioningStage(s, web = "on"))

\* The parts before the n-th stage are done, but for the web interface.
AllBefore(n, parts) ==
  /\ n > 1 => "prepare" \in parts
  /\ n > 2 => "postgresqlRuntime" \in parts
  /\ n > 3 => "database" \in parts
  /\ n > 4 => "backend" \in parts

Watched == attempt.at \notin {"none", "called"}

\* What the command has finished by then.
WorkIsDone ==
  /\ attempt.at \notin {"none", "called", "prepare"} =>
       "prepare" \in done /\ (localRuntime.pg # "none" => "postgresqlRuntime" \in done)
  /\ attempt.at \in {"backend", "connect", "web", "finish", "succeeded", "stopping"} => "database" \in done
  /\ attempt.at \in {"connect", "web", "finish", "succeeded", "stopping"} => "backend" \in done
  /\ attempt.at \in {"succeeded", "stopping"} => "web" \in done

\* What is shown, what is on its way and what is to be read, is done.
Known == forgiven \cap {"early", "unprepared", "reread"} = {}
SettingsAreKnown ==
  screen = "steps" /\ "reread" \notin forgiven =>
    settings = config /\ (attempt.at # "none" => attempt.web = config)
ReachedIsDone ==
  screen = "steps" /\ Known =>
    /\ WorkIsDone
    /\ AllBefore(Index(steps.reached), done)
    /\ \A i \in 1..Len(polls) : AllBefore(StageOf(polls[i].snapshot, config), done)
    /\ Watched => AllBefore(StageOf(localRuntime, config), done)

\* In the first attempt: a web interface that is passed and not done has failed,
\* and no later snapshot of the attempt says otherwise.
WebFailed == attempt.at \in {"finish", "rollback", "failed"} /\ localRuntime.web = "error"
WebIsDone ==
  screen = "steps" /\ forgiven = {} /\ config = "on" /\ "web" \notin done =>
    /\ Index(steps.reached) = 6 =>
         /\ steps.webError /\ (attempt.at = "none" \/ WebFailed)
         /\ \A i \in 1..Len(polls) : ~polls[i].late => polls[i].snapshot.web = "error"
    /\ Watched /\ StageOf(localRuntime, config) = 6 => WebFailed
    /\ \A i \in 1..Len(polls) : ~polls[i].late /\ StageOf(polls[i].snapshot, config) = 6 =>
         WebFailed /\ \A j \in i..Len(polls) : polls[j].snapshot.web = "error"

\* In the first attempt: the screen is not ahead of the runtime, nor of where it
\* failed.
Limit ==
  IF attempt.at \in {"called", "prepare"} THEN 1
  ELSE IF attempt.at = "database" THEN IF localRuntime.pg = "none" THEN 2 ELSE 3
  ELSE IF attempt.at = "backend" THEN 4
  ELSE IF attempt.at \in {"connect", "web", "finish", "succeeded"} THEN 6
  ELSE Index(failedAt)
NotAhead ==
  screen = "steps" /\ forgiven = {} =>
    /\ Index(steps.reached) <= Limit
    /\ \A i \in 1..Len(polls) : StageOf(polls[i].snapshot, config) <= Limit
    /\ Watched => StageOf(localRuntime, config) <= Limit
    /\ attempt.at \in {"rollback", "failed"} =>
         \/ failedAt = "postgresqlRuntime" /\ localRuntime.pg = "none"
         \/ failedAt \in {"database", "backend", "connect"}
    /\ attempt.at = "stopping" => failedAt = "connect"

ProvisioningInv ==
  /\ ProvisioningTypeOK /\ RuntimeIs /\ SettingsAreKnown /\ ReachedIsDone /\ WebIsDone /\ NotAhead
-----------------------------------------------------------------------------
(* The stages.                                                                 *)

\* The stages by number.
LEMMA IndexIs ==
  /\ Index("prepare") = 1 /\ Index("postgresqlRuntime") = 2 /\ Index("database") = 3
  /\ Index("backend") = 4 /\ Index("web") = 5 /\ Index("connect") = 6
<1>1. DOMAIN STAGES = 1..6
  BY DEF STAGES
<1>2. \A i \in 1..6 : /\ STAGES[i] = "prepare" <=> i = 1
                      /\ STAGES[i] = "postgresqlRuntime" <=> i = 2
                      /\ STAGES[i] = "database" <=> i = 3
                      /\ STAGES[i] = "backend" <=> i = 4
                      /\ STAGES[i] = "web" <=> i = 5
                      /\ STAGES[i] = "connect" <=> i = 6
  BY DEF STAGES
<1>3. Index("prepare") = 1
  BY <1>1, <1>2 DEF Index
<1>4. Index("postgresqlRuntime") = 2
  BY <1>1, <1>2 DEF Index
<1>5. Index("database") = 3
  BY <1>1, <1>2 DEF Index
<1>6. Index("backend") = 4
  BY <1>1, <1>2 DEF Index
<1>7. Index("web") = 5
  BY <1>1, <1>2 DEF Index
<1>8. Index("connect") = 6
  BY <1>1, <1>2 DEF Index
<1> QED BY <1>3, <1>4, <1>5, <1>6, <1>7, <1>8

\* The stages by name.
LEMMA StagesAre ==
  ToSet(STAGES) = {"prepare", "postgresqlRuntime", "database", "backend", "web", "connect"}
  BY DEF ToSet, STAGES

\* The stage a snapshot names.
LEMMA StageIs ==
  ASSUME NEW s \in LocalRuntimeSnapshot, NEW web
  PROVE  /\ StageOf(s, web) \in 1..6
         /\ s.status \in {"preparing", "stopped", "disabled"} => StageOf(s, web) = 1
         /\ s.status \in {"startingDatabase", "databaseReady"} => StageOf(s, web) = 3
         /\ s.status = "startingBackend" => StageOf(s, web) = 4
         /\ s.status = "startingWeb" => StageOf(s, web) = 5
         /\ s.status = "ready" => StageOf(s, web) = 6
         /\ s.status \in {"failed", "installing"} /\ s.pg = "none" => StageOf(s, web) = 2
         /\ s.status = "failed" /\ s.pg = "installed" => StageOf(s, web) = 3
         /\ s.status = "installing" /\ s.pg = "running" /\ s.backend = "none" => StageOf(s, web) = 4
         /\ s.status = "installing" /\ s.pg = "running" /\ s.backend = "running" /\ web = "on"
              /\ s.web \in {"none", "installed"} => StageOf(s, web) = 5
         /\ s.status = "installing" /\ s.pg = "running" /\ s.backend = "running" /\ s.web = "error"
              => StageOf(s, web) = 6
<1>1. PICK named : named = getLocalProvisioningStage(s, web = "on")
  OBVIOUS
<1>2. /\ s.status \in {"disabled", "preparing", "installing", "stopped", "startingDatabase", "databaseReady",
                       "startingBackend", "startingWeb", "ready", "failed"}
      /\ s.pg \in {"none", "installed", "running"} /\ s.backend \in {"none", "installed", "running"}
      /\ s.web \in {"none", "installed", "running", "error"}
  BY DEF LocalRuntimeSnapshot
<1>3. PICK infer : infer = inferIncompleteStage(s, web = "on")
  OBVIOUS
<1>4. /\ infer \in {"postgresqlRuntime", "database", "backend", "web", "connect"}
      /\ s.pg = "none" => infer = "postgresqlRuntime"
      /\ s.pg = "installed" => infer = "database"
      /\ s.pg = "running" /\ s.backend = "running" /\ web = "on" /\ s.web \in {"none", "installed"} => infer = "web"
      /\ s.pg = "running" /\ s.backend = "running" /\ s.web = "error" => infer = "connect"
  BY <1>2, <1>3 DEF inferIncompleteStage
<1>5. /\ s.status \in {"preparing", "stopped", "disabled"} => named = "prepare"
      /\ s.status \in {"startingDatabase", "databaseReady"} => named = "database"
      /\ s.status = "startingBackend" => named = "backend"
      /\ s.status = "startingWeb" => named = "web"
      /\ s.status = "ready" => named = "connect"
      /\ s.status = "failed" => named = infer
      /\ s.status = "installing" =>
           named = IF s.pg = "none" THEN "postgresqlRuntime"
                   ELSE IF s.pg = "running" /\ s.backend = "none" THEN "backend" ELSE infer
  BY <1>1, <1>2, <1>3 DEF getLocalProvisioningStage
<1>6. StageOf(s, web) = Index(named)
  BY <1>1 DEF StageOf
<1> QED BY <1>2, <1>4, <1>5, <1>6, IndexIs

\* The steps once a snapshot is shown.
ShownOf(old, s, web) == Shows(old, s, web = "on")

\* The screen goes on to the stage a snapshot names, and never back.
LEMMA ShowsIs ==
  ASSUME NEW old, old = [reached |-> old.reached, webError |-> old.webError, error |-> old.error],
         old.reached \in ToSet(STAGES), old.error \in BOOLEAN,
         NEW s \in LocalRuntimeSnapshot, NEW web, NEW x, x = ShownOf(old, s, web)
  PROVE  /\ x = [reached |-> x.reached, webError |-> x.webError, error |-> x.error]
         /\ x.reached \in ToSet(STAGES) /\ x.webError \in BOOLEAN /\ x.error = old.error
         /\ x.webError <=> s.web = "error"
         /\ Index(x.reached) = Index(old.reached) \/ Index(x.reached) = StageOf(s, web)
         /\ Index(x.reached) >= Index(old.reached)
<1>1. PICK named : named = getLocalProvisioningStage(s, web = "on")
  OBVIOUS
<1>2. Index(named) = StageOf(s, web) /\ StageOf(s, web) \in 1..6
  BY <1>1, StageIs DEF StageOf
<1>3. PICK r : r = advanceLocalProvisioningStage(old.reached, named)
  OBVIOUS
<1>4. PICK e \in BOOLEAN : e = (s.web = "error")
  OBVIOUS
<1>5. PICK a, b, c : old = [reached |-> a, webError |-> b, error |-> c]
  OBVIOUS
<1>6. x = [old EXCEPT !.webError = s.web = "error",
                      !.reached = advanceLocalProvisioningStage(@, getLocalProvisioningStage(s, web = "on"))]
  BY DEF Shows, ShownOf
<1>7. x = [old EXCEPT !.webError = e, !.reached = r]
  BY <1>1, <1>3, <1>4, <1>5, <1>6
<1>8. x = [reached |-> r, webError |-> e, error |-> c]
  BY <1>5, <1>7
<1>9. Index(old.reached) \in 1..6
  BY StagesAre, IndexIs
<1>10. named \in ToSet(STAGES)
  BY <1>1, StagesAre DEF getLocalProvisioningStage, inferIncompleteStage
<1>11. r \in ToSet(STAGES) /\ Index(r) >= Index(old.reached)
       /\ (Index(r) = Index(old.reached) \/ Index(r) = Index(named))
  BY <1>2, <1>3, <1>9, <1>10 DEF advanceLocalProvisioningStage
<1>12. x.reached = r /\ x.webError = e /\ x.error = c /\ old.error = c /\ (e <=> s.web = "error")
  <2>1. x.reached = r /\ x.webError = e /\ x.error = c
    BY <1>8
  <2>2. old.error = c
    BY <1>5
  <2>3. e <=> s.web = "error"
    BY <1>4
  <2> QED BY <2>1, <2>2, <2>3
<1>13. x = [reached |-> x.reached, webError |-> x.webError, error |-> x.error]
  BY <1>8
<1>14. x.webError \in BOOLEAN /\ (x.webError <=> s.web = "error")
  BY <1>12
<1> QED BY <1>2, <1>11, <1>12, <1>13, <1>14
-----------------------------------------------------------------------------
(* The native runtime.                                                         *)

\* A snapshot that was read.
LEMMA PollIs ==
  ASSUME ProvisioningTypeOK, NEW i \in 1..Len(polls)
  PROVE  /\ polls[i].snapshot \in LocalRuntimeSnapshot /\ polls[i].late \in BOOLEAN
         /\ polls[i] = [snapshot |-> polls[i].snapshot, late |-> polls[i].late]
<1>1. polls \in Seq(Reads)
  BY DEF ProvisioningTypeOK
<1>2. polls[i] \in Reads
  BY <1>1
<1> QED BY <1>2 DEF Reads

\* What is to be read is done, and the first attempt.
Stays == Known => WorkIsDone /\ AllBefore(StageOf(localRuntime, config), done)
FirstAttempt == screen = "steps" /\ forgiven = {}

\* A step of the command that finishes at least what it had finished, and takes
\* the screen no further than the runtime is.
LEMMA NativeKeepsInv ==
  ASSUME ProvisioningInv, NativeFrame, attempt.at # "none", Watched', attempt'.web = attempt.web,
         attempt' = [at |-> attempt'.at, web |-> attempt'.web, started |-> attempt'.started],
         attempt'.at \in Phases, attempt'.started \subseteq {"pg", "backend", "web"},
         localRuntime' \in LocalRuntimeSnapshot, done \subseteq done', forgiven' = forgiven,
         RuntimeIs', Stays',
         FirstAttempt /\ config = "on" /\ "web" \notin done' =>
           (WebFailed => WebFailed') /\ (StageOf(localRuntime', config) = 6 => WebFailed'),
         FirstAttempt => /\ Limit <= Limit' /\ StageOf(localRuntime', config) <= Limit'
                         /\ Limit \in 1..6 /\ Limit' \in 1..6
                         /\ attempt'.at \in {"rollback", "failed"} =>
                              \/ failedAt = "postgresqlRuntime" /\ localRuntime'.pg = "none"
                              \/ failedAt \in {"database", "backend", "connect"}
                         /\ attempt'.at = "stopping" => failedAt = "connect"
  PROVE  ProvisioningInv'
<1>1. UNCHANGED <<config, screen, steps, settings, loads, polls, failedAt>>
  BY DEF NativeFrame
<1>2. ProvisioningTypeOK /\ RuntimeIs /\ SettingsAreKnown /\ ReachedIsDone /\ WebIsDone /\ NotAhead
  BY DEF ProvisioningInv
<1>3. ProvisioningTypeOK'
  BY <1>1, <1>2 DEF ProvisioningTypeOK
<1>4. \A n : AllBefore(n, done) => AllBefore(n, done')
  BY DEF AllBefore
<1>5. ReachedIsDone'
  <2> SUFFICES ASSUME screen = "steps", Known
               PROVE  /\ WorkIsDone'
                      /\ AllBefore(Index(steps.reached), done')
                      /\ \A i \in 1..Len(polls) : AllBefore(StageOf(polls[i].snapshot, config), done')
                      /\ AllBefore(StageOf(localRuntime', config), done')
    BY <1>1 DEF ReachedIsDone, Known
  <2>1. WorkIsDone' /\ AllBefore(StageOf(localRuntime', config), done')
    BY <1>1 DEF Stays, Known
  <2> QED BY <2>1, <1>2, <1>4 DEF ReachedIsDone
<1>6. WebIsDone'
  <2> SUFFICES ASSUME screen = "steps", forgiven = {}, config = "on", "web" \notin done'
               PROVE  /\ Index(steps.reached) = 6 =>
                           /\ steps.webError /\ WebFailed'
                           /\ \A i \in 1..Len(polls) : ~polls[i].late => polls[i].snapshot.web = "error"
                      /\ StageOf(localRuntime', config) = 6 => WebFailed'
                      /\ \A i \in 1..Len(polls) : ~polls[i].late /\ StageOf(polls[i].snapshot, config) = 6 =>
                           WebFailed' /\ \A j \in i..Len(polls) : polls[j].snapshot.web = "error"
    BY <1>1 DEF WebIsDone
  <2>1. "web" \notin done /\ (WebFailed => WebFailed') /\ (StageOf(localRuntime', config) = 6 => WebFailed')
    BY DEF FirstAttempt
  <2> QED BY <2>1, <1>2 DEF WebIsDone
<1>7. NotAhead'
  <2> SUFFICES ASSUME screen = "steps", forgiven = {}
               PROVE  /\ Index(steps.reached) <= Limit'
                      /\ \A i \in 1..Len(polls) : StageOf(polls[i].snapshot, config) <= Limit'
                      /\ StageOf(localRuntime', config) <= Limit'
                      /\ attempt'.at \in {"rollback", "failed"} =>
                           \/ failedAt = "postgresqlRuntime" /\ localRuntime'.pg = "none"
                           \/ failedAt \in {"database", "backend", "connect"}
                      /\ attempt'.at = "stopping" => failedAt = "connect"
    BY <1>1 DEF NotAhead
  <2>1. /\ Limit <= Limit' /\ Limit \in 1..6 /\ Limit' \in 1..6 /\ StageOf(localRuntime', config) <= Limit'
        /\ attempt'.at \in {"rollback", "failed"} =>
             \/ failedAt = "postgresqlRuntime" /\ localRuntime'.pg = "none"
             \/ failedAt \in {"database", "backend", "connect"}
        /\ attempt'.at = "stopping" => failedAt = "connect"
    BY DEF FirstAttempt
  <2>2. Index(steps.reached) <= Limit /\ Index(steps.reached) \in 1..6
    BY <1>2, IndexIs, StagesAre DEF NotAhead, ProvisioningTypeOK
  <2>3. ASSUME NEW i \in 1..Len(polls) PROVE StageOf(polls[i].snapshot, config) <= Limit'
    <3>1. polls[i].snapshot \in LocalRuntimeSnapshot
      BY <1>2, PollIs
    <3>2. StageOf(polls[i].snapshot, config) \in 1..6 /\ StageOf(polls[i].snapshot, config) <= Limit
      BY <3>1, <1>2, StageIs DEF NotAhead
    <3> QED BY <3>2, <2>1
  <2> QED BY <2>1, <2>2, <2>3
<1>8. SettingsAreKnown'
  BY <1>1, <1>2 DEF SettingsAreKnown
<1> QED BY <1>3, <1>5, <1>6, <1>7, <1>8 DEF ProvisioningInv

\* The snapshot with another status.
LEMMA StatusIs ==
  ASSUME NEW s \in LocalRuntimeSnapshot, NEW status, NEW x, x = [s EXCEPT !.status = status],
         status \in {"disabled", "preparing", "installing", "stopped", "startingDatabase", "databaseReady",
                     "startingBackend", "startingWeb", "ready", "failed"}
  PROVE  x \in LocalRuntimeSnapshot /\ x.status = status /\ x.pg = s.pg /\ x.backend = s.backend /\ x.web = s.web
  BY DEF LocalRuntimeSnapshot

\* The snapshot with another state of PostgreSQL.
LEMMA PgIs ==
  ASSUME NEW s \in LocalRuntimeSnapshot, NEW v \in {"none", "installed", "running"}, NEW x, x = [s EXCEPT !.pg = v]
  PROVE  x \in LocalRuntimeSnapshot /\ x.status = s.status /\ x.pg = v /\ x.backend = s.backend /\ x.web = s.web
  BY DEF LocalRuntimeSnapshot

\* The snapshot with another state of the backend.
LEMMA BackendIs ==
  ASSUME NEW s \in LocalRuntimeSnapshot, NEW v \in {"none", "installed", "running"}, NEW x, x = [s EXCEPT !.backend = v]
  PROVE  x \in LocalRuntimeSnapshot /\ x.status = s.status /\ x.pg = s.pg /\ x.backend = v /\ x.web = s.web
  BY DEF LocalRuntimeSnapshot

\* The snapshot with another state of the web interface.
LEMMA WebIs ==
  ASSUME NEW s \in LocalRuntimeSnapshot, NEW v \in {"none", "installed", "running", "error"}, NEW x,
         x = [s EXCEPT !.web = v]
  PROVE  x \in LocalRuntimeSnapshot /\ x.status = s.status /\ x.pg = s.pg /\ x.backend = s.backend /\ x.web = v
  BY DEF LocalRuntimeSnapshot

\* The command at another step.
LEMMA PhaseIs ==
  ASSUME NEW a, a = [at |-> a.at, web |-> a.web, started |-> a.started], NEW phase, NEW x, x = [a EXCEPT !.at = phase]
  PROVE  /\ x = [at |-> x.at, web |-> x.web, started |-> x.started]
         /\ x.at = phase /\ x.web = a.web /\ x.started = a.started
<1>1. PICK p, q, r : a = [at |-> p, web |-> q, started |-> r]
  OBVIOUS
<1>2. x = [at |-> phase, web |-> q, started |-> r]
  BY <1>1
<1> QED BY <1>1, <1>2

\* The command with other parts it started.
LEMMA StartedIs ==
  ASSUME NEW a, a = [at |-> a.at, web |-> a.web, started |-> a.started], NEW parts, NEW x,
         x = [a EXCEPT !.started = parts]
  PROVE  /\ x = [at |-> x.at, web |-> x.web, started |-> x.started]
         /\ x.at = a.at /\ x.web = a.web /\ x.started = parts
<1>1. PICK p, q, r : a = [at |-> p, web |-> q, started |-> r]
  OBVIOUS
<1>2. x = [at |-> p, web |-> q, started |-> parts]
  BY <1>1
<1> QED BY <1>1, <1>2

\* What the invariant says while a command is under way.
LEMMA UnderWay ==
  ASSUME ProvisioningInv, attempt.at # "none"
  PROVE  /\ localRuntime \in LocalRuntimeSnapshot /\ RuntimeIs /\ screen = "steps" /\ ~steps.error
         /\ attempt = [at |-> attempt.at, web |-> attempt.web, started |-> attempt.started]
         /\ attempt.at \in Phases /\ attempt.started \subseteq {"pg", "backend", "web"}
         /\ Known => WorkIsDone /\ (Watched => AllBefore(StageOf(localRuntime, config), done))
         /\ FirstAttempt /\ Watched => StageOf(localRuntime, config) <= Limit
         /\ FirstAttempt /\ attempt.at \in {"rollback", "failed"} =>
              \/ failedAt = "postgresqlRuntime" /\ localRuntime.pg = "none"
              \/ failedAt \in {"database", "backend", "connect"}
         /\ FirstAttempt /\ attempt.at = "stopping" => failedAt = "connect"
         /\ FirstAttempt /\ config = "on" /\ "web" \notin done /\ Watched /\ StageOf(localRuntime, config) = 6 =>
              WebFailed
<1>1. ProvisioningTypeOK /\ RuntimeIs /\ ReachedIsDone /\ WebIsDone /\ NotAhead
  BY DEF ProvisioningInv
<1>2. screen = "steps" /\ ~steps.error
  BY <1>1 DEF RuntimeIs
<1> QED BY <1>1, <1>2 DEF ProvisioningTypeOK, ReachedIsDone, WebIsDone, NotAhead, FirstAttempt

\* The command has the lock.
LEMMA BeginKeepsInv ==
  ASSUME ProvisioningInv, Begin
  PROVE  ProvisioningInv'
<1>1. /\ attempt.at = "called" /\ attempt' = [attempt EXCEPT !.at = "prepare"]
      /\ localRuntime' = [localRuntime EXCEPT !.status = "preparing"]
      /\ done' = done /\ forgiven' = forgiven /\ NativeFrame
  BY DEF Begin, step
<1>2. UNCHANGED <<config, screen, steps, settings, loads, polls, failedAt>>
  BY <1>1 DEF NativeFrame
<1>3. /\ localRuntime \in LocalRuntimeSnapshot /\ RuntimeIs /\ screen = "steps" /\ ~steps.error
      /\ attempt = [at |-> attempt.at, web |-> attempt.web, started |-> attempt.started]
      /\ attempt.started \subseteq {"pg", "backend", "web"}
  BY <1>1, UnderWay
<1>4. /\ localRuntime' \in LocalRuntimeSnapshot /\ localRuntime'.status = "preparing"
      /\ localRuntime'.pg = localRuntime.pg /\ localRuntime'.backend = localRuntime.backend
  BY <1>1, <1>3, StatusIs
<1>5. /\ attempt' = [at |-> attempt'.at, web |-> attempt'.web, started |-> attempt'.started]
      /\ attempt'.at = "prepare" /\ attempt'.web = attempt.web /\ attempt'.started = attempt.started
  BY <1>1, <1>3, PhaseIs
<1>6. RuntimeIs'
  BY <1>1, <1>2, <1>3, <1>4, <1>5 DEF RuntimeIs, Down, Up
<1>7. StageOf(localRuntime', config) = 1
  BY <1>4, StageIs
<1>8. Stays'
  BY <1>2, <1>5, <1>7 DEF Stays, WorkIsDone, AllBefore
<1>9. Limit = 1 /\ Limit' = 1
  BY <1>1, <1>5 DEF Limit
<1>10. ~WebFailed
  BY <1>1 DEF WebFailed
<1>11. Watched' /\ attempt.at # "none" /\ attempt'.at \in Phases
  BY <1>1, <1>5 DEF Watched, Phases
<1> QED BY <1>1, <1>3, <1>4, <1>5, <1>6, <1>7, <1>8, <1>9, <1>10, <1>11, NativeKeepsInv

\* The parts are inspected.
LEMMA PrepareKeepsInv ==
  ASSUME ProvisioningInv, Prepare
  PROVE  ProvisioningInv'
<1>1. PICK seen : seen = [localRuntime EXCEPT !.web = IF @ \in {"running", "error"} THEN "installed" ELSE @]
  OBVIOUS
<1>2. /\ attempt.at = "prepare" /\ forgiven' = forgiven /\ NativeFrame
      /\ localRuntime' = [seen EXCEPT !.status = IF seen.pg = "none" THEN "installing" ELSE "startingDatabase"]
      /\ attempt' = [attempt EXCEPT !.at = "database", !.started = {p \in {"pg", "backend"} : ~Up(seen[p])}]
      /\ done' = done \cup ({"prepare"} \cup (IF seen.pg = "none" THEN {} ELSE {"postgresqlRuntime"}))
  BY <1>1, Zenon DEF Prepare, finishes
<1>3. /\ localRuntime \in LocalRuntimeSnapshot /\ RuntimeIs /\ screen = "steps" /\ ~steps.error
      /\ attempt = [at |-> attempt.at, web |-> attempt.web, started |-> attempt.started]
  BY <1>2, UnderWay
<1>4. UNCHANGED <<config, screen, steps, settings, loads, polls, failedAt>>
  BY <1>2 DEF NativeFrame
<1>5. /\ seen \in LocalRuntimeSnapshot /\ seen.pg = localRuntime.pg /\ seen.backend = localRuntime.backend
      /\ seen.web \in {"none", "installed"}
  <2>1. localRuntime.web \in {"none", "installed", "running", "error"}
    BY <1>3 DEF LocalRuntimeSnapshot
  <2>2. PICK v \in {"none", "installed"} : v = IF localRuntime.web \in {"running", "error"} THEN "installed" ELSE localRuntime.web
    BY <2>1
  <2>3. seen = [localRuntime EXCEPT !.web = v]
    BY <1>1, <2>2
  <2> QED BY <2>2, <2>3, <1>3, WebIs
<1>6. seen.pg \in {"none", "installed"} /\ ~Up(seen.backend) /\ ~Up(seen.pg)
  <2>1. Down /\ localRuntime.pg \in {"none", "installed", "running"}
    BY <1>2, <1>3 DEF RuntimeIs, LocalRuntimeSnapshot
  <2> QED BY <2>1, <1>5 DEF Down, Up
<1>7. /\ localRuntime' \in LocalRuntimeSnapshot
      /\ localRuntime'.status = IF seen.pg = "none" THEN "installing" ELSE "startingDatabase"
      /\ localRuntime'.pg = seen.pg /\ localRuntime'.backend = seen.backend /\ localRuntime'.web = seen.web
  <2>1. PICK st \in {"installing", "startingDatabase"} : st = IF seen.pg = "none" THEN "installing" ELSE "startingDatabase"
    OBVIOUS
  <2> QED BY <2>1, <1>2, <1>5, StatusIs
<1>8. {p \in {"pg", "backend"} : ~Up(seen[p])} = {"pg", "backend"}
  <2>1. seen["pg"] = seen.pg /\ seen["backend"] = seen.backend
    OBVIOUS
  <2> QED BY <2>1, <1>6
<1>9. /\ attempt' = [at |-> attempt'.at, web |-> attempt'.web, started |-> attempt'.started]
      /\ attempt'.at = "database" /\ attempt'.web = attempt.web /\ attempt'.started = {"pg", "backend"}
  <2>1. PICK a : a = [attempt EXCEPT !.at = "database"]
    OBVIOUS
  <2>2. /\ a = [at |-> a.at, web |-> a.web, started |-> a.started]
        /\ a.at = "database" /\ a.web = attempt.web
    BY <2>1, <1>3, PhaseIs
  <2>3. attempt' = [a EXCEPT !.started = {"pg", "backend"}]
    BY <2>1, <1>2, <1>8
  <2> QED BY <2>2, <2>3, StartedIs
<1>10. RuntimeIs'
  BY <1>3, <1>4, <1>5, <1>6, <1>7, <1>9 DEF RuntimeIs, Down, Up, Both
<1>11. StageOf(localRuntime', config) = IF seen.pg = "none" THEN 2 ELSE 3
  BY <1>6, <1>7, StageIs
<1>12. Stays'
  BY <1>2, <1>4, <1>6, <1>7, <1>9, <1>11 DEF Stays, WorkIsDone, AllBefore
<1>13. Limit = 1 /\ Limit' = IF seen.pg = "none" THEN 2 ELSE 3
  BY <1>2, <1>7, <1>9 DEF Limit
<1>14. ~WebFailed
  BY <1>2 DEF WebFailed
<1>15. Watched' /\ attempt.at # "none" /\ attempt'.at \in Phases /\ done \subseteq done'
       /\ attempt'.started \subseteq {"pg", "backend", "web"}
  BY <1>2, <1>9 DEF Watched, Phases
<1> QED BY <1>2, <1>7, <1>9, <1>10, <1>11, <1>12, <1>13, <1>14, <1>15, NativeKeepsInv

\* PostgreSQL is installed.
LEMMA InstallKeepsInv ==
  ASSUME ProvisioningInv, InstallPostgresql
  PROVE  ProvisioningInv'
<1>1. /\ attempt.at = "database" /\ localRuntime.status = "installing" /\ forgiven' = forgiven /\ NativeFrame
      /\ localRuntime' = [localRuntime EXCEPT !.pg = "installed", !.status = "startingDatabase"]
      /\ attempt' = [attempt EXCEPT !.at = "database"] /\ done' = done \cup {"postgresqlRuntime"}
  BY DEF InstallPostgresql, step, finishes
<1>2. UNCHANGED <<config, screen, steps, settings, loads, polls, failedAt>>
  BY <1>1 DEF NativeFrame
<1>3. /\ localRuntime \in LocalRuntimeSnapshot /\ RuntimeIs /\ screen = "steps" /\ ~steps.error
      /\ attempt = [at |-> attempt.at, web |-> attempt.web, started |-> attempt.started]
      /\ attempt.started \subseteq {"pg", "backend", "web"} /\ (Known => WorkIsDone)
  BY <1>1, UnderWay
<1>4. /\ localRuntime' \in LocalRuntimeSnapshot /\ localRuntime'.status = "startingDatabase"
      /\ localRuntime'.pg = "installed" /\ localRuntime'.backend = localRuntime.backend
      /\ localRuntime'.web = localRuntime.web
  <2>1. PICK a : a = [localRuntime EXCEPT !.pg = "installed"]
    OBVIOUS
  <2>2. localRuntime' = [a EXCEPT !.status = "startingDatabase"]
    BY <2>1, <1>1
  <2>3. a \in LocalRuntimeSnapshot /\ a.pg = "installed" /\ a.backend = localRuntime.backend /\ a.web = localRuntime.web
    BY <2>1, <1>3, PgIs
  <2> QED BY <2>2, <2>3, StatusIs
<1>5. /\ attempt' = [at |-> attempt'.at, web |-> attempt'.web, started |-> attempt'.started]
      /\ attempt'.at = "database" /\ attempt'.web = attempt.web /\ attempt'.started = attempt.started
  BY <1>1, <1>3, PhaseIs
<1>6. RuntimeIs'
  BY <1>1, <1>2, <1>3, <1>4, <1>5 DEF RuntimeIs, Down, Up
<1>7. StageOf(localRuntime', config) = 3
  BY <1>4, StageIs
<1>8. Stays'
  BY <1>1, <1>2, <1>3, <1>5, <1>7 DEF Stays, WorkIsDone, AllBefore, Known
<1>9. Limit \in 2..3 /\ Limit' = 3
  BY <1>1, <1>4, <1>5 DEF Limit
<1>10. ~WebFailed
  BY <1>1 DEF WebFailed
<1>11. Watched' /\ attempt.at # "none" /\ attempt'.at \in Phases
  BY <1>1, <1>5 DEF Watched, Phases
<1> QED BY <1>1, <1>3, <1>4, <1>5, <1>6, <1>7, <1>8, <1>9, <1>10, <1>11, NativeKeepsInv

\* PostgreSQL runs.
LEMMA StartPostgresqlKeepsInv ==
  ASSUME ProvisioningInv, StartPostgresql
  PROVE  ProvisioningInv'
<1>1. /\ attempt.at = "database" /\ localRuntime.status = "startingDatabase" /\ forgiven' = forgiven /\ NativeFrame
      /\ localRuntime' = [localRuntime EXCEPT !.pg = "running", !.status = "databaseReady"]
      /\ attempt' = [attempt EXCEPT !.at = "backend"] /\ done' = done \cup {"database"}
  BY DEF StartPostgresql, step, finishes
<1>2. UNCHANGED <<config, screen, steps, settings, loads, polls, failedAt>>
  BY <1>1 DEF NativeFrame
<1>3. /\ localRuntime \in LocalRuntimeSnapshot /\ RuntimeIs /\ screen = "steps" /\ ~steps.error
      /\ attempt = [at |-> attempt.at, web |-> attempt.web, started |-> attempt.started]
      /\ attempt.started \subseteq {"pg", "backend", "web"} /\ (Known => WorkIsDone)
  BY <1>1, UnderWay
<1>4. /\ localRuntime' \in LocalRuntimeSnapshot /\ localRuntime'.status = "databaseReady"
      /\ localRuntime'.pg = "running" /\ localRuntime'.backend = localRuntime.backend
      /\ localRuntime'.web = localRuntime.web
  <2>1. PICK a : a = [localRuntime EXCEPT !.pg = "running"]
    OBVIOUS
  <2>2. localRuntime' = [a EXCEPT !.status = "databaseReady"]
    BY <2>1, <1>1
  <2>3. a \in LocalRuntimeSnapshot /\ a.pg = "running" /\ a.backend = localRuntime.backend /\ a.web = localRuntime.web
    BY <2>1, <1>3, PgIs
  <2> QED BY <2>2, <2>3, StatusIs
<1>5. /\ attempt' = [at |-> attempt'.at, web |-> attempt'.web, started |-> attempt'.started]
      /\ attempt'.at = "backend" /\ attempt'.web = attempt.web /\ attempt'.started = attempt.started
  BY <1>1, <1>3, PhaseIs
<1>6. RuntimeIs'
  BY <1>1, <1>2, <1>3, <1>4, <1>5 DEF RuntimeIs, Down, Up
<1>7. StageOf(localRuntime', config) = 3
  BY <1>4, StageIs
<1>8. Stays'
  <2>1. localRuntime.pg # "none"
    BY <1>1, <1>3 DEF RuntimeIs
  <2> QED BY <2>1, <1>1, <1>2, <1>3, <1>5, <1>7 DEF Stays, WorkIsDone, AllBefore, Known
<1>9. Limit \in 2..3 /\ Limit' = 4
  BY <1>1, <1>4, <1>5 DEF Limit
<1>10. ~WebFailed
  BY <1>1 DEF WebFailed
<1>11. Watched' /\ attempt.at # "none" /\ attempt'.at \in Phases
  BY <1>1, <1>5 DEF Watched, Phases
<1> QED BY <1>1, <1>3, <1>4, <1>5, <1>6, <1>7, <1>8, <1>9, <1>10, <1>11, NativeKeepsInv

\* The backend is installed, or about to be started.
LEMMA StartingBackendKeepsInv ==
  ASSUME ProvisioningInv, StartingBackend
  PROVE  ProvisioningInv'
<1>1. PICK st \in {"installing", "startingBackend"} :
        st = IF localRuntime.status = "databaseReady" /\ localRuntime.backend = "none" THEN "installing"
             ELSE "startingBackend"
  OBVIOUS
<1>2. /\ attempt.at = "backend" /\ done' = done /\ forgiven' = forgiven /\ NativeFrame
      /\ localRuntime' = [localRuntime EXCEPT !.status = st]
      /\ attempt' = [attempt EXCEPT !.at = "backend"]
  BY <1>1 DEF StartingBackend, step
<1>3. UNCHANGED <<config, screen, steps, settings, loads, polls, failedAt>>
  BY <1>2 DEF NativeFrame
<1>4. /\ localRuntime \in LocalRuntimeSnapshot /\ RuntimeIs /\ screen = "steps" /\ ~steps.error
      /\ attempt = [at |-> attempt.at, web |-> attempt.web, started |-> attempt.started]
      /\ attempt.started \subseteq {"pg", "backend", "web"} /\ (Known => WorkIsDone)
  BY <1>2, UnderWay
<1>5. /\ localRuntime' \in LocalRuntimeSnapshot /\ localRuntime'.status = st
      /\ localRuntime'.pg = localRuntime.pg /\ localRuntime'.backend = localRuntime.backend
      /\ localRuntime'.web = localRuntime.web
  BY <1>1, <1>2, <1>4, StatusIs
<1>6. /\ attempt' = [at |-> attempt'.at, web |-> attempt'.web, started |-> attempt'.started]
      /\ attempt'.at = "backend" /\ attempt'.web = attempt.web /\ attempt'.started = attempt.started
  BY <1>2, <1>4, PhaseIs
<1>7. RuntimeIs'
  BY <1>1, <1>2, <1>3, <1>4, <1>5, <1>6 DEF RuntimeIs, Down, Up
<1>8. StageOf(localRuntime', config) = 4
  <2>1. localRuntime.pg = "running"
    BY <1>2, <1>4 DEF RuntimeIs, Up
  <2> QED BY <2>1, <1>1, <1>5, StageIs
<1>9. Stays'
  <2>1. localRuntime.pg # "none"
    BY <1>2, <1>4 DEF RuntimeIs, Up
  <2> QED BY <2>1, <1>2, <1>3, <1>4, <1>5, <1>6, <1>8 DEF Stays, WorkIsDone, AllBefore, Known
<1>10. Limit = 4 /\ Limit' = 4
  BY <1>2, <1>6 DEF Limit
<1>11. ~WebFailed
  BY <1>2 DEF WebFailed
<1>12. Watched' /\ attempt.at # "none" /\ attempt'.at \in Phases
  BY <1>2, <1>6 DEF Watched, Phases
<1> QED BY <1>2, <1>4, <1>5, <1>6, <1>7, <1>8, <1>9, <1>10, <1>11, <1>12, NativeKeepsInv

\* The backend runs.
LEMMA StartBackendKeepsInv ==
  ASSUME ProvisioningInv, StartBackend
  PROVE  ProvisioningInv'
<1>1. /\ attempt.at = "backend" /\ localRuntime.status = "startingBackend" /\ forgiven' = forgiven /\ NativeFrame
      /\ localRuntime' = [localRuntime EXCEPT !.backend = "running"]
      /\ attempt' = [attempt EXCEPT !.at = "connect"] /\ done' = done \cup {"backend"}
  BY DEF StartBackend, step, finishes
<1>2. UNCHANGED <<config, screen, steps, settings, loads, polls, failedAt>>
  BY <1>1 DEF NativeFrame
<1>3. /\ localRuntime \in LocalRuntimeSnapshot /\ RuntimeIs /\ screen = "steps" /\ ~steps.error
      /\ attempt = [at |-> attempt.at, web |-> attempt.web, started |-> attempt.started]
      /\ attempt.started \subseteq {"pg", "backend", "web"} /\ (Known => WorkIsDone)
  BY <1>1, UnderWay
<1>4. /\ localRuntime' \in LocalRuntimeSnapshot /\ localRuntime'.status = "startingBackend"
      /\ localRuntime'.pg = localRuntime.pg /\ localRuntime'.backend = "running"
      /\ localRuntime'.web = localRuntime.web
  BY <1>1, <1>3, BackendIs
<1>5. /\ attempt' = [at |-> attempt'.at, web |-> attempt'.web, started |-> attempt'.started]
      /\ attempt'.at = "connect" /\ attempt'.web = attempt.web /\ attempt'.started = attempt.started
  BY <1>1, <1>3, PhaseIs
<1>6. RuntimeIs'
  BY <1>1, <1>2, <1>3, <1>4, <1>5 DEF RuntimeIs, AllUp, Up
<1>7. StageOf(localRuntime', config) = 4
  BY <1>4, StageIs
<1>8. Stays'
  <2>1. localRuntime.pg # "none"
    BY <1>1, <1>3 DEF RuntimeIs, Up
  <2> QED BY <2>1, <1>1, <1>2, <1>3, <1>4, <1>5, <1>7 DEF Stays, WorkIsDone, AllBefore, Known
<1>9. Limit = 4 /\ Limit' = 6
  BY <1>1, <1>5 DEF Limit
<1>10. ~WebFailed
  BY <1>1 DEF WebFailed
<1>11. Watched' /\ attempt.at # "none" /\ attempt'.at \in Phases
  BY <1>1, <1>5 DEF Watched, Phases
<1> QED BY <1>1, <1>3, <1>4, <1>5, <1>6, <1>7, <1>8, <1>9, <1>10, <1>11, NativeKeepsInv

\* The client connects.
LEMMA ConnectKeepsInv ==
  ASSUME ProvisioningInv, ConnectClient
  PROVE  ProvisioningInv'
<1>1. /\ attempt.at = "connect" /\ done' = done /\ forgiven' = forgiven /\ NativeFrame
      /\ config = "on" =>
           /\ attempt' = [attempt EXCEPT !.at = "web", !.started = @ \cup {"web"}]
           /\ localRuntime' = [localRuntime EXCEPT !.status =
                                 IF localRuntime.web = "none" THEN "installing" ELSE "startingWeb"]
      /\ config # "on" => attempt' = [attempt EXCEPT !.at = "finish"] /\ localRuntime' = localRuntime
  BY DEF ConnectClient, step
<1>2. UNCHANGED <<config, screen, steps, settings, loads, polls, failedAt>>
  BY <1>1 DEF NativeFrame
<1>3. /\ localRuntime \in LocalRuntimeSnapshot /\ RuntimeIs /\ screen = "steps" /\ ~steps.error
      /\ attempt = [at |-> attempt.at, web |-> attempt.web, started |-> attempt.started]
      /\ attempt.started \subseteq {"pg", "backend", "web"} /\ (Known => WorkIsDone)
  BY <1>1, UnderWay
<1>4. /\ localRuntime.status = "startingBackend" /\ AllUp /\ localRuntime.web \in {"none", "installed"}
      /\ Both \subseteq attempt.started
  BY <1>1, <1>3 DEF RuntimeIs
<1>5. PICK st \in {"installing", "startingWeb"} : st = IF localRuntime.web = "none" THEN "installing" ELSE "startingWeb"
  OBVIOUS
<1>6. /\ localRuntime' \in LocalRuntimeSnapshot /\ localRuntime'.pg = localRuntime.pg
      /\ localRuntime'.backend = localRuntime.backend /\ localRuntime'.web = localRuntime.web
      /\ localRuntime'.status = IF config = "on" THEN st ELSE "startingBackend"
  <2>1. CASE config = "on"
    BY <2>1, <1>1, <1>3, <1>5, StatusIs
  <2>2. CASE config # "on"
    BY <2>2, <1>1, <1>3, <1>4
  <2> QED BY <2>1, <2>2
<1>7. /\ attempt' = [at |-> attempt'.at, web |-> attempt'.web, started |-> attempt'.started]
      /\ attempt'.at = (IF config = "on" THEN "web" ELSE "finish") /\ attempt'.web = attempt.web
      /\ attempt.started \subseteq attempt'.started /\ attempt'.started \subseteq {"pg", "backend", "web"}
  <2>1. CASE config = "on"
    <3>1. PICK a : a = [attempt EXCEPT !.at = "web"]
      OBVIOUS
    <3>2. /\ a = [at |-> a.at, web |-> a.web, started |-> a.started]
          /\ a.at = "web" /\ a.web = attempt.web /\ a.started = attempt.started
      BY <3>1, <1>3, PhaseIs
    <3>3. attempt' = [a EXCEPT !.started = attempt.started \cup {"web"}]
      BY <2>1, <3>1, <3>2, <1>1
    <3>4. /\ attempt' = [at |-> attempt'.at, web |-> attempt'.web, started |-> attempt'.started]
          /\ attempt'.at = "web" /\ attempt'.web = attempt.web /\ attempt'.started = attempt.started \cup {"web"}
      BY <3>2, <3>3, StartedIs
    <3> QED BY <2>1, <3>4, <1>3
  <2>2. CASE config # "on"
    BY <2>2, <1>1, <1>3, PhaseIs
  <2> QED BY <2>1, <2>2
<1>8. AllUp' /\ Both \subseteq attempt'.started
  BY <1>4, <1>6, <1>7 DEF AllUp
<1>9. RuntimeIs'
  BY <1>2, <1>3, <1>4, <1>5, <1>6, <1>7, <1>8 DEF RuntimeIs
<1>10. StageOf(localRuntime', config) \in 4..5
  <2>1. localRuntime.pg = "running" /\ localRuntime.backend = "running"
    BY <1>4 DEF AllUp, Up
  <2> QED BY <2>1, <1>4, <1>5, <1>6, StageIs
<1>11. Stays'
  <2>1. localRuntime.pg # "none"
    BY <1>4 DEF AllUp, Up
  <2> QED BY <2>1, <1>1, <1>2, <1>3, <1>7, <1>10 DEF Stays, WorkIsDone, AllBefore, Known
<1>12. Limit = 6 /\ Limit' = 6
  BY <1>1, <1>7 DEF Limit
<1>13. ~WebFailed
  BY <1>1 DEF WebFailed
<1>14. Watched' /\ attempt.at # "none" /\ attempt'.at \in Phases /\ attempt'.at \notin {"rollback", "failed", "stopping"}
  BY <1>1, <1>7 DEF Watched, Phases
<1> QED BY <1>1, <1>6, <1>7, <1>9, <1>10, <1>11, <1>12, <1>13, <1>14, NativeKeepsInv

\* The web interface is installed, runs, or fails.
LEMMA StartWebKeepsInv ==
  ASSUME ProvisioningInv, StartWeb
  PROVE  ProvisioningInv'
<1>1. PICK phase \in {"web", "finish"}, st \in {localRuntime.status, "startingWeb"}, web \in {localRuntime.web, "running", "error"} :
        /\ phase = "web" => st = "startingWeb" /\ web = localRuntime.web /\ localRuntime' = [localRuntime EXCEPT !.status = st]
        /\ phase = "finish" => /\ web \in {"running", "error"} /\ st = localRuntime.status
                               /\ web = "running" => st = "startingWeb"
                               /\ localRuntime' = [localRuntime EXCEPT !.web = web]
        /\ attempt' = [attempt EXCEPT !.at = phase]
  <2>1. CASE localRuntime.status = "installing" /\ step("web", [localRuntime EXCEPT !.status = "startingWeb"])
    BY <2>1 DEF step
  <2>2. ASSUME NEW web \in {"running", "error"}, web = "running" => localRuntime.status = "startingWeb",
               step("finish", [localRuntime EXCEPT !.web = web])
        PROVE  /\ localRuntime' = [localRuntime EXCEPT !.web = web]
               /\ attempt' = [attempt EXCEPT !.at = "finish"]
    BY <2>2 DEF step
  <2> QED BY <2>1, <2>2 DEF StartWeb
<1>2. attempt.at = "web" /\ done' = done /\ forgiven' = forgiven /\ NativeFrame
  BY DEF StartWeb
<1>3. UNCHANGED <<config, screen, steps, settings, loads, polls, failedAt>>
  BY <1>2 DEF NativeFrame
<1>4. /\ localRuntime \in LocalRuntimeSnapshot /\ RuntimeIs /\ screen = "steps" /\ ~steps.error
      /\ attempt = [at |-> attempt.at, web |-> attempt.web, started |-> attempt.started]
      /\ attempt.started \subseteq {"pg", "backend", "web"} /\ (Known => WorkIsDone)
  BY <1>2, UnderWay
<1>5. /\ AllUp /\ config = "on" /\ localRuntime.status \in {"installing", "startingWeb"}
      /\ localRuntime.web \in {"none", "installed"} /\ Both \subseteq attempt.started
  BY <1>2, <1>4 DEF RuntimeIs
<1>6. /\ localRuntime' \in LocalRuntimeSnapshot /\ localRuntime'.pg = localRuntime.pg
      /\ localRuntime'.backend = localRuntime.backend /\ localRuntime'.web = web /\ localRuntime'.status = st
  <2>1. CASE phase = "web"
    BY <2>1, <1>1, <1>4, StatusIs
  <2>2. CASE phase = "finish"
    BY <2>2, <1>1, <1>4, WebIs
  <2> QED BY <2>1, <2>2
<1>7. /\ attempt' = [at |-> attempt'.at, web |-> attempt'.web, started |-> attempt'.started]
      /\ attempt'.at = phase /\ attempt'.web = attempt.web /\ attempt'.started = attempt.started
  BY <1>1, <1>4, PhaseIs
<1>8. AllUp'
  BY <1>5, <1>6 DEF AllUp
<1>9. RuntimeIs'
  BY <1>1, <1>3, <1>4, <1>5, <1>6, <1>7, <1>8 DEF RuntimeIs
<1>10. st = "startingWeb" \/ (st = "installing" /\ web = "error" /\ phase = "finish")
  BY <1>1, <1>5
<1>11. /\ StageOf(localRuntime', config) \in 5..6
       /\ StageOf(localRuntime', config) = 6 => web = "error" /\ phase = "finish"
  <2>1. localRuntime'.pg = "running" /\ localRuntime'.backend = "running"
    BY <1>5, <1>6 DEF AllUp, Up
  <2> QED BY <2>1, <1>6, <1>10, StageIs
<1>12. Stays'
  <2>1. localRuntime.pg # "none"
    BY <1>5 DEF AllUp, Up
  <2> QED BY <2>1, <1>2, <1>3, <1>4, <1>7, <1>11 DEF Stays, WorkIsDone, AllBefore, Known
<1>13. Limit = 6 /\ Limit' = 6
  BY <1>1, <1>2, <1>7 DEF Limit
<1>14. ~WebFailed /\ (web = "error" /\ phase = "finish" => WebFailed')
  BY <1>2, <1>6, <1>7 DEF WebFailed
<1>15. Watched' /\ attempt.at # "none" /\ attempt'.at \in Phases /\ attempt'.at \notin {"rollback", "failed", "stopping"}
  BY <1>1, <1>2, <1>7 DEF Watched, Phases
<1> QED BY <1>2, <1>4, <1>6, <1>7, <1>9, <1>11, <1>12, <1>13, <1>14, <1>15, NativeKeepsInv

\* The command ends well.
LEMMA FinishKeepsInv ==
  ASSUME ProvisioningInv, Finish
  PROVE  ProvisioningInv'
<1>1. /\ attempt.at = "finish" /\ forgiven' = forgiven /\ NativeFrame
      /\ localRuntime' = [localRuntime EXCEPT !.status = "ready"]
      /\ attempt' = [attempt EXCEPT !.at = "succeeded"] /\ done' = done \cup {"web"}
  BY DEF Finish, step, finishes
<1>2. UNCHANGED <<config, screen, steps, settings, loads, polls, failedAt>>
  BY <1>1 DEF NativeFrame
<1>3. /\ localRuntime \in LocalRuntimeSnapshot /\ RuntimeIs /\ screen = "steps" /\ ~steps.error
      /\ attempt = [at |-> attempt.at, web |-> attempt.web, started |-> attempt.started]
      /\ attempt.started \subseteq {"pg", "backend", "web"}
      /\ (Known => WorkIsDone /\ AllBefore(StageOf(localRuntime, config), done))
  BY <1>1, UnderWay DEF Watched
<1>4. /\ localRuntime' \in LocalRuntimeSnapshot /\ localRuntime'.status = "ready"
      /\ localRuntime'.pg = localRuntime.pg /\ localRuntime'.backend = localRuntime.backend
  BY <1>1, <1>3, StatusIs
<1>5. /\ attempt' = [at |-> attempt'.at, web |-> attempt'.web, started |-> attempt'.started]
      /\ attempt'.at = "succeeded" /\ attempt'.web = attempt.web /\ attempt'.started = attempt.started
  BY <1>1, <1>3, PhaseIs
<1>6. AllUp /\ AllUp'
  BY <1>1, <1>3, <1>4 DEF RuntimeIs, AllUp
<1>7. RuntimeIs'
  BY <1>1, <1>2, <1>3, <1>4, <1>5, <1>6 DEF RuntimeIs
<1>8. StageOf(localRuntime', config) = 6
  BY <1>4, StageIs
<1>9. Stays'
  <2>1. localRuntime.pg # "none"
    BY <1>6 DEF AllUp, Up
  <2>2. Known => "prepare" \in done /\ "postgresqlRuntime" \in done /\ "database" \in done /\ "backend" \in done
    BY <2>1, <1>1, <1>3 DEF WorkIsDone
  <2> QED BY <2>2, <1>1, <1>2, <1>5, <1>8 DEF Stays, WorkIsDone, AllBefore, Known
<1>10. Limit = 6 /\ Limit' = 6
  BY <1>1, <1>5 DEF Limit
<1>11. Watched' /\ attempt.at # "none" /\ attempt'.at \in Phases /\ "web" \in done'
       /\ attempt'.at \notin {"rollback", "failed", "stopping"}
  BY <1>1, <1>5 DEF Watched, Phases
<1> QED BY <1>1, <1>3, <1>4, <1>5, <1>7, <1>8, <1>9, <1>10, <1>11, NativeKeepsInv

\* What a command that stops leaves of the parts.
LEMMA StoppedIs ==
  ASSUME localRuntime \in LocalRuntimeSnapshot, NEW parts, Both \subseteq parts, NEW x, x = Stopped(parts)
  PROVE  /\ x \in LocalRuntimeSnapshot /\ x.status = "stopped" /\ x.web = localRuntime.web
         /\ ~Up(x.pg) /\ ~Up(x.backend)
         /\ x.pg = "none" <=> localRuntime.pg = "none"
<1>1. PICK p \in {"none", "installed"} : p = IF Up(localRuntime.pg) THEN "installed" ELSE localRuntime.pg
  BY DEF LocalRuntimeSnapshot, Up
<1>2. PICK b \in {"none", "installed"} : b = IF Up(localRuntime.backend) THEN "installed" ELSE localRuntime.backend
  BY DEF LocalRuntimeSnapshot, Up
<1>3. PICK st, pg, be, we : localRuntime = [status |-> st, pg |-> pg, backend |-> be, web |-> we]
                            /\ we \in {"none", "installed", "running", "error"}
  BY DEF LocalRuntimeSnapshot
<1>4. Stopped(parts) = [localRuntime EXCEPT !.pg = p, !.backend = b, !.status = "stopped"]
  <2>1. "pg" \in parts /\ "backend" \in parts
    BY DEF Both
  <2> QED BY <2>1, <1>1, <1>2, <1>3 DEF Stopped
<1>5. x = [status |-> "stopped", pg |-> p, backend |-> b, web |-> we]
  BY <1>3, <1>4
<1> QED BY <1>1, <1>2, <1>3, <1>5 DEF LocalRuntimeSnapshot, Up

\* What the attempt started is stopped.
LEMMA RollbackKeepsInv ==
  ASSUME ProvisioningInv, Rollback
  PROVE  ProvisioningInv'
<1>1. /\ attempt.at = "rollback" /\ attempt.started # {} /\ done' = done /\ forgiven' = forgiven /\ NativeFrame
      /\ attempt' = [attempt EXCEPT !.started = {}] /\ localRuntime' = Stopped(attempt.started)
  BY DEF Rollback
<1>2. UNCHANGED <<config, screen, steps, settings, loads, polls, failedAt>>
  BY <1>1 DEF NativeFrame
<1>3. /\ localRuntime \in LocalRuntimeSnapshot /\ RuntimeIs /\ screen = "steps" /\ ~steps.error
      /\ attempt = [at |-> attempt.at, web |-> attempt.web, started |-> attempt.started]
      /\ (Known => WorkIsDone)
      /\ FirstAttempt => \/ failedAt = "postgresqlRuntime" /\ localRuntime.pg = "none"
                         \/ failedAt \in {"database", "backend", "connect"}
  BY <1>1, UnderWay
<1>4. /\ localRuntime' \in LocalRuntimeSnapshot /\ localRuntime'.status = "stopped" /\ localRuntime'.web = localRuntime.web
      /\ ~Up(localRuntime'.pg) /\ ~Up(localRuntime'.backend)
      /\ localRuntime'.pg = "none" <=> localRuntime.pg = "none"
  BY <1>1, <1>3, StoppedIs DEF RuntimeIs
<1>5. /\ attempt' = [at |-> attempt'.at, web |-> attempt'.web, started |-> attempt'.started]
      /\ attempt'.at = "rollback" /\ attempt'.web = attempt.web /\ attempt'.started = {}
  BY <1>1, <1>3, StartedIs
<1>6. RuntimeIs'
  <2>1. Down'
    BY <1>4 DEF Down
  <2>2. screen # "connected" /\ screen' # "connected" /\ ~steps'.error
    BY <1>2, <1>3
  <2> QED BY <2>1, <2>2, <1>1, <1>2, <1>3, <1>5 DEF RuntimeIs
<1>7. StageOf(localRuntime', config) = 1
  BY <1>4, StageIs
<1>8. Stays'
  BY <1>1, <1>2, <1>3, <1>4, <1>5, <1>7 DEF Stays, WorkIsDone, AllBefore, Known
<1>9. Limit = Index(failedAt) /\ Limit' = Index(failedAt)
  BY <1>1, <1>2, <1>5 DEF Limit
<1>10. FirstAttempt => Limit \in 2..6
  BY <1>3, <1>9, IndexIs
<1>11. WebFailed => WebFailed'
  BY <1>1, <1>4, <1>5 DEF WebFailed
<1>12. Watched' /\ attempt.at # "none" /\ attempt'.at \in Phases
  BY <1>1, <1>5 DEF Watched, Phases
<1> QED BY <1>1, <1>3, <1>4, <1>5, <1>6, <1>7, <1>8, <1>9, <1>10, <1>11, <1>12, NativeKeepsInv

\* The command ends with its error.
LEMMA FailedKeepsInv ==
  ASSUME ProvisioningInv, Failed
  PROVE  ProvisioningInv'
<1>1. /\ attempt.at = "rollback" /\ attempt.started = {} /\ done' = done /\ forgiven' = forgiven /\ NativeFrame
      /\ attempt' = [attempt EXCEPT !.at = "failed"]
      /\ localRuntime' = [localRuntime EXCEPT !.status = "failed"]
  BY DEF Failed, step
<1>2. UNCHANGED <<config, screen, steps, settings, loads, polls, failedAt>>
  BY <1>1 DEF NativeFrame
<1>3. /\ localRuntime \in LocalRuntimeSnapshot /\ RuntimeIs /\ screen = "steps" /\ ~steps.error
      /\ attempt = [at |-> attempt.at, web |-> attempt.web, started |-> attempt.started]
      /\ (Known => WorkIsDone)
      /\ FirstAttempt => \/ failedAt = "postgresqlRuntime" /\ localRuntime.pg = "none"
                         \/ failedAt \in {"database", "backend", "connect"}
  BY <1>1, UnderWay
<1>4. /\ localRuntime' \in LocalRuntimeSnapshot /\ localRuntime'.status = "failed" /\ localRuntime'.web = localRuntime.web
      /\ localRuntime'.pg = localRuntime.pg /\ localRuntime'.backend = localRuntime.backend
  BY <1>1, <1>3, StatusIs
<1>5. /\ attempt' = [at |-> attempt'.at, web |-> attempt'.web, started |-> attempt'.started]
      /\ attempt'.at = "failed" /\ attempt'.web = attempt.web /\ attempt'.started = {}
  BY <1>1, <1>3, PhaseIs
<1>6. Down /\ Down' /\ localRuntime.pg \in {"none", "installed"}
  BY <1>1, <1>3, <1>4 DEF RuntimeIs, Down, Up, LocalRuntimeSnapshot
<1>7. RuntimeIs'
  BY <1>1, <1>2, <1>3, <1>4, <1>5, <1>6 DEF RuntimeIs
<1>8. StageOf(localRuntime', config) = IF localRuntime.pg = "none" THEN 2 ELSE 3
  BY <1>4, <1>6, StageIs
<1>9. Stays'
  BY <1>1, <1>2, <1>3, <1>4, <1>5, <1>8 DEF Stays, WorkIsDone, AllBefore, Known
<1>10. Limit = Index(failedAt) /\ Limit' = Index(failedAt)
  BY <1>1, <1>2, <1>5 DEF Limit
<1>11. FirstAttempt => Limit \in 2..6 /\ StageOf(localRuntime', config) <= Limit
  BY <1>3, <1>8, <1>10, IndexIs
<1>12. WebFailed => WebFailed'
  BY <1>1, <1>4, <1>5 DEF WebFailed
<1>13. Watched' /\ attempt.at # "none" /\ attempt'.at \in Phases
  BY <1>1, <1>5 DEF Watched, Phases
<1> QED BY <1>1, <1>3, <1>4, <1>5, <1>7, <1>8, <1>9, <1>10, <1>11, <1>12, <1>13, NativeKeepsInv

\* The runtime is stopped again.
LEMMA StopKeepsInv ==
  ASSUME ProvisioningInv, Stop
  PROVE  ProvisioningInv'
<1>1. PICK s : s = Stopped({"pg", "backend"})
  OBVIOUS
<1>2. PICK w : w = IF s.web = "none" THEN "none" ELSE "installed"
  OBVIOUS
<1>3. /\ attempt.at = "stopping" /\ done' = done /\ forgiven' = forgiven /\ NativeFrame
      /\ attempt' = [attempt EXCEPT !.at = "failed"]
  BY DEF Stop, step
<1>4. UNCHANGED <<config, screen, steps, settings, loads, polls, failedAt>>
  BY <1>3 DEF NativeFrame
<1>5. /\ localRuntime \in LocalRuntimeSnapshot /\ RuntimeIs /\ screen = "steps" /\ ~steps.error
      /\ attempt = [at |-> attempt.at, web |-> attempt.web, started |-> attempt.started]
      /\ attempt.started \subseteq {"pg", "backend", "web"}
      /\ (Known => WorkIsDone) /\ (FirstAttempt => failedAt = "connect")
  BY <1>3, UnderWay
<1>6. /\ s \in LocalRuntimeSnapshot /\ s.status = "stopped"
      /\ ~Up(s.pg) /\ ~Up(s.backend)
      /\ s.pg = "none" <=> localRuntime.pg = "none"
  BY <1>1, <1>5, StoppedIs DEF Both
<1>7. localRuntime' = [s EXCEPT !.web = w]
  BY <1>1, <1>2, <1>6 DEF Stop, step, LocalRuntimeSnapshot
<1>8. /\ localRuntime' \in LocalRuntimeSnapshot /\ localRuntime'.status = "stopped"
      /\ localRuntime'.pg = s.pg /\ localRuntime'.backend = s.backend
  BY <1>2, <1>6, <1>7, WebIs
<1>9. /\ attempt' = [at |-> attempt'.at, web |-> attempt'.web, started |-> attempt'.started]
      /\ attempt'.at = "failed" /\ attempt'.web = attempt.web /\ attempt'.started = attempt.started
  BY <1>3, <1>5, PhaseIs
<1>10. RuntimeIs'
  <2>1. Down'
    BY <1>6, <1>8 DEF Down
  <2>2. screen # "connected" /\ screen' # "connected" /\ ~steps'.error
    BY <1>4, <1>5
  <2> QED BY <2>1, <2>2, <1>3, <1>4, <1>5, <1>8, <1>9 DEF RuntimeIs
<1>11. StageOf(localRuntime', config) = 1
  BY <1>8, StageIs
<1>12. Stays' /\ (Known => "web" \in done)
  BY <1>3, <1>4, <1>5, <1>6, <1>8, <1>9, <1>11 DEF Stays, WorkIsDone, AllBefore, Known
<1>13. Limit = Index(failedAt) /\ Limit' = Index(failedAt)
  BY <1>3, <1>4, <1>9 DEF Limit
<1>14. FirstAttempt => Limit = 6 /\ Known
  BY <1>5, <1>13, IndexIs DEF FirstAttempt, Known
<1>15. Watched' /\ attempt.at # "none" /\ attempt'.at \in Phases
  BY <1>3, <1>9 DEF Watched, Phases
<1>16. FirstAttempt => "web" \in done'
  BY <1>3, <1>12, <1>14
<1> QED BY <1>3, <1>5, <1>8, <1>9, <1>10, <1>11, <1>12, <1>13, <1>14, <1>15, <1>16, NativeKeepsInv

\* A step of the command fails.
LEMMA FailKeepsInv ==
  ASSUME ProvisioningInv, Fail
  PROVE  ProvisioningInv'
<1>1. /\ attempt.at \in {"prepare", "database", "backend", "connect", "finish"}
      /\ attempt' = [attempt EXCEPT !.at = "rollback"]
      /\ failedAt' = CASE attempt.at = "database" /\ localRuntime.pg = "none" -> "postgresqlRuntime"
                       [] attempt.at = "finish" -> "connect"
                       [] OTHER -> attempt.at
      /\ forgiven' = forgiven \cup (IF attempt.at = "prepare" THEN {"unprepared"} ELSE {})
      /\ UNCHANGED <<localRuntime, config, screen, steps, settings, loads, polls, budget, done>>
  BY Zenon DEF Fail
<1>2. ProvisioningTypeOK /\ RuntimeIs /\ SettingsAreKnown /\ ReachedIsDone /\ WebIsDone /\ NotAhead
  BY DEF ProvisioningInv
<1>3. /\ attempt' = [at |-> attempt'.at, web |-> attempt'.web, started |-> attempt'.started]
      /\ attempt'.at = "rollback" /\ attempt'.web = attempt.web /\ attempt'.started = attempt.started
  BY <1>1, <1>2, PhaseIs DEF ProvisioningTypeOK
<1>4. ProvisioningTypeOK'
  BY <1>1, <1>2, <1>3 DEF ProvisioningTypeOK, Phases
<1>5. RuntimeIs'
  <2>1. IF attempt'.started = {} THEN Down' ELSE Both \subseteq attempt'.started
    BY <1>1, <1>2, <1>3 DEF RuntimeIs, Both, Down
  <2>2. attempt.at # "none" /\ screen = "steps" /\ ~steps.error
    BY <1>1, <1>2 DEF RuntimeIs
  <2> QED BY <2>1, <2>2, <1>1, <1>3 DEF RuntimeIs
<1>8. SettingsAreKnown'
  <2>1. "reread" \notin forgiven' => "reread" \notin forgiven
    BY <1>1
  <2>2. attempt.at # "none"
    BY <1>1
  <2> QED BY <2>1, <2>2, <1>1, <1>2, <1>3 DEF SettingsAreKnown
<1>6. CASE attempt.at = "prepare"
  <2>1. ~Known' /\ forgiven' # {}
    BY <1>1, <1>6 DEF Known
  <2> QED BY <2>1, <1>4, <1>5, <1>8 DEF ProvisioningInv, ReachedIsDone, WebIsDone, NotAhead
<1>7. CASE attempt.at # "prepare"
  <2>1. forgiven' = forgiven
    BY <1>1, <1>7
  <2>2. ReachedIsDone'
    <3>1. WorkIsDone => WorkIsDone'
      BY <1>1, <1>3, <1>7 DEF WorkIsDone
    <3> QED BY <3>1, <2>1, <1>1, <1>2, <1>3 DEF ReachedIsDone, Known, Watched
  <2>3. WebIsDone'
    <3>1. (WebFailed => WebFailed') /\ attempt.at # "none" /\ Watched
      BY <1>1, <1>3 DEF WebFailed, Watched
    <3> QED BY <3>1, <2>1, <1>1, <1>2, <1>3 DEF WebIsDone
  <2>4. /\ attempt.at = "database" /\ localRuntime.pg = "none" => failedAt' = "postgresqlRuntime"
        /\ attempt.at = "database" /\ localRuntime.pg # "none" => failedAt' = "database"
        /\ attempt.at = "backend" => failedAt' = "backend"
        /\ attempt.at \in {"connect", "finish"} => failedAt' = "connect"
    BY <1>1
  <2>5. Limit' = Limit
    BY <2>4, <1>1, <1>3, <1>7, IndexIs DEF Limit
  <2>6. Watched /\ ((failedAt' = "postgresqlRuntime" /\ localRuntime'.pg = "none")
                     \/ failedAt' \in {"database", "backend", "connect"})
    BY <2>4, <1>1, <1>7 DEF Watched
  <2>7. NotAhead'
    BY <2>1, <2>5, <2>6, <1>1, <1>2, <1>3 DEF NotAhead
  <2> QED BY <2>2, <2>3, <2>7, <1>4, <1>5, <1>8 DEF ProvisioningInv
<1> QED BY <1>6, <1>7
-----------------------------------------------------------------------------
(* The screen.                                                                 *)

\* The settings are read.
LEMMA LoadSettingsKeepsInv ==
  ASSUME ProvisioningInv, loadSettings
  PROVE  ProvisioningInv'
<1>1. /\ screen = "form" /\ loads' = loads \cup {config}
      /\ UNCHANGED <<localRuntime, attempt, config, screen, steps, settings, polls, done, failedAt, forgiven>>
  BY DEF loadSettings
<1>2. ProvisioningTypeOK'
  BY <1>1 DEF ProvisioningInv, ProvisioningTypeOK
<1>3. RuntimeIs'
  BY <1>1 DEF ProvisioningInv, RuntimeIs, Down, AllUp
<1> QED BY <1>1, <1>2, <1>3 DEF ProvisioningInv, SettingsAreKnown, ReachedIsDone, WebIsDone, NotAhead

\* The answers of the questionnaire are saved and the runtime is called.
LEMMA ConnectLocalKeepsInv ==
  ASSUME ProvisioningInv, NEW web \in Switch, connectLocal(web)
  PROVE  ProvisioningInv'
<1>1. /\ screen = "form" /\ attempt.at = "none" /\ config' = web /\ settings' = web
      /\ screen' = "steps" /\ steps' = Opened /\ attempt' = [Resting EXCEPT !.at = "called", !.web = web]
      /\ done' = {} /\ failedAt' = Unknown /\ forgiven' = {} /\ polls' = <<>>
      /\ UNCHANGED <<localRuntime, loads>>
  BY DEF connectLocal, Questionnaire, Connecting
<1>2. attempt' = [at |-> "called", web |-> web, started |-> {}]
  BY <1>1 DEF Resting
<1>3. /\ attempt' = [at |-> attempt'.at, web |-> attempt'.web, started |-> attempt'.started]
      /\ attempt'.at = "called" /\ attempt'.web = web /\ attempt'.started = {}
  BY <1>2
<1>4. /\ steps' = [reached |-> steps'.reached, webError |-> steps'.webError, error |-> steps'.error]
      /\ steps'.reached = "prepare" /\ steps'.webError = FALSE /\ steps'.error = FALSE
  BY <1>1 DEF Opened
<1>5. polls' \in Seq(Reads) /\ Len(polls') = 0
  BY <1>1
<1>6. localRuntime' \in LocalRuntimeSnapshot /\ loads' \subseteq Switch
  BY <1>1 DEF ProvisioningInv, ProvisioningTypeOK
<1>7. ProvisioningTypeOK'
  BY <1>1, <1>3, <1>4, <1>5, <1>6, StagesAre DEF ProvisioningTypeOK, Phases
<1>8. Down'
  BY <1>1 DEF ProvisioningInv, RuntimeIs, Down
<1>9. RuntimeIs'
  BY <1>1, <1>3, <1>4, <1>8 DEF RuntimeIs
<1>10. SettingsAreKnown'
  BY <1>1, <1>3 DEF SettingsAreKnown
<1>11. Index(steps'.reached) = 1 /\ ~Watched'
  BY <1>3, <1>4, IndexIs DEF Watched
<1>12. ReachedIsDone'
  <2>1. WorkIsDone' /\ AllBefore(1, done')
    BY <1>3 DEF WorkIsDone, AllBefore
  <2> QED BY <2>1, <1>5, <1>11 DEF ReachedIsDone
<1>13. WebIsDone'
  BY <1>5, <1>11 DEF WebIsDone
<1>14. NotAhead'
  <2>1. Limit' = 1
    BY <1>3 DEF Limit
  <2> QED BY <2>1, <1>3, <1>5, <1>11 DEF NotAhead
<1> QED BY <1>7, <1>9, <1>10, <1>12, <1>13, <1>14 DEF ProvisioningInv

\* The answers cannot be saved.
LEMMA SaveFailsKeepsInv ==
  ASSUME ProvisioningInv, saveFails
  PROVE  ProvisioningInv'
<1>1. /\ screen = "form" /\ attempt.at = "none" /\ localRuntime' = [localRuntime EXCEPT !.status = "failed"]
      /\ UNCHANGED <<attempt, config, screen, steps, settings, loads, polls, budget, done, failedAt, forgiven>>
  BY DEF saveFails, Questionnaire, Connecting
<1>2. ProvisioningTypeOK /\ RuntimeIs
  BY DEF ProvisioningInv
<1>3. localRuntime' \in LocalRuntimeSnapshot /\ localRuntime'.pg = localRuntime.pg
      /\ localRuntime'.backend = localRuntime.backend
  <2>1. localRuntime \in LocalRuntimeSnapshot
    BY <1>2 DEF ProvisioningTypeOK
  <2> QED BY <2>1, <1>1, StatusIs
<1>4. ProvisioningTypeOK'
  BY <1>1, <1>2, <1>3 DEF ProvisioningTypeOK
<1>5. Down'
  BY <1>1, <1>2, <1>3 DEF RuntimeIs, Down
<1>6. RuntimeIs'
  BY <1>1, <1>2, <1>5 DEF RuntimeIs
<1> QED BY <1>1, <1>4, <1>6 DEF ProvisioningInv, SettingsAreKnown, ReachedIsDone, WebIsDone, NotAhead

\* The user tries again.
LEMMA RetryKeepsInv ==
  ASSUME ProvisioningInv, retry
  PROVE  ProvisioningInv'
<1>1. /\ screen = "steps" /\ attempt.at = "none" /\ attempt' = [Resting EXCEPT !.at = "called", !.web = settings]
      /\ steps' = [steps EXCEPT !.error = FALSE] /\ forgiven' = forgiven \cup {"retried"}
      /\ UNCHANGED <<localRuntime, config, screen, settings, loads, polls, done, failedAt>>
  BY DEF retry, Connecting
<1>2. ProvisioningTypeOK /\ RuntimeIs /\ SettingsAreKnown /\ ReachedIsDone
  BY DEF ProvisioningInv
<1>3. attempt' = [at |-> "called", web |-> settings, started |-> {}]
  BY <1>1 DEF Resting
<1>4. /\ attempt' = [at |-> attempt'.at, web |-> attempt'.web, started |-> attempt'.started]
      /\ attempt'.at = "called" /\ attempt'.web = settings /\ attempt'.started = {}
  BY <1>3
<1>5. /\ steps' = [reached |-> steps'.reached, webError |-> steps'.webError, error |-> steps'.error]
      /\ steps'.reached = steps.reached /\ steps'.webError \in BOOLEAN /\ steps'.error = FALSE
  <2>1. PICK r, w, e : steps = [reached |-> r, webError |-> w, error |-> e] /\ w \in BOOLEAN
    BY <1>2 DEF ProvisioningTypeOK
  <2>2. steps' = [reached |-> r, webError |-> w, error |-> FALSE]
    BY <2>1, <1>1
  <2> QED BY <2>1, <2>2
<1>6. polls = <<>> /\ Down
  BY <1>1, <1>2 DEF RuntimeIs
<1>7. ProvisioningTypeOK'
  BY <1>1, <1>2, <1>4, <1>5 DEF ProvisioningTypeOK, Phases
<1>8. Down'
  BY <1>1, <1>6 DEF Down
<1>9. RuntimeIs'
  BY <1>1, <1>4, <1>5, <1>8 DEF RuntimeIs
<1>10. SettingsAreKnown'
  BY <1>1, <1>2, <1>4 DEF SettingsAreKnown
<1>11. ReachedIsDone'
  <2>1. WorkIsDone' /\ ~Watched'
    BY <1>4 DEF WorkIsDone, Watched
  <2>2. Known' => Known
    BY <1>1 DEF Known
  <2>3. Known => AllBefore(Index(steps.reached), done)
    BY <1>1, <1>2 DEF ReachedIsDone
  <2>4. Len(polls') = 0
    BY <1>1, <1>6
  <2> QED BY <2>1, <2>2, <2>3, <2>4, <1>1, <1>5 DEF ReachedIsDone
<1>12. forgiven' # {}
  BY <1>1
<1> QED BY <1>7, <1>9, <1>10, <1>11, <1>12 DEF ProvisioningInv, WebIsDone, NotAhead

\* The application opens.
LEMMA RuntimeConnectedKeepsInv ==
  ASSUME ProvisioningInv, runtimeConnected
  PROVE  ProvisioningInv'
<1>1. /\ attempt.at = "succeeded" /\ screen' = "connected" /\ attempt' = Resting /\ polls' = <<>>
      /\ UNCHANGED <<localRuntime, config, steps, settings, loads, budget, done, failedAt, forgiven>>
  BY DEF runtimeConnected
<1>2. ProvisioningTypeOK /\ RuntimeIs
  BY DEF ProvisioningInv
<1>3. /\ attempt' = [at |-> attempt'.at, web |-> attempt'.web, started |-> attempt'.started]
      /\ attempt'.at = "none" /\ attempt'.started = {}
  BY <1>1 DEF Resting
<1>4. polls' \in Seq(Reads)
  BY <1>1
<1>5. ProvisioningTypeOK'
  BY <1>1, <1>2, <1>3, <1>4 DEF ProvisioningTypeOK, Phases
<1>6. AllUp' /\ localRuntime'.status = "ready" /\ ~steps'.error
  BY <1>1, <1>2 DEF RuntimeIs, AllUp
<1>7. RuntimeIs'
  BY <1>1, <1>3, <1>6 DEF RuntimeIs
<1> QED BY <1>1, <1>5, <1>7 DEF ProvisioningInv, SettingsAreKnown, ReachedIsDone, WebIsDone, NotAhead

\* The setup status cannot be read.
LEMMA StatusUnknownKeepsInv ==
  ASSUME ProvisioningInv, statusUnknown
  PROVE  ProvisioningInv'
<1>1. /\ attempt.at = "succeeded" /\ attempt' = [attempt EXCEPT !.at = "stopping"] /\ failedAt' = "connect"
      /\ UNCHANGED <<localRuntime, config, screen, steps, settings, loads, polls, budget, done, forgiven>>
  BY DEF statusUnknown
<1>2. ProvisioningTypeOK /\ RuntimeIs /\ SettingsAreKnown /\ ReachedIsDone /\ WebIsDone /\ NotAhead
  BY DEF ProvisioningInv
<1>3. /\ attempt' = [at |-> attempt'.at, web |-> attempt'.web, started |-> attempt'.started]
      /\ attempt'.at = "stopping" /\ attempt'.web = attempt.web /\ attempt'.started = attempt.started
  BY <1>1, <1>2, PhaseIs DEF ProvisioningTypeOK
<1>4. ProvisioningTypeOK'
  BY <1>1, <1>2, <1>3 DEF ProvisioningTypeOK, Phases
<1>5. RuntimeIs'
  <2>1. AllUp' /\ localRuntime'.status = "ready" /\ ~steps'.error /\ screen' = "steps"
    BY <1>1, <1>2 DEF RuntimeIs, AllUp
  <2> QED BY <2>1, <1>3 DEF RuntimeIs
<1>6. SettingsAreKnown'
  BY <1>1, <1>2, <1>3 DEF SettingsAreKnown
<1>7. Watched /\ Watched'
  BY <1>1, <1>3 DEF Watched
<1>8. ReachedIsDone'
  <2>1. WorkIsDone => WorkIsDone'
    BY <1>1, <1>3 DEF WorkIsDone
  <2> QED BY <2>1, <1>1, <1>2, <1>7 DEF ReachedIsDone, Known
<1>9. screen = "steps" /\ forgiven = {} => "web" \in done
  <2>1. forgiven = {} => Known
    BY DEF Known
  <2> QED BY <2>1, <1>1, <1>2 DEF ReachedIsDone, WorkIsDone
<1>10. WebIsDone'
  BY <1>1, <1>9 DEF WebIsDone
<1>11. Limit = 6 /\ Limit' = 6
  BY <1>1, <1>3, IndexIs DEF Limit
<1>12. NotAhead'
  BY <1>1, <1>2, <1>3, <1>7, <1>11 DEF NotAhead
<1> QED BY <1>4, <1>5, <1>6, <1>8, <1>10, <1>12 DEF ProvisioningInv

\* The user goes back to the questionnaire.
LEMMA BackToLocalSetupKeepsInv ==
  ASSUME ProvisioningInv, backToLocalSetup
  PROVE  ProvisioningInv'
<1>1. /\ screen = "steps" /\ attempt.at = "none" /\ screen' = "form" /\ steps' = Opened
      /\ loads' = loads \cup {config} /\ UNCHANGED <<localRuntime, attempt, config, settings, polls>>
  BY DEF backToLocalSetup, Connecting
<1>2. ProvisioningTypeOK /\ RuntimeIs
  BY DEF ProvisioningInv
<1>3. /\ steps' = [reached |-> steps'.reached, webError |-> steps'.webError, error |-> steps'.error]
      /\ steps'.reached = "prepare" /\ steps'.webError = FALSE /\ steps'.error = FALSE
  BY <1>1 DEF Opened
<1>4. ProvisioningTypeOK'
  BY <1>1, <1>2, <1>3, StagesAre DEF ProvisioningTypeOK
<1>5. Down' /\ polls' = <<>>
  BY <1>1, <1>2 DEF RuntimeIs, Down
<1>6. RuntimeIs'
  BY <1>1, <1>3, <1>5 DEF RuntimeIs
<1> QED BY <1>1, <1>4, <1>6 DEF ProvisioningInv, SettingsAreKnown, ReachedIsDone, WebIsDone, NotAhead

\* A read of the settings is answered.
LEMMA SettingsLoadedKeepsInv ==
  ASSUME ProvisioningInv, NEW l \in loads, settingsLoaded(l)
  PROVE  ProvisioningInv'
<1>1. /\ loads' = loads \ {l} /\ settings' = l /\ (polls' = polls \/ polls' = <<>>)
      /\ forgiven' = forgiven \cup (IF screen # "form" /\ l # config THEN {"reread"} ELSE {})
      /\ UNCHANGED <<localRuntime, attempt, config, screen, steps, budget, done, failedAt>>
  BY Zenon DEF settingsLoaded
<1>2. ProvisioningTypeOK /\ RuntimeIs /\ SettingsAreKnown /\ ReachedIsDone /\ WebIsDone /\ NotAhead
  BY DEF ProvisioningInv
<1>3. polls' \in Seq(Reads) /\ l \in Switch
  <2>1. polls \in Seq(Reads) /\ l \in Switch
    BY <1>2 DEF ProvisioningTypeOK
  <2>2. <<>> \in Seq(Reads)
    OBVIOUS
  <2> QED BY <2>1, <2>2, <1>1
<1>4. ProvisioningTypeOK'
  BY <1>1, <1>2, <1>3 DEF ProvisioningTypeOK
<1>5. RuntimeIs'
  BY <1>1, <1>2 DEF RuntimeIs, Down, AllUp
<1>6. SettingsAreKnown'
  BY <1>1, <1>2 DEF SettingsAreKnown
<1>7. /\ Known' => Known
      /\ forgiven' = {} => forgiven = {}
  BY <1>1 DEF Known
<1>8. /\ Len(polls') \in Nat
      /\ \A i \in 1..Len(polls') : i \in 1..Len(polls) /\ polls'[i] = polls[i]
      /\ \A i \in 1..Len(polls') : \A j \in i..Len(polls') : j \in i..Len(polls) /\ polls'[j] = polls[j]
  BY <1>1, <1>3
<1>9. Limit' = Limit /\ (Watched' <=> Watched) /\ (WebFailed' <=> WebFailed) /\ (WorkIsDone => WorkIsDone')
  BY <1>1 DEF Limit, Watched, WebFailed, WorkIsDone
<1>10. ReachedIsDone'
  BY <1>1, <1>2, <1>7, <1>8, <1>9 DEF ReachedIsDone
<1>11. WebIsDone'
  BY <1>1, <1>2, <1>7, <1>8, <1>9 DEF WebIsDone
<1>12. NotAhead'
  BY <1>1, <1>2, <1>7, <1>8, <1>9 DEF NotAhead
<1> QED BY <1>4, <1>5, <1>6, <1>10, <1>11, <1>12 DEF ProvisioningInv

\* The snapshot is read.
LEMMA PollKeepsInv ==
  ASSUME ProvisioningInv, poll
  PROVE  ProvisioningInv'
<1>1. PICK read : read = [snapshot |-> localRuntime, late |-> FALSE]
  OBVIOUS
<1>2. /\ screen = "steps" /\ attempt.at # "none" /\ polls' = Append(polls, read)
      /\ forgiven' = forgiven \cup (IF attempt.at = "called" THEN {"early"} ELSE {})
      /\ UNCHANGED <<localRuntime, attempt, config, screen, steps, settings, loads, budget, done, failedAt>>
  BY <1>1, Zenon DEF poll, Connecting
<1>3. ProvisioningTypeOK /\ RuntimeIs /\ SettingsAreKnown /\ ReachedIsDone /\ WebIsDone /\ NotAhead
  BY DEF ProvisioningInv
<1>4. read \in Reads /\ read.snapshot = localRuntime /\ read.late = FALSE
  BY <1>1, <1>3 DEF Reads, ProvisioningTypeOK
<1>5. PICK n \in Nat : n = Len(polls)
  BY <1>3 DEF ProvisioningTypeOK
<1>6. /\ polls' \in Seq(Reads) /\ Len(polls') = n + 1 /\ polls'[n + 1] = read
      /\ \A i \in 1..n : polls'[i] = polls[i]
  BY <1>2, <1>3, <1>4, <1>5 DEF ProvisioningTypeOK
<1>7. ProvisioningTypeOK'
  BY <1>2, <1>3, <1>6 DEF ProvisioningTypeOK
<1>8. RuntimeIs'
  BY <1>2, <1>3 DEF RuntimeIs, Down, AllUp
<1>9. SettingsAreKnown'
  BY <1>2, <1>3 DEF SettingsAreKnown
<1>10. CASE attempt.at = "called"
  <2>1. ~Known' /\ forgiven' # {}
    BY <1>2, <1>10 DEF Known
  <2> QED BY <2>1, <1>7, <1>8, <1>9 DEF ProvisioningInv, ReachedIsDone, WebIsDone, NotAhead
<1>11. CASE attempt.at # "called"
  <2>1. forgiven' = forgiven /\ Watched /\ Watched'
    BY <1>2, <1>11 DEF Watched
  <2>2. Limit' = Limit /\ (WebFailed' <=> WebFailed) /\ (WorkIsDone => WorkIsDone') /\ (Known' <=> Known)
    BY <2>1, <1>2 DEF Limit, WebFailed, WorkIsDone, Known
  <2>3. \A i \in 1..(n + 1) : \/ i \in 1..n /\ polls'[i] = polls[i]
                              \/ i = n + 1 /\ polls'[i].snapshot = localRuntime
    BY <1>4, <1>6
  <2>4. ReachedIsDone'
    BY <2>1, <2>2, <2>3, <1>2, <1>3, <1>5, <1>6 DEF ReachedIsDone
  <2>5. NotAhead'
    BY <2>1, <2>2, <2>3, <1>2, <1>3, <1>5, <1>6 DEF NotAhead
  <2>6. WebIsDone'
    <3> SUFFICES ASSUME forgiven = {}, config = "on", "web" \notin done
                 PROVE  /\ Index(steps.reached) = 6 =>
                             /\ steps.webError /\ WebFailed
                             /\ \A i \in 1..(n + 1) : ~polls'[i].late => polls'[i].snapshot.web = "error"
                        /\ StageOf(localRuntime, config) = 6 => WebFailed
                        /\ \A i \in 1..(n + 1) : ~polls'[i].late /\ StageOf(polls'[i].snapshot, config) = 6 =>
                             WebFailed /\ \A j \in i..(n + 1) : polls'[j].snapshot.web = "error"
      BY <2>1, <2>2, <1>2, <1>6 DEF WebIsDone
    <3>1. WebFailed => localRuntime.web = "error"
      BY DEF WebFailed
    <3>2. /\ Index(steps.reached) = 6 =>
               /\ steps.webError /\ WebFailed
               /\ \A i \in 1..n : ~polls[i].late => polls[i].snapshot.web = "error"
          /\ StageOf(localRuntime, config) = 6 => WebFailed
          /\ \A i \in 1..n : ~polls[i].late /\ StageOf(polls[i].snapshot, config) = 6 =>
               WebFailed /\ \A j \in i..n : polls[j].snapshot.web = "error"
      BY <2>1, <1>2, <1>3, <1>5 DEF WebIsDone
    <3>3. ASSUME NEW i \in 1..(n + 1), ~polls'[i].late, StageOf(polls'[i].snapshot, config) = 6
          PROVE  WebFailed /\ \A j \in i..(n + 1) : polls'[j].snapshot.web = "error"
      <4>1. CASE i \in 1..n
        <5>1. WebFailed /\ \A j \in i..n : polls[j].snapshot.web = "error"
          BY <4>1, <3>2, <3>3, <1>6
        <5>2. \A j \in i..(n + 1) : j \in i..n \/ j = n + 1
          BY <4>1
        <5> QED BY <5>1, <5>2, <4>1, <3>1, <2>3
      <4>2. CASE i = n + 1
        <5>1. polls'[i].snapshot = localRuntime
          BY <4>2, <2>3
        <5>2. WebFailed
          BY <5>1, <3>2, <3>3
        <5>3. \A j \in i..(n + 1) : j = i
          BY <4>2
        <5> QED BY <5>1, <5>2, <5>3, <3>1
      <4> QED BY <4>1, <4>2
    <3>4. ASSUME Index(steps.reached) = 6, NEW i \in 1..(n + 1), ~polls'[i].late
          PROVE  polls'[i].snapshot.web = "error"
      BY <3>1, <3>2, <3>4, <2>3
    <3> QED BY <3>2, <3>3, <3>4
  <2> QED BY <2>4, <2>5, <2>6, <1>7, <1>8, <1>9 DEF ProvisioningInv
<1> QED BY <1>10, <1>11

\* The command's error is shown.
LEMMA ProvisioningFailedKeepsInv ==
  ASSUME ProvisioningInv, provisioningFailed
  PROVE  ProvisioningInv'
<1>1. PICK x : x = Shows(steps, localRuntime, attempt.web = "on")
  OBVIOUS
<1>2. /\ attempt.at = "failed" /\ steps' = [x EXCEPT !.error = TRUE] /\ attempt' = Resting /\ polls' = <<>>
      /\ UNCHANGED <<localRuntime, config, screen, settings, loads, budget, done, failedAt, forgiven>>
  BY <1>1 DEF provisioningFailed
<1>3. ProvisioningTypeOK /\ RuntimeIs /\ SettingsAreKnown /\ ReachedIsDone /\ WebIsDone /\ NotAhead
  BY DEF ProvisioningInv
<1>4. localRuntime \in LocalRuntimeSnapshot /\ screen = "steps" /\ Down
  BY <1>2, <1>3 DEF ProvisioningTypeOK, RuntimeIs
<1>5. /\ steps = [reached |-> steps.reached, webError |-> steps.webError, error |-> steps.error]
      /\ steps.reached \in ToSet(STAGES) /\ steps.error \in BOOLEAN
  BY <1>3 DEF ProvisioningTypeOK
<1>6. PICK web : web = attempt.web
  OBVIOUS
<1>7. /\ x = [reached |-> x.reached, webError |-> x.webError, error |-> x.error]
      /\ x.reached \in ToSet(STAGES) /\ x.webError \in BOOLEAN
      /\ x.webError <=> localRuntime.web = "error"
      /\ Index(x.reached) = Index(steps.reached) \/ Index(x.reached) = StageOf(localRuntime, web)
  <2>1. x = ShownOf(steps, localRuntime, web)
    BY <1>1, <1>6 DEF ShownOf
  <2>2. /\ x = [reached |-> x.reached, webError |-> x.webError, error |-> x.error]
        /\ x.reached \in ToSet(STAGES) /\ x.webError \in BOOLEAN /\ x.error = steps.error
        /\ x.webError <=> localRuntime.web = "error"
        /\ Index(x.reached) = Index(steps.reached) \/ Index(x.reached) = StageOf(localRuntime, web)
        /\ Index(x.reached) >= Index(steps.reached)
    BY <2>1, <1>4, <1>5, ShowsIs, SMT
  <2> QED BY <2>2
<1>8. /\ steps' = [reached |-> steps'.reached, webError |-> steps'.webError, error |-> steps'.error]
      /\ steps'.reached = x.reached /\ steps'.webError = x.webError /\ steps'.error = TRUE
  <2>1. PICK r, w, e : x = [reached |-> r, webError |-> w, error |-> e]
    BY <1>7
  <2>2. steps' = [reached |-> r, webError |-> w, error |-> TRUE]
    BY <2>1, <1>2
  <2> QED BY <2>1, <2>2
<1>9. /\ attempt' = [at |-> attempt'.at, web |-> attempt'.web, started |-> attempt'.started]
      /\ attempt'.at = "none" /\ attempt'.started = {}
  BY <1>2 DEF Resting
<1>10. polls' \in Seq(Reads) /\ Len(polls') = 0
  BY <1>2
<1>11. ProvisioningTypeOK'
  BY <1>2, <1>3, <1>7, <1>8, <1>9, <1>10 DEF ProvisioningTypeOK, Phases
<1>12. RuntimeIs'
  <2>1. Down'
    BY <1>2, <1>4 DEF Down
  <2> QED BY <2>1, <1>2, <1>4, <1>9 DEF RuntimeIs
<1>13. SettingsAreKnown'
  BY <1>2, <1>3, <1>9 DEF SettingsAreKnown
<1>14. ~Watched' /\ WorkIsDone' /\ Watched
  BY <1>2, <1>9 DEF Watched, WorkIsDone
<1>15. Known => web = config
  BY <1>2, <1>3, <1>4, <1>6 DEF SettingsAreKnown, Known
<1>16. (Known' <=> Known) /\ (forgiven = {} => Known)
  BY <1>2 DEF Known
<1>17. ReachedIsDone'
  <2>1. Known => /\ AllBefore(Index(steps.reached), done)
                 /\ AllBefore(StageOf(localRuntime, config), done)
    BY <1>3, <1>4, <1>14 DEF ReachedIsDone
  <2> QED BY <2>1, <1>2, <1>7, <1>8, <1>10, <1>14, <1>15, <1>16 DEF ReachedIsDone
<1>18. WebIsDone'
  <2>1. forgiven = {} /\ config = "on" /\ "web" \notin done
          /\ (Index(steps.reached) = 6 \/ StageOf(localRuntime, config) = 6) => localRuntime.web = "error"
    BY <1>2, <1>3, <1>4, <1>14 DEF WebIsDone, WebFailed
  <2> QED BY <2>1, <1>2, <1>7, <1>8, <1>9, <1>10, <1>14, <1>15, <1>16 DEF WebIsDone
<1>19. Limit = Index(failedAt) /\ Limit' = Index(failedAt)
  BY <1>2, <1>9 DEF Limit
<1>20. NotAhead'
  <2>1. forgiven = {} => Index(steps.reached) <= Limit /\ StageOf(localRuntime, config) <= Limit
    BY <1>3, <1>4, <1>14 DEF NotAhead
  <2> QED BY <2>1, <1>2, <1>7, <1>8, <1>9, <1>10, <1>14, <1>15, <1>16, <1>19 DEF NotAhead
<1> QED BY <1>11, <1>12, <1>13, <1>17, <1>18, <1>20 DEF ProvisioningInv

\* What is left of the reads when the i-th is answered.
LEMMA PolledIs ==
  ASSUME polls \in Seq(Reads), NEW i \in DOMAIN polls, polled(i)
  PROVE  /\ polls' \in Seq(Reads)
         /\ \A k \in 1..Len(polls') :
              \E j \in 1..Len(polls) :
                /\ j = IF k < i THEN k ELSE k + 1
                /\ polls'[k].snapshot = polls[j].snapshot
                /\ ~polls'[k].late => ~polls[j].late /\ j >= i
<1>1. PICK n \in Nat : n = Len(polls)
  OBVIOUS
<1>2. i \in 1..n /\ DOMAIN polls = 1..n
  BY <1>1
<1>3. PICK s : s = [j \in DOMAIN polls |-> [polls[j] EXCEPT !.late = @ \/ j < i]]
  OBVIOUS
<1>4. ASSUME NEW j \in 1..n
      PROVE  /\ s[j] \in Reads /\ s[j].snapshot = polls[j].snapshot
             /\ ~s[j].late => ~polls[j].late /\ j >= i
  <2>1. PICK sn \in LocalRuntimeSnapshot, la \in BOOLEAN : polls[j] = [snapshot |-> sn, late |-> la]
    <3>1. polls[j] \in Reads
      BY <1>1
    <3> QED BY <3>1 DEF Reads
  <2>2. PICK v \in BOOLEAN : v <=> (la \/ j < i)
    OBVIOUS
  <2>3. s[j] = [polls[j] EXCEPT !.late = @ \/ j < i]
    BY <1>2, <1>3
  <2>4. s[j] = [snapshot |-> sn, late |-> v]
    <3>1. polls[j].late = la
      BY <2>1
    <3>2. v = (la \/ j < i)
      BY <2>2
    <3>3. s[j] = [polls[j] EXCEPT !.late = v]
      BY <2>3, <3>1, <3>2
    <3> QED BY <3>3, <2>1
  <2>5. s[j].late = v /\ s[j].snapshot = sn /\ polls[j].late = la /\ polls[j].snapshot = sn
    BY <2>1, <2>4
  <2>6. ~v => ~la /\ j >= i
    BY <2>2, <1>2
  <2> QED BY <2>4, <2>5, <2>6 DEF Reads
<1>5. DOMAIN s = 1..n
  BY <1>2, <1>3
<1>6. s = [j \in 1..n |-> s[j]]
  BY <1>2, <1>3
<1>7. s \in [1..n -> Reads]
  BY <1>4, <1>6
<1>8. s \in Seq(Reads) /\ Len(s) = n
  BY <1>7
<1>9. polls' = RemoveAt(s, i)
  BY <1>3 DEF polled
<1>10. PICK a, b : a = SubSeq(s, 1, i - 1) /\ b = SubSeq(s, i + 1, n)
  OBVIOUS
<1>11. /\ a \in Seq(Reads) /\ Len(a) = i - 1 /\ \A k \in 1..(i - 1) : a[k] = s[k]
       /\ b \in Seq(Reads) /\ Len(b) = n - i /\ \A k \in 1..(n - i) : b[k] = s[i + k]
  <2>1. a \in Seq(Reads) /\ Len(a) = i - 1 /\ \A k \in 1..(i - 1) : a[k] = s[k]
    BY <1>2, <1>8, <1>10
  <2>2. b \in Seq(Reads) /\ Len(b) = n - i
    BY <1>2, <1>8, <1>10
  <2>3. \A k \in 1..(n - i) : b[k] = s[i + k]
    BY <1>2, <1>8, <1>10
  <2> QED BY <2>1, <2>2, <2>3
<1>12. polls' = a \o b
  BY <1>8, <1>9, <1>10 DEF RemoveAt
<1>13. /\ a \o b \in Seq(Reads) /\ Len(a \o b) = Len(a) + Len(b)
       /\ \A k \in 1..(Len(a) + Len(b)) : (a \o b)[k] = IF k <= Len(a) THEN a[k] ELSE b[k - Len(a)]
  BY <1>11, ConcatProperties
<1>14. polls' \in Seq(Reads) /\ Len(polls') = n - 1
  BY <1>2, <1>11, <1>12, <1>13
<1>15. ASSUME NEW k \in 1..(n - 1)
       PROVE  \E j \in 1..n : /\ j = IF k < i THEN k ELSE k + 1
                              /\ polls'[k] = s[j]
  <2>1. CASE k < i
    <3>1. k \in 1..(i - 1) /\ k \in 1..n /\ k \in 1..(Len(a) + Len(b)) /\ k <= Len(a)
      BY <2>1, <1>2, <1>11
    <3>2. polls'[k] = a[k]
      BY <3>1, <1>12, <1>13
    <3>3. a[k] = s[k]
      BY <3>1, <1>11
    <3> QED BY <3>1, <3>2, <3>3, <2>1
  <2>2. CASE ~(k < i)
    <3>1. /\ k + 1 \in 1..n /\ k \in 1..(Len(a) + Len(b)) /\ ~(k <= Len(a))
          /\ k - (i - 1) \in 1..(n - i) /\ i + (k - (i - 1)) = k + 1 /\ Len(a) = i - 1
      BY <2>2, <1>2, <1>11
    <3>2. polls'[k] = b[k - (i - 1)]
      BY <3>1, <1>12, <1>13
    <3>3. b[k - (i - 1)] = s[i + (k - (i - 1))]
      BY <3>1, <1>11
    <3>4. polls'[k] = s[k + 1]
      BY <3>1, <3>2, <3>3
    <3> QED BY <3>1, <3>4, <2>2
  <2> QED BY <2>1, <2>2
<1>16. ASSUME NEW k \in 1..Len(polls')
       PROVE  \E j \in 1..Len(polls) :
                /\ j = IF k < i THEN k ELSE k + 1
                /\ polls'[k].snapshot = polls[j].snapshot
                /\ ~polls'[k].late => ~polls[j].late /\ j >= i
  <2>1. k \in 1..(n - 1)
    BY <1>14
  <2>2. PICK j \in 1..n : j = (IF k < i THEN k ELSE k + 1) /\ polls'[k] = s[j]
    BY <2>1, <1>15
  <2>3. /\ s[j].snapshot = polls[j].snapshot
        /\ ~s[j].late => ~polls[j].late /\ j >= i
    BY <1>4
  <2>4. j \in 1..Len(polls)
    BY <1>1
  <2> QED BY <2>2, <2>3, <2>4
<1> QED BY <1>14, <1>16

\* A read is answered and shown.
LEMMA PolledKeepsInv ==
  ASSUME ProvisioningInv, NEW i \in DOMAIN polls, polled(i)
  PROVE  ProvisioningInv'
<1>1. ProvisioningTypeOK /\ RuntimeIs /\ SettingsAreKnown /\ ReachedIsDone /\ WebIsDone /\ NotAhead
  BY DEF ProvisioningInv
<1>2. polls \in Seq(Reads)
  BY <1>1 DEF ProvisioningTypeOK
<1>3. PICK n \in Nat : n = Len(polls)
  BY <1>2
<1>4. i \in 1..n
  BY <1>2, <1>3
<1>5. /\ steps' = Shows(steps, polls[i].snapshot, settings = "on")
      /\ forgiven' = forgiven \cup (IF polls[i].late THEN {"overtaken"} ELSE {})
      /\ UNCHANGED <<localRuntime, attempt, config, screen, settings, loads, budget, done, failedAt>>
  BY DEF polled
<1>6. /\ polls' \in Seq(Reads)
      /\ \A k \in 1..Len(polls') :
           \E j \in 1..n : /\ j = IF k < i THEN k ELSE k + 1
                           /\ polls'[k].snapshot = polls[j].snapshot
                           /\ ~polls'[k].late => ~polls[j].late /\ j >= i
  BY <1>2, <1>3, PolledIs
<1>7. PICK seen : seen = polls[i].snapshot
  OBVIOUS
<1>8. seen \in LocalRuntimeSnapshot
  BY <1>1, <1>3, <1>4, <1>7, PollIs
<1>9. /\ steps = [reached |-> steps.reached, webError |-> steps.webError, error |-> steps.error]
      /\ steps.reached \in ToSet(STAGES) /\ steps.error \in BOOLEAN
  BY <1>1 DEF ProvisioningTypeOK
<1>10. attempt.at # "none" /\ screen = "steps" /\ ~steps.error
  <2>1. polls # <<>>
    BY <1>2, <1>3, <1>4
  <2> QED BY <2>1, <1>1 DEF RuntimeIs
<1>11. PICK x : x = steps'
  OBVIOUS
<1>12. /\ x = [reached |-> x.reached, webError |-> x.webError, error |-> x.error]
       /\ x.reached \in ToSet(STAGES) /\ x.webError \in BOOLEAN /\ x.error = steps.error
       /\ x.webError <=> seen.web = "error"
       /\ Index(x.reached) = Index(steps.reached) \/ Index(x.reached) = StageOf(seen, settings)
       /\ Index(x.reached) >= Index(steps.reached)
  <2>1. x = ShownOf(steps, seen, settings)
    BY <1>5, <1>7, <1>11 DEF ShownOf
  <2> QED BY <2>1, <1>8, <1>9, ShowsIs, SMT
<1>13. ProvisioningTypeOK'
  BY <1>1, <1>5, <1>6, <1>9, <1>11, <1>12 DEF ProvisioningTypeOK
<1>14. RuntimeIs'
  <2>1. ~steps'.error /\ screen' = "steps" /\ attempt'.at # "none"
    BY <1>5, <1>10, <1>11, <1>12
  <2>2. (Down' <=> Down) /\ (AllUp' <=> AllUp)
    BY <1>5 DEF Down, AllUp
  <2> QED BY <2>1, <2>2, <1>1, <1>5 DEF RuntimeIs
<1>15. SettingsAreKnown'
  BY <1>1, <1>5 DEF SettingsAreKnown
<1>16. /\ Known' => Known
       /\ forgiven' = {} => forgiven = {} /\ ~polls[i].late
       /\ forgiven = {} => Known
       /\ Known => settings = config
  BY <1>1, <1>5, <1>10 DEF Known, SettingsAreKnown
<1>17. /\ Limit' = Limit /\ (Watched' <=> Watched) /\ (WebFailed' <=> WebFailed) /\ (WorkIsDone => WorkIsDone')
       /\ WebFailed => localRuntime.web = "error"
  BY <1>5 DEF Limit, Watched, WebFailed, WorkIsDone
<1>18. ReachedIsDone'
  <2> SUFFICES ASSUME Known
               PROVE  /\ WorkIsDone' /\ AllBefore(Index(x.reached), done)
                      /\ \A k \in 1..Len(polls') : AllBefore(StageOf(polls'[k].snapshot, config), done)
                      /\ Watched => AllBefore(StageOf(localRuntime, config), done)
    BY <1>5, <1>11, <1>16, <1>17 DEF ReachedIsDone
  <2>1. /\ WorkIsDone /\ AllBefore(Index(steps.reached), done)
        /\ \A j \in 1..n : AllBefore(StageOf(polls[j].snapshot, config), done)
        /\ Watched => AllBefore(StageOf(localRuntime, config), done)
    BY <1>1, <1>3, <1>10 DEF ReachedIsDone
  <2>2. AllBefore(StageOf(seen, config), done)
    BY <2>1, <1>4, <1>7
  <2>3. AllBefore(Index(x.reached), done)
    BY <2>1, <2>2, <1>12, <1>16
  <2>4. \A k \in 1..Len(polls') : AllBefore(StageOf(polls'[k].snapshot, config), done)
    BY <2>1, <1>6
  <2> QED BY <2>1, <2>3, <2>4, <1>17
<1>19. NotAhead'
  <2> SUFFICES ASSUME forgiven = {}
               PROVE  /\ Index(x.reached) <= Limit
                      /\ \A k \in 1..Len(polls') : StageOf(polls'[k].snapshot, config) <= Limit
    BY <1>1, <1>5, <1>11, <1>16, <1>17 DEF NotAhead
  <2>1. Index(steps.reached) <= Limit /\ \A j \in 1..n : StageOf(polls[j].snapshot, config) <= Limit
    BY <1>1, <1>3, <1>10 DEF NotAhead
  <2>2. StageOf(seen, config) <= Limit
    BY <2>1, <1>4, <1>7
  <2>3. Index(x.reached) <= Limit
    BY <2>1, <2>2, <1>12, <1>16
  <2>4. \A k \in 1..Len(polls') : StageOf(polls'[k].snapshot, config) <= Limit
    BY <2>1, <1>6
  <2> QED BY <2>3, <2>4
<1>20. WebIsDone'
  <2> SUFFICES ASSUME forgiven = {}, ~polls[i].late, config = "on", "web" \notin done
               PROVE  /\ Index(x.reached) = 6 =>
                           /\ x.webError /\ WebFailed
                           /\ \A k \in 1..Len(polls') : ~polls'[k].late => polls'[k].snapshot.web = "error"
                      /\ Watched /\ StageOf(localRuntime, config) = 6 => WebFailed
                      /\ \A k \in 1..Len(polls') : ~polls'[k].late /\ StageOf(polls'[k].snapshot, config) = 6 =>
                           WebFailed /\ \A m \in k..Len(polls') : polls'[m].snapshot.web = "error"
    BY <1>5, <1>10, <1>11, <1>16, <1>17 DEF WebIsDone
  <2>1. /\ Index(steps.reached) = 6 =>
             WebFailed /\ \A j \in 1..n : ~polls[j].late => polls[j].snapshot.web = "error"
        /\ Watched /\ StageOf(localRuntime, config) = 6 => WebFailed
        /\ \A j \in 1..n : ~polls[j].late /\ StageOf(polls[j].snapshot, config) = 6 =>
             WebFailed /\ \A m \in j..n : polls[m].snapshot.web = "error"
    BY <1>1, <1>3, <1>10 DEF WebIsDone
  <2>2. ASSUME Index(x.reached) = 6
        PROVE  /\ x.webError /\ WebFailed
               /\ \A k \in 1..Len(polls') : ~polls'[k].late => polls'[k].snapshot.web = "error"
    <3>1. /\ WebFailed
          /\ \A j \in i..n : ~polls[j].late => polls[j].snapshot.web = "error"
      <4>1. CASE Index(steps.reached) = 6
        <5>1. \A j \in i..n : j \in 1..n
          BY <1>4
        <5> QED BY <5>1, <4>1, <2>1
      <4>2. CASE StageOf(seen, config) = 6
        BY <4>2, <2>1, <1>4, <1>7
      <4> QED BY <4>1, <4>2, <2>2, <1>12, <1>16
    <3>2. seen.web = "error"
      <4>1. i \in i..n
        BY <1>4
      <4> QED BY <4>1, <3>1, <1>7
    <3>3. ASSUME NEW k \in 1..Len(polls'), ~polls'[k].late
          PROVE  polls'[k].snapshot.web = "error"
      <4>1. PICK j \in 1..n : polls'[k].snapshot = polls[j].snapshot /\ (~polls'[k].late => ~polls[j].late /\ j >= i)
        BY <1>6
      <4>2. j \in i..n /\ ~polls[j].late
        BY <4>1, <3>3, <1>4
      <4> QED BY <4>1, <4>2, <3>1
    <3> QED BY <3>1, <3>2, <3>3, <1>12
  <2>3. ASSUME NEW k \in 1..Len(polls'), ~polls'[k].late, StageOf(polls'[k].snapshot, config) = 6
        PROVE  WebFailed /\ \A m \in k..Len(polls') : polls'[m].snapshot.web = "error"
    <3>1. PICK j \in 1..n : /\ j = IF k < i THEN k ELSE k + 1
                            /\ polls'[k].snapshot = polls[j].snapshot
                            /\ ~polls'[k].late => ~polls[j].late /\ j >= i
      BY <1>6
    <3>2. WebFailed /\ \A m \in j..n : polls[m].snapshot.web = "error"
      BY <3>1, <2>1, <2>3
    <3>3. ASSUME NEW m \in k..Len(polls')
          PROVE  polls'[m].snapshot.web = "error"
      <4>1. m \in 1..Len(polls') /\ m >= k /\ m \in Nat
        BY <1>6
      <4>2. PICK p \in 1..n : p = (IF m < i THEN m ELSE m + 1) /\ polls'[m].snapshot = polls[p].snapshot
        BY <4>1, <1>6
      <4>3. p \in j..n
        BY <4>1, <4>2, <3>1, <1>4
      <4> QED BY <4>2, <4>3, <3>2
    <3> QED BY <3>2, <3>3
  <2> QED BY <2>1, <2>2, <2>3
<1> QED BY <1>13, <1>14, <1>15, <1>18, <1>19, <1>20 DEF ProvisioningInv
-----------------------------------------------------------------------------
(* The theorem.                                                                *)

\* The application starts with nothing running.
LEMMA ProvisioningInitInv ==
  ASSUME ProvisioningInit
  PROVE  ProvisioningInv
<1>1. /\ attempt = Resting /\ config = "off" /\ screen = "form" /\ steps = Opened /\ settings = Unknown
      /\ loads = {} /\ polls = <<>> /\ forgiven = {}
  BY DEF ProvisioningInit
<1>2. localRuntime \in LocalRuntimeSnapshot /\ localRuntime.pg # "running" /\ localRuntime.backend # "running"
  BY DEF ProvisioningInit, LocalRuntimeSnapshot
<1>3. /\ attempt = [at |-> attempt.at, web |-> attempt.web, started |-> attempt.started]
      /\ attempt.at = "none" /\ attempt.started = {}
  BY <1>1 DEF Resting
<1>4. /\ steps = [reached |-> steps.reached, webError |-> steps.webError, error |-> steps.error]
      /\ steps.reached = "prepare" /\ steps.webError = FALSE /\ steps.error = FALSE
  BY <1>1 DEF Opened
<1>5. polls \in Seq(Reads)
  BY <1>1
<1>6. ProvisioningTypeOK
  BY <1>1, <1>2, <1>3, <1>4, <1>5, StagesAre DEF ProvisioningTypeOK, Phases, Switch
<1>7. Down
  BY <1>2 DEF Down, Up
<1>8. RuntimeIs
  BY <1>1, <1>3, <1>4, <1>7 DEF RuntimeIs
<1> QED BY <1>1, <1>6, <1>8 DEF ProvisioningInv, SettingsAreKnown, ReachedIsDone, WebIsDone, NotAhead

\* Nothing happens.
LEMMA ProvisioningStutters ==
  ASSUME ProvisioningInv, UNCHANGED provisioningVars
  PROVE  ProvisioningInv'
<1>1. UNCHANGED <<localRuntime, attempt, config, screen, steps, settings, loads, polls, done, failedAt, forgiven>>
  BY DEF provisioningVars
<1>2. /\ Limit' = Limit /\ (Watched' <=> Watched) /\ (WebFailed' <=> WebFailed) /\ (WorkIsDone => WorkIsDone')
      /\ (Known' <=> Known) /\ (Down' <=> Down) /\ (AllUp' <=> AllUp)
  BY <1>1 DEF Limit, Watched, WebFailed, WorkIsDone, Known, Down, AllUp
<1>3. ProvisioningTypeOK'
  BY <1>1 DEF ProvisioningInv, ProvisioningTypeOK
<1>4. RuntimeIs'
  BY <1>1, <1>2 DEF ProvisioningInv, RuntimeIs
<1>5. SettingsAreKnown' /\ ReachedIsDone'
  BY <1>1, <1>2 DEF ProvisioningInv, SettingsAreKnown, ReachedIsDone
<1>6. WebIsDone'
  BY <1>1, <1>2 DEF ProvisioningInv, WebIsDone
<1>7. NotAhead'
  BY <1>1, <1>2 DEF ProvisioningInv, NotAhead
<1> QED BY <1>3, <1>4, <1>5, <1>6, <1>7 DEF ProvisioningInv

\* Whatever happens keeps the invariant.
LEMMA ProvisioningNextInv ==
  ASSUME ProvisioningInv, [ProvisioningNext]_provisioningVars
  PROVE  ProvisioningInv'
<1>1. CASE Begin
  BY <1>1, BeginKeepsInv
<1>2. CASE Prepare
  BY <1>2, PrepareKeepsInv
<1>3. CASE InstallPostgresql
  BY <1>3, InstallKeepsInv
<1>4. CASE StartPostgresql
  BY <1>4, StartPostgresqlKeepsInv
<1>5. CASE StartingBackend
  BY <1>5, StartingBackendKeepsInv
<1>6. CASE StartBackend
  BY <1>6, StartBackendKeepsInv
<1>7. CASE ConnectClient
  BY <1>7, ConnectKeepsInv
<1>8. CASE StartWeb
  BY <1>8, StartWebKeepsInv
<1>9. CASE Finish
  BY <1>9, FinishKeepsInv
<1>10. CASE Fail
  BY <1>10, FailKeepsInv
<1>11. CASE Rollback
  BY <1>11, RollbackKeepsInv
<1>12. CASE Failed
  BY <1>12, FailedKeepsInv
<1>13. CASE Stop
  BY <1>13, StopKeepsInv
<1>14. CASE loadSettings
  BY <1>14, LoadSettingsKeepsInv
<1>15. CASE \E l \in loads : settingsLoaded(l)
  BY <1>15, SettingsLoadedKeepsInv
<1>16. CASE \E web \in {"on", "off"} : connectLocal(web)
  BY <1>16, ConnectLocalKeepsInv DEF Switch
<1>17. CASE saveFails
  BY <1>17, SaveFailsKeepsInv
<1>18. CASE retry
  BY <1>18, RetryKeepsInv
<1>19. CASE poll
  BY <1>19, PollKeepsInv
<1>20. CASE \E i \in DOMAIN polls : polled(i)
  BY <1>20, PolledKeepsInv
<1>21. CASE runtimeConnected
  BY <1>21, RuntimeConnectedKeepsInv
<1>22. CASE statusUnknown
  BY <1>22, StatusUnknownKeepsInv
<1>23. CASE provisioningFailed
  BY <1>23, ProvisioningFailedKeepsInv
<1>24. CASE backToLocalSetup
  BY <1>24, BackToLocalSetupKeepsInv
<1>25. CASE UNCHANGED provisioningVars
  BY <1>25, ProvisioningStutters
<1> QED BY <1>1, <1>2, <1>3, <1>4, <1>5, <1>6, <1>7, <1>8, <1>9, <1>10, <1>11, <1>12, <1>13, <1>14, <1>15,
           <1>16, <1>17, <1>18, <1>19, <1>20, <1>21, <1>22, <1>23, <1>24, <1>25 DEF ProvisioningNext

\* The invariant says what the steps promise.
LEMMA StepsFollow ==
  ASSUME ProvisioningInv
  PROVE  StepsAreTrue
<1>1. ProvisioningTypeOK /\ RuntimeIs /\ SettingsAreKnown /\ ReachedIsDone /\ WebIsDone /\ NotAhead
  BY DEF ProvisioningInv
<1>2. Index(steps.reached) \in 1..6
  BY <1>1, StagesAre, IndexIs DEF ProvisioningTypeOK
<1>3. CompleteIsDone
  <2> SUFFICES ASSUME screen = "steps", forgiven \subseteq {"retried"}, NEW s \in ToSet(STAGES),
                      stateFor(s) = "complete", s = "web" => forgiven = {}
               PROVE  s \in done
    BY DEF CompleteIsDone
  <2>1. Known /\ settings = config
    BY <1>1 DEF Known, SettingsAreKnown
  <2>2. Index(s) < Index(steps.reached) /\ (s = "web" => settings = "on" /\ ~steps.webError)
    BY Zenon DEF stateFor
  <2>3. AllBefore(Index(steps.reached), done)
    BY <2>1, <1>1 DEF ReachedIsDone
  <2>4. CASE s = "web"
    <3>1. Index(steps.reached) = 6
      BY <2>2, <2>4, <1>2, IndexIs
    <3>2. forgiven = {} /\ config = "on" /\ ~steps.webError
      BY <2>1, <2>2, <2>4
    <3> QED BY <3>1, <3>2, <2>4, <1>1 DEF WebIsDone
  <2>5. CASE s # "web"
    BY <2>2, <2>3, <2>5, <1>2, StagesAre, IndexIs DEF AllBefore
  <2> QED BY <2>4, <2>5
<1>4. FailureIsNotAhead
  <2> SUFFICES ASSUME screen = "steps", steps.error, forgiven = {}
               PROVE  Index(steps.reached) <= Index(failedAt)
    BY DEF FailureIsNotAhead
  <2>1. attempt.at = "none"
    BY <1>1 DEF RuntimeIs, Resting
  <2>2. Limit = Index(failedAt)
    BY <2>1 DEF Limit
  <2> QED BY <2>2, <1>1 DEF NotAhead
<1>5. RetryMeetsNoAttempt
  <2>1. localRuntime \in LocalRuntimeSnapshot
    BY <1>1 DEF ProvisioningTypeOK
  <2>2. steps.error => attempt = Resting /\ polls = <<>>
    BY <1>1 DEF RuntimeIs, Resting
  <2>3. screen = "connected" => localRuntime.status = "ready" /\ Up(localRuntime.pg) /\ Up(localRuntime.backend)
    BY <1>1 DEF RuntimeIs, AllUp
  <2> QED BY <2>1, <2>2, <2>3 DEF RetryMeetsNoAttempt
<1>6. SkippedIsDisabled
  BY <1>1 DEF SkippedIsDisabled, SettingsAreKnown
<1> QED BY <1>3, <1>4, <1>5, <1>6 DEF StepsAreTrue

\* A step that is shown complete is, a failure is not shown after the step that
\* failed, the buttons return only when the runtime rests, and a step is skipped
\* when the runtime skips it: for any number of attempts, reads of the settings
\* and reads of the snapshot.
THEOREM StepsAreAlwaysTrue == ProvisioningSpec => []StepsAreTrue
<1>1. ProvisioningInit => ProvisioningInv
  BY ProvisioningInitInv
<1>2. ProvisioningInv /\ [ProvisioningNext]_provisioningVars => ProvisioningInv'
  BY ProvisioningNextInv
<1>3. ProvisioningInv => StepsAreTrue
  BY StepsFollow
<1> QED BY <1>1, <1>2, <1>3, PTL DEF ProvisioningSpec

-------------------------------------------------------------------------------
(* TransferProjection.                                                        *)

\* A set of numbers that is not empty has a least element.
LEMMA LeastOne ==
    ASSUME NEW B, B \subseteq Nat, B # {}
    PROVE  \E n \in B : \A m \in Nat : m < n => m \notin B
  <1>1. IsWellFoundedOn(OpToRel(<, Nat), Nat)
    BY NatLessThanWellFounded, Zenon
  <1>2. PICK n \in B : \A m \in B : ~ (<<m, n>> \in OpToRel(<, Nat))
    BY <1>1, WFMin, Zenon
  <1> QED BY <1>2 DEF OpToRel

\* f[i] is what Kept takes of the first i elements, up to n.
Filters(f, s, S, n) ==
  f = [i \in 0..n |-> IF i = 0 THEN <<>>
                      ELSE IF s[i] \in S THEN Append(f[i - 1], s[i]) ELSE f[i - 1]]

\* The recursion of Kept has a solution.
LEMMA FiltersExist ==
    ASSUME NEW T, NEW s \in Seq(T), NEW S
    PROVE  \A n \in Nat : \E f : Filters(f, s, S, n)
  <1> DEFINE Bad == {n \in Nat : ~ \E f : Filters(f, s, S, n)}
  <1> SUFFICES ASSUME Bad # {} PROVE FALSE
    OBVIOUS
  <1>1. PICK n \in Bad : \A m \in Nat : m < n => m \notin Bad
    BY LeastOne
  <1>2. CASE n = 0
    <2> DEFINE g == [i \in 0..0 |-> <<>>]
    <2>1. Filters(g, s, S, 0)
      BY DEF Filters
    <2> QED BY <1>1, <1>2, <2>1
  <1>3. CASE n # 0
    <2>1. n - 1 \in Nat /\ n - 1 < n /\ n \in Nat
      BY <1>1, <1>3
    <2>2. PICK f : Filters(f, s, S, n - 1)
      BY <1>1, <2>1
    <2> DEFINE g == [i \in 0..n |-> IF i = 0 THEN <<>>
                      ELSE IF s[i] \in S THEN Append(f[i - 1], s[i]) ELSE f[i - 1]]
    <2>3. \A i \in 0..(n - 1) : g[i] = f[i]
      <3>1. \A i \in 0..(n - 1) : f[i] = IF i = 0 THEN <<>>
                      ELSE IF s[i] \in S THEN Append(f[i - 1], s[i]) ELSE f[i - 1]
        BY <2>1, <2>2, Zenon DEF Filters
      <3>2. \A i \in 0..(n - 1) : i \in 0..n
        BY <2>1
      <3>3. \A i \in 0..n : g[i] = IF i = 0 THEN <<>>
                      ELSE IF s[i] \in S THEN Append(f[i - 1], s[i]) ELSE f[i - 1]
        BY Zenon
      <3> QED BY <3>1, <3>2, <3>3, Zenon
    <2>4. \A i \in 0..n : i # 0 => i - 1 \in 0..(n - 1)
      BY <2>1
    <2>5. Filters(g, s, S, n)
      BY <2>3, <2>4 DEF Filters
    <2> QED BY <1>1, <2>5
  <1> QED BY <1>2, <1>3

\* Kept is the last value of such a function.
LEMMA KeptFilters ==
    ASSUME NEW T, NEW s \in Seq(T), NEW S
    PROVE  \E f : Filters(f, s, S, Len(s)) /\ Kept(s, S) = f[Len(s)]
  <1>1. Len(s) \in Nat
    BY LenProperties
  <1>2. PICK g : Filters(g, s, S, Len(s))
    BY <1>1, FiltersExist
  <1> DEFINE f == CHOOSE f : Filters(f, s, S, Len(s))
  <1>3. Filters(f, s, S, Len(s))
    BY <1>2
  <1>4. Kept(s, S) = f[Len(s)]
    BY DEF Kept, Filters
  <1> QED BY <1>3, <1>4

\* What Kept has taken of the first i elements of s: those of S, in their order.
Taken(q, T, s, S, i) ==
  /\ q \in Seq(T)
  /\ \A a \in 1..Len(q) : \E p \in 1..i : q[a] = s[p] /\ s[p] \in S
  /\ \A p \in 1..i : s[p] \in S => \E a \in 1..Len(q) : q[a] = s[p]
  /\ \A a, b \in 1..Len(q) : a < b => \E p, r \in 1..i : p < r /\ q[a] = s[p] /\ q[b] = s[r]

\* One element more.
LEMMA TakenGrows ==
    ASSUME NEW T, NEW s \in Seq(T), NEW S, NEW i \in 1..Len(s), NEW q, Taken(q, T, s, S, i - 1)
    PROVE  /\ s[i] \in S => Taken(Append(q, s[i]), T, s, S, i)
           /\ s[i] \notin S => Taken(q, T, s, S, i)
  <1>1. i \in Nat /\ i >= 1 /\ s[i] \in T /\ Len(s) \in Nat
    BY LenProperties, ElementOfSeq
  <1>2. q \in Seq(T) /\ Len(q) \in Nat
    BY LenProperties DEF Taken
  <1>3. \A p \in 1..i : p \in 1..(i - 1) \/ p = i
    BY <1>1
  <1>4. \A p \in 1..(i - 1) : p \in 1..i
    BY <1>1
  <1>5. ASSUME s[i] \notin S PROVE Taken(q, T, s, S, i)
    <2>1. \A a \in 1..Len(q) : \E p \in 1..i : q[a] = s[p] /\ s[p] \in S
      BY <1>4, Zenon DEF Taken
    <2>2. \A p \in 1..i : s[p] \in S => \E a \in 1..Len(q) : q[a] = s[p]
      BY <1>3, <1>5, Zenon DEF Taken
    <2>3. \A a, b \in 1..Len(q) : a < b => \E p, r \in 1..i : p < r /\ q[a] = s[p] /\ q[b] = s[r]
      <3> TAKE a, b \in 1..Len(q)
      <3> HAVE a < b
      <3>1. PICK p, r \in 1..(i - 1) : p < r /\ q[a] = s[p] /\ q[b] = s[r]
        BY Zenon DEF Taken
      <3> QED BY <1>4, <3>1, Zenon
    <2> QED BY <1>2, <2>1, <2>2, <2>3, Zenon DEF Taken
  <1>6. ASSUME s[i] \in S PROVE Taken(Append(q, s[i]), T, s, S, i)
    <2>1. PICK r : r = Append(q, s[i])
      OBVIOUS
    <2>2. /\ r \in Seq(T) /\ Len(r) = Len(q) + 1 /\ r[Len(r)] = s[i]
          /\ \A a \in 1..Len(q) : r[a] = q[a]
      BY <1>1, <1>2, <2>1, AppendProperties
    <2>3. \A a \in 1..Len(r) : a \in 1..Len(q) \/ a = Len(r)
      BY <1>2, <2>2
    <2>4. \A a \in 1..Len(q) : a \in 1..Len(r)
      BY <1>2, <2>2
    <2>5. \A a \in 1..Len(r) : \E p \in 1..i : r[a] = s[p] /\ s[p] \in S
      <3> TAKE a \in 1..Len(r)
      <3>1. CASE a \in 1..Len(q)
        <4>1. PICK p \in 1..(i - 1) : q[a] = s[p] /\ s[p] \in S
          BY <3>1, Zenon DEF Taken
        <4> QED BY <1>4, <2>2, <3>1, <4>1, Zenon
      <3>2. CASE a = Len(r)
        <4>1. i \in 1..i
          BY <1>1
        <4> QED BY <1>6, <2>2, <3>2, <4>1, Zenon
      <3> QED BY <2>3, <3>1, <3>2, Zenon
    <2>6. \A p \in 1..i : s[p] \in S => \E a \in 1..Len(r) : r[a] = s[p]
      <3>1. Len(r) \in 1..Len(r)
        BY <1>2, <2>2
      <3> TAKE p \in 1..i
      <3> HAVE s[p] \in S
      <3>2. CASE p \in 1..(i - 1)
        <4>1. PICK a \in 1..Len(q) : q[a] = s[p]
          BY <3>2, Zenon DEF Taken
        <4> QED BY <2>2, <2>4, <4>1, Zenon
      <3>3. CASE p = i
        BY <2>2, <3>1, <3>3, Zenon
      <3> QED BY <1>3, <3>2, <3>3, Zenon
    <2>7. ASSUME NEW a \in 1..Len(r), NEW b \in 1..Len(r), a < b
          PROVE  \E p, t \in 1..i : p < t /\ r[a] = s[p] /\ r[b] = s[t]
      <3>1. a \in 1..Len(q)
        BY <1>2, <2>2, <2>7
      <3>2. CASE b \in 1..Len(q)
        <4>1. PICK p, t \in 1..(i - 1) : p < t /\ q[a] = s[p] /\ q[b] = s[t]
          BY <2>7, <3>1, <3>2, Zenon DEF Taken
        <4> QED BY <1>4, <2>2, <3>1, <3>2, <4>1, Zenon
      <3>3. CASE b = Len(r)
        <4>1. PICK p \in 1..(i - 1) : q[a] = s[p]
          BY <3>1 DEF Taken
        <4>2. p \in 1..i /\ p < i /\ i \in 1..i
          BY <1>1, <4>1
        <4> QED BY <2>2, <3>1, <3>3, <4>1, <4>2
      <3> QED BY <2>3, <3>2, <3>3
    <2>8. Taken(r, T, s, S, i)
      BY <2>2, <2>5, <2>6, <2>7 DEF Taken
    <2> QED BY <2>1, <2>8
  <1> QED BY <1>5, <1>6

\* Kept returns the elements of s that are in S, in their order.
LEMMA KeptTakes ==
    ASSUME NEW T, NEW s \in Seq(T), NEW S
    PROVE  Taken(Kept(s, S), T, s, S, Len(s))
  <1>1. Len(s) \in Nat
    BY LenProperties
  <1>2. PICK f : Filters(f, s, S, Len(s)) /\ Kept(s, S) = f[Len(s)]
    BY KeptFilters
  <1> DEFINE Bad == {i \in 0..Len(s) : ~Taken(f[i], T, s, S, i)}
  <1>3. ASSUME Bad # {} PROVE FALSE
    <2> HIDE DEF Bad
    <2>a. Bad \subseteq Nat
      BY <1>1 DEF Bad
    <2>1. PICK i \in Bad : \A j \in Nat : j < i => j \notin Bad
      BY <1>3, <2>a, LeastOne, Zenon
    <2> USE DEF Bad
    <2>2. CASE i = 0
      <3>1. f[0] = <<>>
        BY <1>1, <1>2 DEF Filters
      <3>2. Taken(<<>>, T, s, S, 0)
        BY EmptySeq DEF Taken
      <3> QED BY <2>1, <2>2, <3>1, <3>2
    <2>3. CASE i # 0
      <3>1. i \in 1..Len(s) /\ i - 1 \in 0..Len(s) /\ i - 1 \in Nat /\ i - 1 < i
        BY <1>1, <2>1, <2>3
      <3>2. Taken(f[i - 1], T, s, S, i - 1)
        BY <2>1, <3>1
      <3>3. f[i] = IF s[i] \in S THEN Append(f[i - 1], s[i]) ELSE f[i - 1]
        BY <1>2, <2>3, <3>1 DEF Filters
      <3>4. Taken(f[i], T, s, S, i)
        BY <3>1, <3>2, <3>3, TakenGrows
      <3> QED BY <2>1, <3>4
    <2> QED BY <2>2, <2>3
  <1>4. Taken(f[Len(s)], T, s, S, Len(s))
    BY <1>1, <1>3
  <1> QED BY <1>2, <1>4

\* s lists the elements of X, once each.
Lists(s, X) ==
  /\ s \in Seq(X)
  /\ \A a, b \in 1..Len(s) : a < b => s[a] # s[b]
  /\ \A x \in X : \E a \in 1..Len(s) : s[a] = x

\* A list is as long as its set has elements.
LEMMA ListsCount ==
    ASSUME NEW X, NEW s, Lists(s, X)
    PROVE  /\ Len(s) \in Nat /\ IsFiniteSet(X) /\ Len(s) = Cardinality(X)
           /\ \A a \in 1..Len(s) : s[a] \in X
           /\ DOMAIN s = 1..Len(s) /\ ToSet(s) = X
  <1>1. s \in Seq(X)
    BY DEF Lists
  <1>2. Len(s) \in Nat /\ s \in [1..Len(s) -> X] /\ DOMAIN s = 1..Len(s)
    BY <1>1, LenProperties
  <1>3. \A a, b \in 1..Len(s) : s[a] = s[b] => a = b
    <2> TAKE a, b \in 1..Len(s)
    <2>1. a < b \/ b < a \/ a = b
      BY <1>2
    <2> QED BY <2>1 DEF Lists
  <1>4. s \in Bijection(1..Len(s), X)
    <2>1. s \in Injection(1..Len(s), X)
      BY <1>2, <1>3 DEF Injection, IsInjective
    <2>2. s \in Surjection(1..Len(s), X)
      BY <1>2 DEF Surjection, Lists
    <2> QED BY <2>1, <2>2 DEF Bijection
  <1>5. ExistsBijection(1..Len(s), X)
    BY <1>4 DEF ExistsBijection
  <1>6. Cardinality(X) = Len(s) /\ IsFiniteSet(X)
    BY <1>2, <1>5, FS_CountingElements, FS_NatBijection
  <1>7. ToSet(s) = X
    BY <1>2 DEF ToSet, Lists
  <1> QED BY <1>2, <1>6, <1>7

\* The empty list.
LEMMA ListsNothing == Lists(<<>>, {})
  BY EmptySeq DEF Lists

\* Part of a list.
LEMMA ListsKept ==
    ASSUME NEW X, NEW s, Lists(s, X), NEW S
    PROVE  Lists(Kept(s, S), X \cap S)
  <1>1. s \in Seq(X) /\ Len(s) \in Nat
    BY LenProperties DEF Lists
  <1>2. PICK q : q = Kept(s, S)
    OBVIOUS
  <1>3. Taken(q, X, s, S, Len(s))
    BY <1>1, <1>2, KeptTakes
  <1>4. q \in Seq(X) /\ Len(q) \in Nat /\ q \in [1..Len(q) -> X]
    BY <1>3, LenProperties DEF Taken
  <1>5. \A a \in 1..Len(q) : q[a] \in X \cap S
    BY <1>3, <1>4, Zenon DEF Taken
  <1>6. q \in Seq(X \cap S)
    BY <1>4, <1>5, SeqDef
  <1>7. \A a, b \in 1..Len(q) : a < b => q[a] # q[b]
    <2> TAKE a, b \in 1..Len(q)
    <2> HAVE a < b
    <2>1. PICK p, r \in 1..Len(s) : p < r /\ q[a] = s[p] /\ q[b] = s[r]
      BY <1>3, Zenon DEF Taken
    <2> QED BY <2>1, Zenon DEF Lists
  <1>8. \A x \in X \cap S : \E a \in 1..Len(q) : q[a] = x
    <2> TAKE x \in X \cap S
    <2>1. PICK p \in 1..Len(s) : s[p] = x
      BY DEF Lists
    <2> QED BY <1>3, <2>1, Zenon DEF Taken
  <1>9. Lists(q, X \cap S)
    BY <1>6, <1>7, <1>8, Zenon DEF Lists
  <1> QED BY <1>2, <1>9

\* One element more.
LEMMA ListsAppend ==
    ASSUME NEW X, NEW s, Lists(s, X), NEW x, x \notin X
    PROVE  Lists(Append(s, x), X \cup {x})
  <1>1. PICK q : q = Append(s, x)
    OBVIOUS
  <1>2. s \in Seq(X \cup {x}) /\ Len(s) \in Nat /\ s \in [1..Len(s) -> X]
    <2>1. s \in Seq(X)
      BY DEF Lists
    <2> QED BY <2>1, LenProperties, SeqMonotonic
  <1>3. /\ q \in Seq(X \cup {x}) /\ Len(q) = Len(s) + 1 /\ q[Len(q)] = x
        /\ \A a \in 1..Len(s) : q[a] = s[a]
    BY <1>1, <1>2, AppendProperties
  <1>4. \A a \in 1..Len(q) : a \in 1..Len(s) \/ a = Len(q)
    BY <1>2, <1>3
  <1>5. \A a \in 1..Len(s) : a \in 1..Len(q) /\ q[a] \in X
    BY <1>2, <1>3
  <1>6. Len(q) \in 1..Len(q) /\ Len(q) \notin 1..Len(s)
    BY <1>2, <1>3
  <1>7. \A a, b \in 1..Len(q) : a < b => q[a] # q[b]
    <2> TAKE a, b \in 1..Len(q)
    <2> HAVE a < b
    <2>1. a \in 1..Len(s)
      BY <1>2, <1>3
    <2>2. CASE b \in 1..Len(s)
      BY <1>3, <2>1, <2>2 DEF Lists
    <2>3. CASE b = Len(q)
      BY <1>3, <1>5, <2>1, <2>3
    <2> QED BY <1>4, <2>2, <2>3
  <1>8. \A y \in X \cup {x} : \E a \in 1..Len(q) : q[a] = y
    <2> TAKE y \in X \cup {x}
    <2>1. CASE y = x
      BY <1>3, <1>6, <2>1
    <2>2. CASE y \in X
      <3>1. PICK a \in 1..Len(s) : s[a] = y
        BY <2>2 DEF Lists
      <3> QED BY <1>3, <1>5, <3>1
    <2> QED BY <2>1, <2>2
  <1>9. Lists(q, X \cup {x})
    BY <1>3, <1>7, <1>8, Zenon DEF Lists
  <1> QED BY <1>1, <1>9

\* One list after another.
LEMMA ListsConcat ==
    ASSUME NEW X, NEW Y, NEW s, NEW r, Lists(s, X), Lists(r, Y), X \cap Y = {}
    PROVE  Lists(s \o r, X \cup Y)
  <1>1. PICK q : q = s \o r
    OBVIOUS
  <1>2. /\ Len(s) \in Nat /\ Len(r) \in Nat /\ s \in Seq(X \cup Y) /\ r \in Seq(X \cup Y)
        /\ s \in [1..Len(s) -> X] /\ r \in [1..Len(r) -> Y]
    <2>1. s \in Seq(X) /\ r \in Seq(Y)
      BY DEF Lists
    <2> QED BY <2>1, LenProperties, SeqMonotonic
  <1>3. /\ q \in Seq(X \cup Y) /\ Len(q) = Len(s) + Len(r)
        /\ \A i \in 1..Len(q) : q[i] = IF i <= Len(s) THEN s[i] ELSE r[i - Len(s)]
    BY <1>1, <1>2, ConcatProperties
  <1>4. \A i \in 1..Len(q) : \/ i \in 1..Len(s) /\ q[i] = s[i] /\ q[i] \in X
                             \/ /\ i > Len(s) /\ i - Len(s) \in 1..Len(r)
                                /\ q[i] = r[i - Len(s)] /\ q[i] \in Y
    <2> TAKE i \in 1..Len(q)
    <2>1. CASE i <= Len(s)
      <3>1. i \in 1..Len(s) /\ q[i] = s[i]
        BY <1>2, <1>3, <2>1
      <3> QED BY <1>2, <3>1
    <2>2. CASE ~(i <= Len(s))
      <3>1. PICK k : k = i - Len(s)
        OBVIOUS
      <3>2. k \in 1..Len(r) /\ q[i] = r[k] /\ i > Len(s)
        BY <1>2, <1>3, <2>2, <3>1
      <3>3. r[k] \in Y
        BY <1>2, <3>2
      <3> QED BY <3>1, <3>2, <3>3
    <2> QED BY <2>1, <2>2
  <1>5. \A a, b \in 1..Len(q) : a < b => q[a] # q[b]
    <2> TAKE a, b \in 1..Len(q)
    <2> HAVE a < b
    <2>1. CASE b \in 1..Len(s)
      <3>1. a \in 1..Len(s) /\ s[a] # s[b]
        BY <1>2, <2>1 DEF Lists
      <3> QED BY <1>3, <1>2, <2>1, <3>1
    <2>2. CASE a \in 1..Len(s) /\ b \notin 1..Len(s)
      <3>1. q[a] \in X /\ q[b] \in Y
        BY <1>2, <1>3, <1>4, <2>2
      <3> QED BY <3>1
    <2>3. CASE a \notin 1..Len(s)
      <3>1. b \notin 1..Len(s)
        BY <1>2, <1>3, <2>3
      <3>2. /\ a - Len(s) \in 1..Len(r) /\ q[a] = r[a - Len(s)]
            /\ b - Len(s) \in 1..Len(r) /\ q[b] = r[b - Len(s)]
            /\ a - Len(s) < b - Len(s)
        BY <1>2, <1>3, <1>4, <2>3, <3>1
      <3>3. PICK c, d \in 1..Len(r) : c < d /\ q[a] = r[c] /\ q[b] = r[d]
        BY <3>2
      <3>4. r[c] # r[d]
        BY <3>3, Zenon DEF Lists
      <3> QED BY <3>3, <3>4, Zenon
    <2> QED BY <2>1, <2>2, <2>3
  <1>6. \A y \in X \cup Y : \E a \in 1..Len(q) : q[a] = y
    <2> TAKE y \in X \cup Y
    <2>1. CASE y \in X
      <3>1. PICK a \in 1..Len(s) : s[a] = y
        BY <2>1 DEF Lists
      <3>2. a \in 1..Len(q) /\ q[a] = s[a]
        BY <1>2, <1>3, <3>1
      <3> QED BY <3>1, <3>2
    <2>2. CASE y \in Y
      <3>1. PICK a \in 1..Len(r) : r[a] = y
        BY <2>2 DEF Lists
      <3>2. PICK b : b = a + Len(s)
        OBVIOUS
      <3>3. b \in 1..Len(q) /\ ~(b <= Len(s)) /\ b - Len(s) = a
        BY <1>2, <1>3, <3>2
      <3> QED BY <1>3, <3>1, <3>3
    <2> QED BY <2>1, <2>2
  <1>7. Lists(q, X \cup Y)
    BY <1>3, <1>5, <1>6, Zenon DEF Lists
  <1> QED BY <1>1, <1>7

\* SetToSeq lists a finite set.
LEMMA ListsSet ==
    ASSUME NEW X, IsFiniteSet(X)
    PROVE  Lists(SetToSeq(X), X)
  <1>1. Cardinality(X) \in Nat /\ ExistsBijection(1..Cardinality(X), X)
    BY FS_CardinalityType
  <1>2. PICK f : f \in Bijection(1..Cardinality(X), X)
    BY <1>1 DEF ExistsBijection
  <1>3. f \in [1..Cardinality(X) -> X] /\ IsInjective(f)
    BY <1>2 DEF Bijection, Injection, IsInjective
  <1>4. PICK s : s = SetToSeq(X)
    OBVIOUS
  <1>5. s \in [1..Cardinality(X) -> X] /\ IsInjective(s)
    BY <1>3, <1>4 DEF SetToSeq
  <1>6. s \in Seq(X) /\ Len(s) = Cardinality(X)
    BY <1>1, <1>5, SeqDef, LenProperties
  <1>7. \A a, b \in 1..Len(s) : s[a] = s[b] => a = b
    BY <1>5, <1>6 DEF IsInjective
  <1>8. s \in Surjection(1..Len(s), X)
    <2>1. s \in Injection(1..Len(s), X)
      BY <1>5, <1>6, <1>7 DEF Injection, IsInjective
    <2>2. Cardinality(1..Len(s)) = Len(s) /\ IsFiniteSet(1..Len(s))
      BY <1>1, <1>6, FS_Interval
    <2> QED BY <1>6, <2>1, <2>2, FS_Injection
  <1>9. \A x \in X : \E a \in 1..Len(s) : s[a] = x
    BY <1>8 DEF Surjection
  <1>10. \A a, b \in 1..Len(s) : a < b => s[a] # s[b]
    BY <1>1, <1>6, <1>7
  <1>11. Lists(s, X)
    BY <1>6, <1>9, <1>10 DEF Lists
  <1> QED BY <1>4, <1>11

-----------------------------------------------------------------------------
Labels == {"none"} \cup States
TaskMaps == [Transfers -> Labels]
Revisions == Nat \cup {-1}
Types == {"snapshot", "task", "removed"}
EventRecs == [type : Types, revision : Nat, task : Transfers \cup {"none", "answer"},
              state : Labels, tasks : TaskMaps]
SubPhases == {"none", "listening", "asking", "answered", "live", "over"}
Heards == {{}, {"snapshot"}, {"snapshot", "task"}, Types}
SubRecs == [phase : SubPhases, mounted : BOOLEAN, heard : Heards]
With(ts, S) == {t \in Transfers : ts[t] \in S}

\* past[r] are the engine's tasks at its revision r.
EngineTrue(past) ==
  /\ kind \in {"uploads", "downloads"} /\ revision \in Nat
  /\ past \in [Nat -> TaskMaps] /\ past[revision] = native
  /\ born \subseteq Transfers /\ IsFiniteSet(born)
  /\ \A r \in Nat, t \in Transfers : r <= revision /\ past[r][t] # "none" => t \in born

\* What an event says was so at its revision.
EventTrue(e, past) ==
  /\ e \in EventRecs /\ e.revision <= revision
  /\ e.type = "snapshot" => e.task \in {"none", "answer"} /\ e.tasks = past[e.revision]
  /\ e.type # "snapshot" =>
       /\ e.task \in Transfers /\ e.revision >= 1
       /\ past[e.revision] = [past[e.revision - 1] EXCEPT ![e.task] = e.state]
       /\ e.type = "removed" <=> e.state = "none"

EventsTrue(past) == \A e \in events : EventTrue(e, past)

\* The revision up to which the store knows the task t.
ProjectionKnown(t) == Larger(Larger(taskRevisions[t], removedRevisions[t]), baselineRevision)

\* A task is shown as it was at the revision it is known up to.
StoreTrue(past) ==
  /\ shownTasks \in TaskMaps
  /\ taskRevisions \in [Transfers -> Revisions] /\ removedRevisions \in [Transfers -> Revisions]
  /\ baselineRevision \in Revisions /\ baselineRevision <= revision
  /\ \A t \in Transfers :
       /\ taskRevisions[t] <= revision /\ removedRevisions[t] <= revision
       /\ taskRevisions[t] # -1 => shownTasks[t] # "none"
       /\ removedRevisions[t] # -1 => shownTasks[t] = "none"
       /\ ProjectionKnown(t) = -1 => shownTasks[t] = "none"
       /\ ProjectionKnown(t) # -1 => shownTasks[t] = past[ProjectionKnown(t)][t]

\* The upload store's indexes list the tasks by status.
IndexesOf(ix, ts) ==
  /\ Lists(ix.active, With(ts, ActiveStates))
  /\ Lists(ix.uploading, With(ts, {"uploading"}))
  /\ Lists(ix.finalizing, With(ts, {"finalizing"}))
  /\ Lists(ix.failed, With(ts, {"error"}))

FailedOf(failed, ts) ==
  /\ failed = "none" \/ failed \in With(ts, {"error"})
  /\ failed = "none" => With(ts, {"error"}) = {}

\* The counts and the task named are those of the tasks shown.
SummaryTrue ==
  /\ activeCount = Cardinality(With(shownTasks, ActiveStates))
  /\ failedCount = Cardinality(With(shownTasks, {"error"}))
  /\ IsFiniteSet(With(shownTasks, ActiveStates)) /\ IsFiniteSet(With(shownTasks, {"error"}))
  /\ currentTask = "none" \/ currentTask \in With(shownTasks, ActiveStates \cup {"error"})
  /\ currentTask = "none" <=> With(shownTasks, ActiveStates \cup {"error"}) = {}
  /\ kind = "uploads" /\ With(shownTasks, ActiveStates) # {} => currentTask \in With(shownTasks, ActiveStates)

OrderTrue ==
  /\ Lists(order, With(shownTasks, States))
  /\ kind = "uploads" => IndexesOf(indexes, shownTasks) /\ FailedOf(lastFailedId, shownTasks)
  /\ SummaryTrue

SubsTrue ==
  /\ sub \in [Subscriptions -> SubRecs]
  /\ \A s, r \in Subscriptions : sub[s].mounted /\ sub[r].mounted => s = r
  /\ \A s \in Subscriptions :
       /\ sub[s].phase \in {"asking", "answered", "live"} => sub[s].heard = Types
       /\ sub[s].phase = "live" => sub[s].mounted

\* The change of revision r is on its way, or the store knows better.
Heeded(r, past) ==
  \/ \E e \in events : e.revision = r /\ e.task # "answer"
  \/ \A t \in Transfers : past[r][t] # past[r - 1][t] => ProjectionKnown(t) >= r

\* A subscribed provider has heard of every change since some revision, and of
\* that one it has the engine's answer or will get it.
ClaimTrue(s, past) ==
  \E a \in Nat :
    /\ a <= revision /\ \A r \in Nat : r > a /\ r <= revision => Heeded(r, past)
    /\ \/ \E e \in events : e.task = "answer" /\ e.revision = a
       \/ sub[s].phase = "live" /\ baselineRevision >= a

Claims(past) ==
  \A s \in Subscriptions :
    sub[s].mounted /\ sub[s].phase \in {"answered", "live"} /\ ~wiped => ClaimTrue(s, past)

InvOf(past) ==
  /\ EngineTrue(past) /\ EventsTrue(past) /\ StoreTrue(past) /\ OrderTrue /\ SubsTrue /\ Claims(past)
  /\ wiped \in BOOLEAN /\ latestRevision \in Revisions

ProjectionInv == \E past : InvOf(past)

\* No task is called "none" or "answer".
LEMMA Names == "none" \notin Transfers /\ "answer" \notin Transfers /\ "none" \notin States
  BY ProjectionAssumption DEF States, ActiveStates

\* The first and the last of a list.
LEMMA EndsOfList ==
    ASSUME NEW X, NEW s, Lists(s, X)
    PROVE  /\ s = <<>> <=> X = {}
           /\ s # <<>> => Head(s) \in X /\ Last(s) \in X
  <1>1. /\ Len(s) \in Nat /\ \A a \in 1..Len(s) : s[a] \in X
        /\ s \in Seq(X)
    BY ListsCount DEF Lists
  <1>2. ASSUME s = <<>> PROVE X = {}
    <2>1. Len(s) = 0
      BY <1>2
    <2> QED BY <2>1 DEF Lists
  <1>3. ASSUME s # <<>> PROVE Head(s) \in X /\ Last(s) \in X
    <2>1. Len(s) >= 1 /\ Head(s) = s[1]
      BY <1>1, <1>3, HeadTailProperties, EmptySeq
    <2>2. 1 \in 1..Len(s) /\ Len(s) \in 1..Len(s)
      BY <1>1, <2>1
    <2> QED BY <1>1, <2>1, <2>2 DEF Last
  <1> QED BY <1>2, <1>3

\* One task changes its status from ts to ts2: the list of a set of statuses.
LEMMA StatusList ==
    ASSUME NEW ts \in TaskMaps, NEW S, NEW ids, Lists(ids, With(ts, S)),
           NEW t \in Transfers, NEW n \in Labels, NEW ts2, ts2 = [ts EXCEPT ![t] = n]
    PROVE  /\ ts[t] \notin S /\ n \in S => Lists(Append(ids, t), With(ts2, S))
           /\ ts[t] \in S /\ n \notin S => Lists(Kept(ids, Transfers \ {t}), With(ts2, S))
           /\ ts[t] \in S /\ n \in S => Lists(ids, With(ts2, S))
           /\ ts[t] \notin S /\ n \notin S => Lists(ids, With(ts2, S))
  <1>1. \A u \in Transfers : ts2[u] = IF u = t THEN n ELSE ts[u]
    BY DEF TaskMaps
  <1>2. ASSUME ts[t] \notin S, n \in S PROVE Lists(Append(ids, t), With(ts2, S))
    <2>1. With(ts2, S) = With(ts, S) \cup {t} /\ t \notin With(ts, S)
      BY <1>1, <1>2 DEF With
    <2>2. Lists(Append(ids, t), With(ts, S) \cup {t})
      BY <2>1, ListsAppend, Zenon
    <2> QED BY <2>1, <2>2, Zenon
  <1>3. ASSUME ts[t] \in S, n \notin S PROVE Lists(Kept(ids, Transfers \ {t}), With(ts2, S))
    <2>1. With(ts2, S) = With(ts, S) \cap (Transfers \ {t})
      BY <1>1, <1>3 DEF With
    <2>2. Lists(Kept(ids, Transfers \ {t}), With(ts, S) \cap (Transfers \ {t}))
      BY ListsKept, Zenon
    <2> QED BY <2>1, <2>2, Zenon
  <1>4. ASSUME ts[t] \in S <=> n \in S PROVE Lists(ids, With(ts2, S))
    <2>1. With(ts2, S) = With(ts, S)
      BY <1>1, <1>4 DEF With
    <2> QED BY <2>1
  <1> QED BY <1>2, <1>3, <1>4

\* updateStatusSet keeps the list of a set of statuses.
LEMMA StatusSet ==
    ASSUME NEW ts \in TaskMaps, NEW S, NEW ids, Lists(ids, With(ts, S)),
           NEW t \in Transfers, NEW n \in Labels, NEW ts2, ts2 = [ts EXCEPT ![t] = n]
    PROVE  Lists(updateStatusSet(ids, t, ts[t] \in S, n \in S), With(ts2, S))
  BY StatusList, Zenon DEF updateStatusSet

\* updateStatusIndexes keeps the indexes true.
LEMMA IndexesStep ==
    ASSUME NEW ts \in TaskMaps, NEW ix, IndexesOf(ix, ts),
           NEW t \in Transfers, NEW n \in Labels, NEW ts2, ts2 = [ts EXCEPT ![t] = n]
    PROVE  IndexesOf(updateStatusIndexes(ix, t, ts[t], n), ts2)
  <1>1. PICK ix2 : ix2 = updateStatusIndexes(ix, t, ts[t], n)
    OBVIOUS
  <1>2. Lists(ix2.active, With(ts2, ActiveStates))
    <2>1. ix2.active = updateStatusSet(ix.active, t, ts[t] \in ActiveStates, n \in ActiveStates)
      BY <1>1 DEF updateStatusIndexes
    <2> QED BY <2>1, StatusSet DEF IndexesOf
  <1>3. Lists(ix2.uploading, With(ts2, {"uploading"}))
    <2>1. ix2.uploading = updateStatusSet(ix.uploading, t, ts[t] \in {"uploading"}, n \in {"uploading"})
      BY <1>1 DEF updateStatusIndexes, updateStatusSet
    <2> QED BY <2>1, StatusSet DEF IndexesOf
  <1>4. Lists(ix2.finalizing, With(ts2, {"finalizing"}))
    <2>1. ix2.finalizing = updateStatusSet(ix.finalizing, t, ts[t] \in {"finalizing"}, n \in {"finalizing"})
      BY <1>1 DEF updateStatusIndexes, updateStatusSet
    <2> QED BY <2>1, StatusSet DEF IndexesOf
  <1>5. Lists(ix2.failed, With(ts2, {"error"}))
    <2>1. ix2.failed = updateStatusSet(ix.failed, t, ts[t] \in {"error"}, n \in {"error"})
      BY <1>1 DEF updateStatusIndexes, updateStatusSet
    <2> QED BY <2>1, StatusSet DEF IndexesOf
  <1>6. IndexesOf(ix2, ts2)
    BY <1>2, <1>3, <1>4, <1>5 DEF IndexesOf
  <1> QED BY <1>1, <1>6

\* rebuildStatusIndexes makes true indexes of the tasks in order.
LEMMA IndexesRebuilt ==
    ASSUME NEW ts \in TaskMaps, NEW ids, Lists(ids, With(ts, States))
    PROVE  IndexesOf(rebuildStatusIndexes(ts, ids), ts)
  <1>1. PICK ix : ix = rebuildStatusIndexes(ts, ids)
    OBVIOUS
  <1>2. \A S \in SUBSET States : With(ts, States) \cap {t \in Transfers : ts[t] \in S} = With(ts, S)
    BY DEF With
  <1>3. \A S \in SUBSET States : Lists(Kept(ids, {t \in Transfers : ts[t] \in S}), With(ts, S))
    <2> TAKE S \in SUBSET States
    <2>1. PICK Y : Y = {t \in Transfers : ts[t] \in S}
      OBVIOUS
    <2>2. Lists(Kept(ids, Y), With(ts, States) \cap Y)
      BY ListsKept
    <2> QED BY <1>2, <2>1, <2>2
  <1>4. /\ ActiveStates \subseteq States /\ {"uploading"} \subseteq States
        /\ {"finalizing"} \subseteq States /\ {"error"} \subseteq States
    BY DEF States, ActiveStates
  <1>5. /\ ix.active = Kept(ids, {t \in Transfers : ts[t] \in ActiveStates})
        /\ ix.uploading = Kept(ids, {t \in Transfers : ts[t] \in {"uploading"}})
        /\ ix.finalizing = Kept(ids, {t \in Transfers : ts[t] \in {"finalizing"}})
        /\ ix.failed = Kept(ids, {t \in Transfers : ts[t] \in {"error"}})
    BY <1>1 DEF rebuildStatusIndexes
  <1>6. IndexesOf(ix, ts)
    BY <1>3, <1>4, <1>5, Zenon DEF IndexesOf
  <1> QED BY <1>1, <1>6

\* lastFailed names a failed task while there is one.
LEMMA LastFailedStep ==
    ASSUME NEW ts \in TaskMaps, FailedOf(lastFailedId, ts), NEW t \in Transfers, NEW n \in Labels,
           NEW ts2, ts2 = [ts EXCEPT ![t] = n], NEW ix, Lists(ix.failed, With(ts2, {"error"}))
    PROVE  FailedOf(lastFailed(ix, t, ts[t], n), ts2)
  <1>1. \A u \in Transfers : ts2[u] = IF u = t THEN n ELSE ts[u]
    BY DEF TaskMaps
  <1>2. PICK f : f = lastFailed(ix, t, ts[t], n)
    OBVIOUS
  <1>3. CASE ts[t] # "error" /\ n = "error"
    BY <1>1, <1>2, <1>3, Names DEF FailedOf, With, lastFailed
  <1>4. CASE ts[t] = "error" /\ n # "error" /\ lastFailedId = t
    BY <1>2, <1>4, EndsOfList, Names DEF FailedOf, With, lastFailed, LastOr
  <1>5. CASE ts[t] = "error" /\ n # "error" /\ lastFailedId # t
    BY <1>1, <1>2, <1>5, Names DEF FailedOf, With, lastFailed
  <1>6. CASE ts[t] = "error" <=> n = "error"
    BY <1>1, <1>2, <1>6, Names DEF FailedOf, With, lastFailed
  <1> QED BY <1>2, <1>3, <1>4, <1>5, <1>6

\* The summary of the upload store, made of true indexes of the tasks shown next.
LEMMA UploadSummary ==
    ASSUME NEW ts \in TaskMaps, shownTasks' = ts, kind' = kind,
           NEW ix, IndexesOf(ix, ts), NEW failed, FailedOf(failed, ts), currentSummary(ix, failed)
    PROVE  /\ IndexesOf(indexes', ts) /\ FailedOf(lastFailedId', ts)
           /\ SummaryTrue'
  <1>1. /\ indexes' = ix /\ lastFailedId' = failed
        /\ activeCount' = Len(ix.active) /\ failedCount' = Len(ix.failed)
        /\ currentTask' = HeadOr(ix.uploading, HeadOr(ix.finalizing, HeadOr(ix.active, failed)))
    BY DEF currentSummary
  <1>2. PICK A : A = With(ts, ActiveStates)
    OBVIOUS
  <1>3. PICK F : F = With(ts, {"error"})
    OBVIOUS
  <1>4. /\ With(ts, ActiveStates \cup {"error"}) = A \cup F
        /\ With(ts, {"uploading"}) \subseteq A /\ With(ts, {"finalizing"}) \subseteq A
        /\ A \subseteq Transfers /\ F \subseteq Transfers
    BY <1>2, <1>3 DEF With, ActiveStates
  <1>5. Lists(ix.active, A) /\ Lists(ix.failed, F)
    BY <1>2, <1>3 DEF IndexesOf
  <1>6. /\ Len(ix.active) = Cardinality(A) /\ Len(ix.failed) = Cardinality(F)
        /\ IsFiniteSet(A) /\ IsFiniteSet(F)
    BY <1>5, ListsCount
  <1>7. /\ ix.uploading # <<>> => Head(ix.uploading) \in A
        /\ ix.finalizing # <<>> => Head(ix.finalizing) \in A
        /\ ix.active # <<>> => Head(ix.active) \in A
        /\ ix.active = <<>> <=> A = {}
        /\ ix.uploading # <<>> => A # {}
        /\ ix.finalizing # <<>> => A # {}
    <2>1. Lists(ix.uploading, With(ts, {"uploading"})) /\ Lists(ix.finalizing, With(ts, {"finalizing"}))
      BY DEF IndexesOf
    <2> QED BY <1>4, <1>5, <2>1, EndsOfList
  <1>8. failed \in {"none"} \cup F /\ (failed = "none" => F = {})
    BY <1>3 DEF FailedOf
  <1>9. PICK c : c = HeadOr(ix.uploading, HeadOr(ix.finalizing, HeadOr(ix.active, failed)))
    OBVIOUS
  <1>10. /\ A # {} => c \in A
         /\ A = {} => c = failed
    BY <1>7, <1>9 DEF HeadOr
  <1>11. /\ c = "none" \/ c \in A \cup F
         /\ c = "none" <=> A \cup F = {}
    BY <1>4, <1>8, <1>10, Names
  <1>12. PICK B : B = With(ts, ActiveStates \cup {"error"})
    OBVIOUS
  <1>13. B = A \cup F
    BY <1>4, <1>12
  <1>14. SummaryTrue' <=>
           /\ activeCount' = Cardinality(A) /\ failedCount' = Cardinality(F)
           /\ IsFiniteSet(A) /\ IsFiniteSet(F)
           /\ currentTask' = "none" \/ currentTask' \in B
           /\ currentTask' = "none" <=> B = {}
           /\ kind' = "uploads" /\ A # {} => currentTask' \in A
    BY <1>2, <1>3, <1>12, Zenon DEF SummaryTrue
  <1>15. currentTask' = c
    BY <1>1, <1>9
  <1> QED BY <1>1, <1>6, <1>10, <1>11, <1>13, <1>14, <1>15

\* The summary of the download store, made of the order of the tasks shown next.
LEMMA DownloadSummary ==
    ASSUME NEW ts \in TaskMaps, shownTasks' = ts, kind = "downloads", kind' = kind,
           NEW ids, Lists(ids, With(ts, States)), summary(ts, ids)
    PROVE  SummaryTrue'
  <1>1. \A S \in SUBSET States : Lists(Kept(ids, {t \in Transfers : ts[t] \in S}), With(ts, S))
    <2> TAKE S \in SUBSET States
    <2>1. PICK Y : Y = {t \in Transfers : ts[t] \in S}
      OBVIOUS
    <2>2. Lists(Kept(ids, Y), With(ts, States) \cap Y)
      BY ListsKept
    <2>3. With(ts, States) \cap Y = With(ts, S)
      BY <2>1 DEF With
    <2> QED BY <2>1, <2>2, <2>3
  <1>2. PICK A : A = With(ts, ActiveStates)
    OBVIOUS
  <1>3. PICK F : F = With(ts, {"error"})
    OBVIOUS
  <1>4. PICK B : B = With(ts, ActiveStates \cup {"error"})
    OBVIOUS
  <1>5. ActiveStates \subseteq States /\ {"error"} \subseteq States /\ (ActiveStates \cup {"error"}) \subseteq States
    BY DEF States, ActiveStates
  <1>6. PICK a : a = Kept(ids, {t \in Transfers : ts[t] \in ActiveStates})
    OBVIOUS
  <1>7. PICK f : f = Kept(ids, {t \in Transfers : ts[t] \in {"error"}})
    OBVIOUS
  <1>8. PICK b : b = Kept(ids, {t \in Transfers : ts[t] \in ActiveStates \cup {"error"}})
    OBVIOUS
  <1>9. Lists(a, A) /\ Lists(f, F) /\ Lists(b, B)
    BY <1>1, <1>2, <1>3, <1>4, <1>5, <1>6, <1>7, <1>8
  <1>10. /\ Len(a) = Cardinality(A) /\ Len(f) = Cardinality(F)
         /\ IsFiniteSet(A) /\ IsFiniteSet(F)
    BY <1>9, ListsCount
  <1>11. activeCount' = Len(a) /\ failedCount' = Len(f) /\ currentTask' = HeadOr(b, "none")
    BY <1>6, <1>7, <1>8, Zenon DEF summary
  <1>12. B \subseteq Transfers
    BY <1>4 DEF With
  <1>13. /\ currentTask' = "none" \/ currentTask' \in B
         /\ currentTask' = "none" <=> B = {}
    BY <1>9, <1>11, <1>12, EndsOfList, Names DEF HeadOr
  <1>14. SummaryTrue' <=>
           /\ activeCount' = Cardinality(A) /\ failedCount' = Cardinality(F)
           /\ IsFiniteSet(A) /\ IsFiniteSet(F)
           /\ currentTask' = "none" \/ currentTask' \in B
           /\ currentTask' = "none" <=> B = {}
           /\ kind' = "uploads" /\ A # {} => currentTask' \in A
    BY <1>2, <1>3, <1>4, Zenon DEF SummaryTrue
  <1> QED BY <1>10, <1>11, <1>13, <1>14

\* The tasks the engine ever had are finitely many, and so are those shown.
LEMMA ShownAreBorn ==
    ASSUME NEW past, EngineTrue(past), StoreTrue(past)
    PROVE  \A t \in Transfers : shownTasks[t] # "none" => t \in born
  <1> TAKE t \in Transfers
  <1> HAVE shownTasks[t] # "none"
  <1>1. /\ taskRevisions[t] \in Revisions /\ removedRevisions[t] \in Revisions
        /\ baselineRevision \in Revisions /\ baselineRevision <= revision
        /\ taskRevisions[t] <= revision /\ removedRevisions[t] <= revision
    BY DEF StoreTrue
  <1>2. ProjectionKnown(t) \in Revisions /\ ProjectionKnown(t) <= revision
    BY <1>1 DEF ProjectionKnown, Larger, Revisions
  <1>3. ProjectionKnown(t) # -1 /\ shownTasks[t] = past[ProjectionKnown(t)][t]
    BY DEF StoreTrue
  <1>4. ProjectionKnown(t) \in Nat
    BY <1>2, <1>3 DEF Revisions
  <1> QED BY <1>2, <1>3, <1>4 DEF EngineTrue

\* What the store knows is between -1 and the engine's revision.
LEMMA KnownType ==
    ASSUME NEW past, StoreTrue(past), NEW t \in Transfers
    PROVE  /\ ProjectionKnown(t) \in Revisions /\ ProjectionKnown(t) <= revision /\ ProjectionKnown(t) >= baselineRevision
           /\ ProjectionKnown(t) >= taskRevisions[t] /\ ProjectionKnown(t) >= removedRevisions[t]
           /\ ProjectionKnown(t) \in {taskRevisions[t], removedRevisions[t], baselineRevision}
  <1>1. /\ taskRevisions[t] \in Revisions /\ removedRevisions[t] \in Revisions
        /\ baselineRevision \in Revisions /\ baselineRevision <= revision
        /\ taskRevisions[t] <= revision /\ removedRevisions[t] <= revision
    BY DEF StoreTrue
  <1> QED BY <1>1 DEF ProjectionKnown, Larger, Revisions

\* A snapshot not older than the last one, merged with what newer events said.
LEMMA MergedKeeps ==
    ASSUME NEW past, EngineTrue(past), StoreTrue(past), latestRevision \in Revisions,
           NEW e, EventTrue(e, past), e.type = "snapshot", e.revision >= baselineRevision,
           merged(e), revision' = revision
    PROVE  /\ StoreTrue(past)' /\ latestRevision' \in Revisions
           /\ baselineRevision' = e.revision
           /\ \A t \in Transfers : ProjectionKnown(t)' >= ProjectionKnown(t)
  <1>1. PICK n : n = e.revision
    OBVIOUS
  <1>2. PICK tasks : tasks = e.tasks
    OBVIOUS
  <1>3. /\ n \in Nat /\ n <= revision /\ n >= baselineRevision /\ tasks \in TaskMaps /\ tasks = past[n]
        /\ revision \in Nat
    BY <1>1, <1>2 DEF EventTrue, EventRecs, EngineTrue
  <1>4. /\ taskRevisions' = [t \in Transfers |-> IF taskRevisions[t] > n /\ shownTasks[t] # "none"
                                                 THEN taskRevisions[t] ELSE -1]
        /\ removedRevisions' = [t \in Transfers |-> IF removedRevisions[t] > n
                                                    THEN removedRevisions[t] ELSE -1]
        /\ shownTasks' = [t \in Transfers |-> IF removedRevisions'[t] # -1 THEN "none"
                                              ELSE IF taskRevisions'[t] # -1 THEN shownTasks[t]
                                              ELSE tasks[t]]
        /\ baselineRevision' = n
        /\ latestRevision' = Larger(latestRevision, n)
    BY <1>1, <1>2, Zenon DEF merged
  <1>5. latestRevision' \in Revisions
    BY <1>3, <1>4 DEF Larger, Revisions
  <1>6. ASSUME NEW t \in Transfers
        PROVE  /\ taskRevisions'[t] \in Revisions /\ removedRevisions'[t] \in Revisions
               /\ shownTasks'[t] \in Labels
               /\ taskRevisions'[t] <= revision /\ removedRevisions'[t] <= revision
               /\ taskRevisions'[t] # -1 => shownTasks'[t] # "none"
               /\ removedRevisions'[t] # -1 => shownTasks'[t] = "none"
               /\ ProjectionKnown(t)' \in Nat /\ ProjectionKnown(t)' >= ProjectionKnown(t)
               /\ shownTasks'[t] = past[ProjectionKnown(t)'][t]
    <2>1. PICK k \in Revisions : k = taskRevisions[t]
      BY DEF StoreTrue
    <2>2. PICK g \in Revisions : g = removedRevisions[t]
      BY DEF StoreTrue
    <2>3. PICK b \in Revisions : b = baselineRevision
      BY DEF StoreTrue
    <2>4. PICK x \in Labels : x = shownTasks[t]
      BY DEF StoreTrue, TaskMaps
    <2>5. /\ k <= revision /\ g <= revision /\ b <= n
          /\ k # -1 => x # "none"
          /\ g # -1 => x = "none"
      BY <1>3, <2>1, <2>2, <2>3, <2>4 DEF StoreTrue
    <2>6. ProjectionKnown(t) = Larger(Larger(k, g), b)
      BY <2>1, <2>2, <2>3 DEF ProjectionKnown
    <2>7. ProjectionKnown(t) # -1 => x = past[ProjectionKnown(t)][t]
      BY <2>4 DEF StoreTrue
    <2>8. PICK k2 : k2 = taskRevisions'[t]
      OBVIOUS
    <2>9. PICK g2 : g2 = removedRevisions'[t]
      OBVIOUS
    <2>10. PICK x2 : x2 = shownTasks'[t]
      OBVIOUS
    <2>11. k2 = IF k > n /\ x # "none" THEN k ELSE -1
      BY <1>4, <2>1, <2>4, <2>8
    <2>12. g2 = IF g > n THEN g ELSE -1
      BY <1>4, <2>2, <2>9
    <2>13. x2 = IF g2 # -1 THEN "none" ELSE IF k2 # -1 THEN x ELSE tasks[t]
      BY <1>4, <2>4, <2>8, <2>9, <2>10
    <2>14. ProjectionKnown(t)' = Larger(Larger(k2, g2), n)
      BY <1>4, <2>8, <2>9 DEF ProjectionKnown
    <2>15. tasks[t] \in Labels /\ tasks[t] = past[n][t]
      BY <1>3 DEF TaskMaps
    <2>16. PICK m : m = ProjectionKnown(t)
      OBVIOUS
    <2>17. PICK m2 : m2 = ProjectionKnown(t)'
      OBVIOUS
    <2>18. CASE g2 # -1
      <3>1. g > n /\ g2 = g /\ k = -1 /\ k2 = -1
        BY <1>3, <2>5, <2>11, <2>12, <2>18 DEF Revisions
      <3>2. m = g /\ m2 = g /\ x2 = "none" /\ x = "none" /\ g \in Nat
        BY <1>3, <2>5, <2>6, <2>13, <2>14, <2>16, <2>17, <3>1 DEF Larger, Revisions
      <3> QED BY <1>3, <2>5, <2>7, <2>8, <2>9, <2>10, <2>16, <2>17, <3>1, <3>2 DEF Revisions, Labels
    <2>19. CASE g2 = -1 /\ k2 # -1
      <3>1. k > n /\ k2 = k /\ g = -1
        BY <1>3, <2>5, <2>11, <2>19 DEF Revisions
      <3>2. m = k /\ m2 = k /\ x2 = x /\ k \in Nat
        BY <1>3, <2>5, <2>6, <2>13, <2>14, <2>16, <2>17, <2>19, <3>1 DEF Larger, Revisions
      <3>3. x = past[k][t]
        BY <2>7, <2>16, <3>2
      <3> QED BY <1>3, <2>5, <2>8, <2>9, <2>10, <2>16, <2>17, <2>19, <3>1, <3>2, <3>3 DEF Revisions
    <2>20. CASE g2 = -1 /\ k2 = -1
      <3>1. ~(g > n) /\ ~(k > n)
        BY <1>3, <2>5, <2>11, <2>12, <2>20 DEF Revisions
      <3>2. m2 = n /\ m <= n /\ x2 = tasks[t]
        BY <1>3, <2>5, <2>6, <2>13, <2>14, <2>16, <2>17, <2>20, <3>1 DEF Larger, Revisions
      <3>3. m \in Revisions
        BY <2>6, <2>16 DEF Larger
      <3> QED BY <1>3, <2>8, <2>9, <2>10, <2>15, <2>16, <2>17, <2>20, <3>2, <3>3 DEF Revisions
    <2> QED BY <2>18, <2>19, <2>20
  <1>7. /\ shownTasks' \in TaskMaps
        /\ taskRevisions' \in [Transfers -> Revisions] /\ removedRevisions' \in [Transfers -> Revisions]
    <2>1. /\ shownTasks' = [t \in Transfers |-> shownTasks'[t]]
          /\ taskRevisions' = [t \in Transfers |-> taskRevisions'[t]]
          /\ removedRevisions' = [t \in Transfers |-> removedRevisions'[t]]
      BY <1>4, Zenon
    <2> QED BY <1>6, <2>1 DEF TaskMaps
  <1>8. baselineRevision' \in Revisions /\ baselineRevision' <= revision'
    BY <1>3, <1>4 DEF Revisions
  <1>9. \A t \in Transfers :
          /\ taskRevisions'[t] <= revision' /\ removedRevisions'[t] <= revision'
          /\ taskRevisions'[t] # -1 => shownTasks'[t] # "none"
          /\ removedRevisions'[t] # -1 => shownTasks'[t] = "none"
          /\ ProjectionKnown(t)' = -1 => shownTasks'[t] = "none"
          /\ ProjectionKnown(t)' # -1 => shownTasks'[t] = past[ProjectionKnown(t)'][t]
    BY <1>6
  <1>10. StoreTrue(past)'
    BY <1>7, <1>8, <1>9, Zenon DEF StoreTrue
  <1> QED BY <1>1, <1>4, <1>5, <1>6, <1>10

\* The order of a snapshot's tasks and of those that newer events spoke of.
LEMMA MergedOrder ==
    ASSUME NEW past, EngineTrue(past), StoreTrue(past), latestRevision \in Revisions,
           NEW e, EventTrue(e, past), e.type = "snapshot", e.revision >= baselineRevision,
           merged(e), revision' = revision
    PROVE  Lists(order', With(shownTasks', States))
  <1>1. PICK tasks : tasks = e.tasks
    OBVIOUS
  <1>2. /\ tasks \in TaskMaps /\ tasks = past[e.revision] /\ e.revision \in Nat /\ e.revision <= revision
    BY <1>1 DEF EventTrue, EventRecs
  <1>3. PICK listed : listed = {t \in Transfers : tasks[t] # "none"}
    OBVIOUS
  <1>4. PICK newer : newer = {t \in Transfers : taskRevisions'[t] # -1 /\ tasks[t] = "none"}
    OBVIOUS
  <1>5. PICK shown : shown = {t \in Transfers : shownTasks'[t] # "none"}
    OBVIOUS
  <1>6. order' = Kept(SetToSeq(listed) \o SetToSeq(newer), shown)
    BY <1>1, <1>3, <1>4, <1>5, Zenon DEF merged
  <1>7. /\ taskRevisions' = [t \in Transfers |-> IF taskRevisions[t] > e.revision /\ shownTasks[t] # "none"
                                                 THEN taskRevisions[t] ELSE -1]
        /\ shownTasks' = [t \in Transfers |-> IF removedRevisions'[t] # -1 THEN "none"
                                              ELSE IF taskRevisions'[t] # -1 THEN shownTasks[t]
                                              ELSE tasks[t]]
    BY <1>1, Zenon DEF merged
  <1>8. listed \subseteq born /\ newer \subseteq born
    <2>1. listed \subseteq born
      BY <1>2, <1>3 DEF EngineTrue
    <2>2. \A t \in newer : shownTasks[t] # "none"
      BY <1>4, <1>7
    <2> QED BY <1>4, <2>1, <2>2, ShownAreBorn
  <1>9. IsFiniteSet(listed) /\ IsFiniteSet(newer)
    BY <1>8, FS_Subset DEF EngineTrue
  <1>10. Lists(SetToSeq(listed), listed) /\ Lists(SetToSeq(newer), newer) /\ listed \cap newer = {}
    BY <1>3, <1>4, <1>9, ListsSet
  <1>11. Lists(SetToSeq(listed) \o SetToSeq(newer), listed \cup newer)
    BY <1>10, ListsConcat
  <1>12. Lists(order', (listed \cup newer) \cap shown)
    BY <1>6, <1>11, ListsKept
  <1>13. shownTasks' \in TaskMaps
    BY MergedKeeps DEF StoreTrue
  <1>14. (listed \cup newer) \cap shown = With(shownTasks', States)
    <2>1. With(shownTasks', States) = shown
      BY <1>5, <1>13, Names DEF With, TaskMaps, Labels
    <2>2. shown \subseteq listed \cup newer
      BY <1>3, <1>4, <1>5, <1>7
    <2> QED BY <2>1, <2>2
  <1> QED BY <1>12, <1>14

\* A task's event that is news.
LEMMA ProjectedKeeps ==
    ASSUME NEW past, EngineTrue(past), StoreTrue(past), latestRevision \in Revisions,
           Lists(order, With(shownTasks, States)),
           NEW e, EventTrue(e, past), e.type # "snapshot", isNews(e), projected(e), revision' = revision
    PROVE  /\ StoreTrue(past)' /\ latestRevision' \in Revisions
           /\ baselineRevision' = baselineRevision
           /\ \A t \in Transfers : ProjectionKnown(t)' >= ProjectionKnown(t)
           /\ ProjectionKnown(e.task)' >= e.revision
           /\ shownTasks' = [shownTasks EXCEPT ![e.task] = e.state]
           /\ Lists(order', With(shownTasks', States))
  <1>1. PICK n : n = e.revision
    OBVIOUS
  <1>2. PICK u : u = e.task
    OBVIOUS
  <1>3. PICK x : x = e.state
    OBVIOUS
  <1>4. PICK gone \in BOOLEAN : gone <=> e.type = "removed"
    OBVIOUS
  <1>5. /\ n \in Nat /\ n <= revision /\ n >= 1 /\ u \in Transfers /\ x \in Labels /\ revision \in Nat
        /\ past[n] = [past[n - 1] EXCEPT ![u] = x]
        /\ gone <=> x = "none"
    BY <1>1, <1>2, <1>3, <1>4 DEF EventTrue, EventRecs, EngineTrue
  <1>6. n > baselineRevision /\ n > Larger(taskRevisions[u], removedRevisions[u])
    BY <1>1, <1>2 DEF isNews
  <1>7. /\ shownTasks' = [shownTasks EXCEPT ![u] = x]
        /\ order' = IF gone THEN Kept(order, Transfers \ {u})
                    ELSE IF shownTasks[u] # "none" THEN order ELSE Append(order, u)
        /\ taskRevisions' = [taskRevisions EXCEPT ![u] = IF gone THEN -1 ELSE n]
        /\ removedRevisions' = [removedRevisions EXCEPT ![u] = IF gone THEN n ELSE -1]
        /\ latestRevision' = Larger(latestRevision, n)
        /\ baselineRevision' = baselineRevision
    BY <1>1, <1>2, <1>3, <1>4, Zenon DEF projected
  <1>8. latestRevision' \in Revisions
    BY <1>5, <1>7 DEF Larger, Revisions
  <1>9. /\ shownTasks \in TaskMaps /\ taskRevisions \in [Transfers -> Revisions]
        /\ removedRevisions \in [Transfers -> Revisions] /\ baselineRevision \in Revisions
    BY DEF StoreTrue
  <1>10. /\ shownTasks' \in TaskMaps /\ taskRevisions' \in [Transfers -> Revisions]
         /\ removedRevisions' \in [Transfers -> Revisions]
    BY <1>5, <1>7, <1>9 DEF TaskMaps, Revisions
  <1>11. past[n][u] = x
    BY <1>5 DEF EngineTrue, TaskMaps
  <1>12. /\ shownTasks'[u] = x
         /\ taskRevisions'[u] = (IF gone THEN -1 ELSE n) /\ removedRevisions'[u] = (IF gone THEN n ELSE -1)
    BY <1>5, <1>7, <1>9 DEF TaskMaps
  <1>13. /\ ProjectionKnown(u)' = n /\ ProjectionKnown(u)' >= ProjectionKnown(u)
    <2>1. ProjectionKnown(u)' = Larger(Larger(taskRevisions'[u], removedRevisions'[u]), baselineRevision)
      BY <1>7 DEF ProjectionKnown
    <2>2. taskRevisions[u] \in Revisions /\ removedRevisions[u] \in Revisions
      BY <1>5, <1>9
    <2>3. ProjectionKnown(u)' = n
      BY <1>4, <1>5, <1>6, <1>9, <1>12, <2>1 DEF Larger, Revisions
    <2> QED BY <1>5, <1>6, <1>9, <2>2, <2>3 DEF ProjectionKnown, Larger, Revisions
  <1>14. ASSUME NEW t \in Transfers, t # u
         PROVE  /\ shownTasks'[t] = shownTasks[t] /\ taskRevisions'[t] = taskRevisions[t]
                /\ removedRevisions'[t] = removedRevisions[t] /\ ProjectionKnown(t)' = ProjectionKnown(t)
    <2>1. /\ shownTasks'[t] = shownTasks[t] /\ taskRevisions'[t] = taskRevisions[t]
          /\ removedRevisions'[t] = removedRevisions[t]
      BY <1>7, <1>9, <1>14 DEF TaskMaps
    <2> QED BY <1>7, <2>1 DEF ProjectionKnown
  <1>15. \A t \in Transfers :
           /\ taskRevisions'[t] <= revision' /\ removedRevisions'[t] <= revision'
           /\ taskRevisions'[t] # -1 => shownTasks'[t] # "none"
           /\ removedRevisions'[t] # -1 => shownTasks'[t] = "none"
           /\ ProjectionKnown(t)' = -1 => shownTasks'[t] = "none"
           /\ ProjectionKnown(t)' # -1 => shownTasks'[t] = past[ProjectionKnown(t)'][t]
    <2> TAKE t \in Transfers
    <2>1. CASE t = u
      <3>1. taskRevisions'[u] \in {-1, n} /\ removedRevisions'[u] \in {-1, n} /\ ProjectionKnown(u)' # -1
        BY <1>5, <1>12, <1>13
      <3>2. /\ taskRevisions'[u] # -1 => shownTasks'[u] # "none"
            /\ removedRevisions'[u] # -1 => shownTasks'[u] = "none"
        <4>1. CASE gone
          BY <1>5, <1>12, <4>1
        <4>2. CASE ~gone
          BY <1>5, <1>12, <4>2
        <4> QED BY <4>1, <4>2
      <3>3. taskRevisions'[u] <= revision' /\ removedRevisions'[u] <= revision'
        BY <1>5, <3>1
      <3>4. shownTasks'[u] = past[ProjectionKnown(u)'][u]
        BY <1>11, <1>12, <1>13
      <3> QED BY <2>1, <3>1, <3>2, <3>3, <3>4
    <2>2. CASE t # u
      <3>1. /\ taskRevisions[t] <= revision /\ removedRevisions[t] <= revision
            /\ taskRevisions[t] # -1 => shownTasks[t] # "none"
            /\ removedRevisions[t] # -1 => shownTasks[t] = "none"
            /\ ProjectionKnown(t) = -1 => shownTasks[t] = "none"
            /\ ProjectionKnown(t) # -1 => shownTasks[t] = past[ProjectionKnown(t)][t]
        BY DEF StoreTrue
      <3> QED BY <1>14, <2>2, <3>1
    <2> QED BY <2>1, <2>2
  <1>16. baselineRevision' \in Revisions /\ baselineRevision' <= revision'
    BY <1>7 DEF StoreTrue
  <1>17. StoreTrue(past)'
    BY <1>10, <1>15, <1>16, Zenon DEF StoreTrue
  <1>18. \A t \in Transfers : ProjectionKnown(t)' >= ProjectionKnown(t)
    <2> TAKE t \in Transfers
    <2>1. ProjectionKnown(t) \in Revisions
      BY KnownType
    <2>2. CASE t # u
      BY <1>14, <2>1, <2>2 DEF Revisions
    <2> QED BY <1>13, <2>2
  <1>19. Lists(order', With(shownTasks', States))
    <2>1. shownTasks[u] \in Labels /\ (x \in States <=> ~gone)
      BY <1>5, <1>9, Names DEF TaskMaps, Labels
    <2>2. shownTasks[u] \in States <=> shownTasks[u] # "none"
      BY <2>1, Names DEF Labels
    <2>3. PICK ts2 : ts2 = [shownTasks EXCEPT ![u] = x]
      OBVIOUS
    <2>4. /\ shownTasks[u] \notin States /\ x \in States => Lists(Append(order, u), With(ts2, States))
          /\ shownTasks[u] \in States /\ x \notin States => Lists(Kept(order, Transfers \ {u}), With(ts2, States))
          /\ shownTasks[u] \in States /\ x \in States => Lists(order, With(ts2, States))
          /\ shownTasks[u] \notin States /\ x \notin States => Lists(order, With(ts2, States))
      BY <1>5, <1>9, <2>3, StatusList
    <2>5. CASE gone /\ shownTasks[u] \notin States
      <3>1. Lists(Kept(order, Transfers \ {u}), With(shownTasks, States) \cap (Transfers \ {u}))
        BY ListsKept
      <3>2. With(shownTasks, States) \cap (Transfers \ {u}) = With(ts2, States)
        BY <1>5, <1>9, <2>1, <2>3, <2>5 DEF With, TaskMaps
      <3> QED BY <1>7, <2>3, <2>5, <3>1, <3>2
    <2>6. CASE gone /\ shownTasks[u] \in States
      BY <1>7, <2>1, <2>3, <2>4, <2>6
    <2>7. CASE ~gone
      BY <1>7, <2>1, <2>2, <2>3, <2>4, <2>7
    <2> QED BY <2>5, <2>6, <2>7
  <1> QED BY <1>1, <1>2, <1>3, <1>5, <1>7, <1>8, <1>13, <1>17, <1>18, <1>19

-----------------------------------------------------------------------------
\* What a provider makes of an event keeps the store true, and nothing it knew is
\* forgotten; the change of the event is known.
LEMMA FoldKeeps ==
    ASSUME NEW past, EngineTrue(past), StoreTrue(past), OrderTrue, latestRevision \in Revisions,
           NEW e, EventTrue(e, past), fold(e), revision' = revision, kind' = kind
    PROVE  /\ StoreTrue(past)' /\ OrderTrue' /\ latestRevision' \in Revisions
           /\ baselineRevision' >= baselineRevision
           /\ \A t \in Transfers : ProjectionKnown(t)' >= ProjectionKnown(t)
           /\ e.type = "snapshot" => baselineRevision' >= e.revision
           /\ e.type # "snapshot" => ProjectionKnown(e.task)' >= e.revision
  <1>1. /\ baselineRevision \in Revisions /\ e.revision \in Nat
        /\ \A t \in Transfers : ProjectionKnown(t) \in Revisions /\ ProjectionKnown(t) >= baselineRevision
    BY KnownType DEF StoreTrue, EventTrue, EventRecs
  <1>2. CASE UNCHANGED storeVars
    <2>1. StoreTrue(past)' /\ OrderTrue' /\ latestRevision' \in Revisions
      BY <1>2 DEF storeVars, StoreTrue, OrderTrue, SummaryTrue, ProjectionKnown
    <2>2. baselineRevision' = baselineRevision /\ \A t \in Transfers : ProjectionKnown(t)' = ProjectionKnown(t)
      BY <1>2 DEF storeVars, ProjectionKnown
    <2>3. ASSUME e.type = "snapshot" PROVE baselineRevision' >= e.revision
      <3>1. CASE e.revision < baselineRevision
        BY <1>1, <2>2, <3>1 DEF Revisions
      <3>2. CASE ~(e.revision < baselineRevision)
        <4>1. merged(e)
          BY <2>3, <3>2 DEF fold, replaceUploadSnapshot, replaceDownloadSnapshot
        <4> QED BY <1>1, <4>1 DEF merged, Revisions
      <3> QED BY <3>1, <3>2
    <2>4. ASSUME e.type # "snapshot" PROVE ProjectionKnown(e.task)' >= e.revision
      <3>1. e.task \in Transfers
        BY <2>4 DEF EventTrue
      <3>2. CASE isNews(e)
        <4>1. projected(e)
          BY <2>4, <3>2 DEF fold, applyUploadEvent, applyDownloadEvent
        <4> QED BY <2>4, <3>2, <4>1, ProjectedKeeps DEF OrderTrue
      <3>3. CASE ~isNews(e)
        <4>1. /\ taskRevisions[e.task] \in Revisions /\ removedRevisions[e.task] \in Revisions
          BY <3>1 DEF StoreTrue
        <4>2. ProjectionKnown(e.task) >= e.revision
          BY <1>1, <3>1, <3>3, <4>1 DEF isNews, ProjectionKnown, Larger, Revisions
        <4> QED BY <2>2, <3>1, <4>2
      <3> QED BY <3>2, <3>3
    <2> QED BY <1>1, <2>1, <2>2, <2>3, <2>4 DEF Revisions
  <1>3. CASE e.type = "snapshot" /\ ~(e.revision < baselineRevision)
    <2>1. e.revision >= baselineRevision /\ baselineRevision' = e.revision /\ merged(e)
      <3>1. merged(e)
        BY <1>3 DEF fold, replaceUploadSnapshot, replaceDownloadSnapshot
      <3> QED BY <1>1, <1>3, <3>1 DEF merged, Revisions
    <2>2. /\ StoreTrue(past)' /\ latestRevision' \in Revisions
          /\ \A t \in Transfers : ProjectionKnown(t)' >= ProjectionKnown(t)
      BY <1>3, <2>1, MergedKeeps
    <2>3. Lists(order', With(shownTasks', States))
      BY <1>3, <2>1, MergedOrder
    <2>4. PICK ts \in TaskMaps : ts = shownTasks'
      BY <2>2 DEF StoreTrue
    <2>5. PICK ids : ids = order'
      OBVIOUS
    <2>6. Lists(ids, With(ts, States))
      BY <2>3, <2>4, <2>5
    <2>7. ASSUME kind = "uploads" PROVE OrderTrue'
      <3>1. PICK ix : ix = rebuildStatusIndexes(ts, ids)
        OBVIOUS
      <3>2. PICK failed : failed = LastOr(ix.failed, "none")
        OBVIOUS
      <3>3. currentSummary(ix, failed)
        BY <1>3, <2>4, <2>5, <2>7, <3>1, <3>2 DEF fold, replaceUploadSnapshot
      <3>4. IndexesOf(ix, ts)
        BY <2>6, <3>1, IndexesRebuilt
      <3>5. FailedOf(failed, ts)
        <4>1. Lists(ix.failed, With(ts, {"error"}))
          BY <3>4 DEF IndexesOf
        <4>2. With(ts, {"error"}) \subseteq Transfers
          BY DEF With
        <4> QED BY <3>2, <4>1, <4>2, EndsOfList, Names DEF FailedOf, LastOr
      <3>6. IndexesOf(indexes', ts) /\ FailedOf(lastFailedId', ts) /\ SummaryTrue'
        BY <2>4, <3>3, <3>4, <3>5, UploadSummary
      <3> QED BY <2>3, <2>4, <3>6, Zenon DEF OrderTrue
    <2>8. ASSUME kind # "uploads" PROVE OrderTrue'
      <3>1. summary(ts, ids) /\ kind = "downloads"
        BY <1>3, <2>4, <2>5, <2>8 DEF fold, replaceDownloadSnapshot, EngineTrue
      <3>2. SummaryTrue'
        BY <2>4, <2>6, <3>1, DownloadSummary
      <3> QED BY <2>3, <2>8, <3>2, Zenon DEF OrderTrue
    <2> QED BY <1>1, <1>3, <2>1, <2>2, <2>7, <2>8
  <1>4. CASE e.type # "snapshot" /\ isNews(e)
    <2>1. projected(e)
      BY <1>4 DEF fold, applyUploadEvent, applyDownloadEvent
    <2>2. /\ StoreTrue(past)' /\ latestRevision' \in Revisions
          /\ baselineRevision' = baselineRevision
          /\ \A t \in Transfers : ProjectionKnown(t)' >= ProjectionKnown(t)
          /\ ProjectionKnown(e.task)' >= e.revision
          /\ shownTasks' = [shownTasks EXCEPT ![e.task] = e.state]
          /\ Lists(order', With(shownTasks', States))
      BY <1>4, <2>1, ProjectedKeeps DEF OrderTrue
    <2>3. PICK ts \in TaskMaps : ts = shownTasks
      BY DEF StoreTrue
    <2>4. PICK ts2 \in TaskMaps : ts2 = shownTasks'
      BY <2>2 DEF StoreTrue
    <2>5. PICK t \in Transfers : t = e.task
      BY <1>4 DEF EventTrue
    <2>6. PICK n \in Labels : n = e.state
      BY DEF EventTrue, EventRecs
    <2>7. ts2 = [ts EXCEPT ![t] = n]
      BY <2>2, <2>3, <2>4, <2>5, <2>6
    <2>8. ASSUME kind = "uploads" PROVE OrderTrue'
      <3>1. IndexesOf(indexes, ts) /\ FailedOf(lastFailedId, ts)
        BY <2>3, <2>8 DEF OrderTrue
      <3>2. PICK ix : ix = updateStatusIndexes(indexes, t, ts[t], n)
        OBVIOUS
      <3>3. IndexesOf(ix, ts2)
        BY <2>7, <3>1, <3>2, IndexesStep
      <3>4. PICK failed : failed = lastFailed(ix, t, ts[t], n)
        OBVIOUS
      <3>5. FailedOf(failed, ts2)
        BY <2>7, <3>1, <3>3, <3>4, LastFailedStep DEF IndexesOf
      <3>6. currentSummary(ix, failed)
        BY <1>4, <2>3, <2>5, <2>6, <2>8, <3>2, <3>4 DEF fold, applyUploadEvent
      <3>7. IndexesOf(indexes', ts2) /\ FailedOf(lastFailedId', ts2) /\ SummaryTrue'
        BY <2>4, <3>3, <3>5, <3>6, UploadSummary
      <3> QED BY <2>2, <2>4, <3>7, Zenon DEF OrderTrue
    <2>9. ASSUME kind # "uploads" PROVE OrderTrue'
      <3>1. summary(shownTasks', order') /\ kind = "downloads"
        BY <1>4, <2>9 DEF fold, applyDownloadEvent, EngineTrue
      <3>2. PICK ids : ids = order'
        OBVIOUS
      <3>3. summary(ts2, ids) /\ Lists(ids, With(ts2, States))
        BY <2>2, <2>4, <3>1, <3>2
      <3>4. SummaryTrue'
        BY <2>4, <3>1, <3>3, DownloadSummary
      <3> QED BY <2>2, <2>9, <3>4, Zenon DEF OrderTrue
    <2> QED BY <1>1, <1>4, <2>2, <2>8, <2>9 DEF Revisions
  <1> QED BY <1>2, <1>3, <1>4 DEF fold

\* A store that is emptied is true, whatever happened.
LEMMA EmptiedIsTrue ==
    ASSUME NEW past, EngineTrue(past), emptied, revision' = revision
    PROVE  StoreTrue(past)' /\ OrderTrue' /\ latestRevision' \in Revisions
  <1>1. /\ shownTasks' = NoTasks /\ order' = <<>> /\ baselineRevision' = -1 /\ latestRevision' = -1
        /\ taskRevisions' = NoRevisions /\ removedRevisions' = NoRevisions
        /\ indexes' = NoIndexes /\ lastFailedId' = "none"
        /\ activeCount' = 0 /\ failedCount' = 0 /\ currentTask' = "none"
    BY DEF emptied
  <1>2. \A t \in Transfers : shownTasks'[t] = "none" /\ taskRevisions'[t] = -1 /\ removedRevisions'[t] = -1
    BY <1>1 DEF NoTasks, NoRevisions
  <1>3. \A t \in Transfers : ProjectionKnown(t)' = -1
    BY <1>1, <1>2 DEF ProjectionKnown, Larger
  <1>4. revision' \in Nat
    BY DEF EngineTrue
  <1>5. StoreTrue(past)'
    <2>1. /\ shownTasks' \in TaskMaps
          /\ taskRevisions' \in [Transfers -> Revisions] /\ removedRevisions' \in [Transfers -> Revisions]
      BY <1>1 DEF NoTasks, NoRevisions, TaskMaps, Labels, Revisions
    <2>2. baselineRevision' \in Revisions /\ baselineRevision' <= revision'
      BY <1>1, <1>4 DEF Revisions
    <2> QED BY <1>2, <1>3, <1>4, <2>1, <2>2 DEF StoreTrue
  <1>6. /\ With(shownTasks', States) = {} /\ With(shownTasks', ActiveStates) = {}
        /\ With(shownTasks', {"error"}) = {} /\ With(shownTasks', {"uploading"}) = {}
        /\ With(shownTasks', {"finalizing"}) = {} /\ With(shownTasks', ActiveStates \cup {"error"}) = {}
    BY <1>2 DEF With, States, ActiveStates
  <1>7. SummaryTrue'
    BY <1>1, <1>6, FS_EmptySet, Zenon DEF SummaryTrue
  <1>8. IndexesOf(indexes', shownTasks')
    BY <1>1, <1>6, ListsNothing DEF IndexesOf, NoIndexes
  <1>9. FailedOf(lastFailedId', shownTasks')
    BY <1>1, <1>6 DEF FailedOf
  <1>10. OrderTrue'
    BY <1>1, <1>6, <1>7, <1>8, <1>9, ListsNothing DEF OrderTrue
  <1> QED BY <1>1, <1>5, <1>10 DEF Revisions

-----------------------------------------------------------------------------
\* A change of the engine is a new revision: what was true stays true, and the
\* change is on its way.
LEMMA EngineChanges ==
    ASSUME NEW past, InvOf(past), NEW e \in EventRecs, NEW tasks \in TaskMaps, NEW ids \in SUBSET Transfers,
           revision' = revision + 1, events' = events \cup {[e EXCEPT !.revision = revision + 1]},
           native' = tasks, born' = ids, IsFiniteSet(ids), born \subseteq ids,
           \A t \in Transfers : tasks[t] # "none" => t \in ids,
           e.type = "snapshot" => e.task = "none" /\ e.tasks = tasks,
           e.type # "snapshot" => /\ e.task \in Transfers /\ tasks = [native EXCEPT ![e.task] = e.state]
                                  /\ e.type = "removed" <=> e.state = "none",
           UNCHANGED <<kind, sub, storeVars, wiped>>
    PROVE  ProjectionInv'
  <1>1. PICK n : n = revision + 1
    OBVIOUS
  <1>2. PICK p2 : p2 = [past EXCEPT ![n] = tasks]
    OBVIOUS
  <1>3. /\ EngineTrue(past) /\ EventsTrue(past) /\ StoreTrue(past) /\ OrderTrue /\ SubsTrue /\ Claims(past)
        /\ wiped \in BOOLEAN /\ latestRevision \in Revisions
    BY DEF InvOf
  <1>4. revision \in Nat /\ n \in Nat /\ past \in [Nat -> TaskMaps] /\ past[revision] = native
    BY <1>1, <1>3 DEF EngineTrue
  <1>5. /\ p2 \in [Nat -> TaskMaps] /\ p2[n] = tasks
        /\ \A r \in Nat : r <= revision => p2[r] = past[r]
    BY <1>1, <1>2, <1>4
  <1>6. EngineTrue(p2)'
    <2>1. \A r \in Nat : r <= n => r <= revision \/ r = n
      BY <1>1, <1>4
    <2>2. ASSUME NEW r \in Nat, NEW t \in Transfers, r <= n, p2[r][t] # "none" PROVE t \in ids
      BY <1>3, <1>5, <2>1, <2>2 DEF EngineTrue
    <2>3. kind' \in {"uploads", "downloads"}
      BY <1>3 DEF EngineTrue
    <2> QED BY <1>1, <1>4, <1>5, <2>2, <2>3 DEF EngineTrue
  <1>7. PICK f : f = [e EXCEPT !.revision = n]
    OBVIOUS
  <1>8. /\ f \in EventRecs /\ f.revision = n /\ f.type = e.type /\ f.task = e.task
        /\ f.state = e.state /\ f.tasks = e.tasks
    BY <1>4, <1>7 DEF EventRecs
  <1>9. EventTrue(f, p2)'
    <2>1. n - 1 = revision /\ n >= 1 /\ p2[n - 1] = native
      BY <1>1, <1>4, <1>5
    <2>2. f.revision <= revision'
      BY <1>1, <1>4, <1>8
    <2>3. f.type = "snapshot" => f.task \in {"none", "answer"} /\ f.tasks = p2[f.revision]
      BY <1>5, <1>8
    <2>4. ASSUME f.type # "snapshot"
          PROVE  /\ f.task \in Transfers /\ f.revision >= 1
                 /\ p2[f.revision] = [p2[f.revision - 1] EXCEPT ![f.task] = f.state]
                 /\ f.type = "removed" <=> f.state = "none"
      BY <1>5, <1>8, <2>1, <2>4
    <2> QED BY <1>8, <2>2, <2>3, <2>4, Zenon DEF EventTrue
  <1>10. \A g \in events : EventTrue(g, p2)'
    <2> TAKE g \in events
    <2>1. EventTrue(g, past)
      BY <1>3 DEF EventsTrue
    <2>2. g \in EventRecs /\ g.revision \in Nat /\ g.revision <= revision /\ g.revision <= revision'
      BY <1>4, <2>1 DEF EventTrue, EventRecs
    <2>3. p2[g.revision] = past[g.revision]
      BY <1>5, <2>2
    <2>4. ASSUME g.type # "snapshot"
          PROVE  /\ g.task \in Transfers /\ g.revision >= 1
                 /\ p2[g.revision] = [p2[g.revision - 1] EXCEPT ![g.task] = g.state]
                 /\ g.type = "removed" <=> g.state = "none"
      <3>1. /\ g.task \in Transfers /\ g.revision >= 1
            /\ past[g.revision] = [past[g.revision - 1] EXCEPT ![g.task] = g.state]
            /\ g.type = "removed" <=> g.state = "none"
        BY <2>1, <2>4 DEF EventTrue
      <3>2. g.revision - 1 \in Nat /\ g.revision - 1 <= revision
        BY <1>4, <2>2, <3>1
      <3>3. p2[g.revision - 1] = past[g.revision - 1]
        BY <1>5, <3>2
      <3> QED BY <2>3, <3>1, <3>3
    <2>5. g.type = "snapshot" => g.task \in {"none", "answer"} /\ g.tasks = p2[g.revision]
      BY <2>1, <2>3 DEF EventTrue
    <2> QED BY <2>2, <2>4, <2>5, Zenon DEF EventTrue
  <1>11. EventsTrue(p2)'
    BY <1>1, <1>7, <1>9, <1>10 DEF EventsTrue
  <1>12. /\ shownTasks' = shownTasks /\ taskRevisions' = taskRevisions /\ removedRevisions' = removedRevisions
         /\ baselineRevision' = baselineRevision /\ latestRevision' = latestRevision
         /\ \A t \in Transfers : ProjectionKnown(t)' = ProjectionKnown(t)
    BY DEF storeVars, ProjectionKnown
  <1>13. StoreTrue(p2)'
    <2>1. /\ shownTasks' \in TaskMaps
          /\ taskRevisions' \in [Transfers -> Revisions] /\ removedRevisions' \in [Transfers -> Revisions]
          /\ baselineRevision' \in Revisions /\ baselineRevision <= revision
      BY <1>3, <1>12 DEF StoreTrue
    <2>2. baselineRevision' <= revision'
      BY <1>4, <1>12, <2>1 DEF Revisions
    <2>3. \A t \in Transfers :
           /\ taskRevisions'[t] <= revision' /\ removedRevisions'[t] <= revision'
           /\ taskRevisions'[t] # -1 => shownTasks'[t] # "none"
           /\ removedRevisions'[t] # -1 => shownTasks'[t] = "none"
           /\ ProjectionKnown(t)' = -1 => shownTasks'[t] = "none"
           /\ ProjectionKnown(t)' # -1 => shownTasks'[t] = p2[ProjectionKnown(t)'][t]
      <3> TAKE t \in Transfers
      <3>1. /\ taskRevisions[t] <= revision /\ removedRevisions[t] <= revision
            /\ taskRevisions[t] # -1 => shownTasks[t] # "none"
            /\ removedRevisions[t] # -1 => shownTasks[t] = "none"
            /\ ProjectionKnown(t) = -1 => shownTasks[t] = "none"
            /\ ProjectionKnown(t) # -1 => shownTasks[t] = past[ProjectionKnown(t)][t]
            /\ taskRevisions[t] \in Revisions /\ removedRevisions[t] \in Revisions
        BY <1>3 DEF StoreTrue
      <3>2. ProjectionKnown(t) \in Revisions /\ ProjectionKnown(t) <= revision
        BY <1>3, KnownType
      <3>3. ProjectionKnown(t) # -1 => p2[ProjectionKnown(t)] = past[ProjectionKnown(t)]
        BY <1>5, <3>2 DEF Revisions
      <3>4. taskRevisions[t] <= revision' /\ removedRevisions[t] <= revision'
        BY <1>4, <3>1 DEF Revisions
      <3> QED BY <1>12, <3>1, <3>3, <3>4
    <2> QED BY <2>1, <2>2, <2>3, Zenon DEF StoreTrue
  <1>14. OrderTrue'
    BY <1>3 DEF OrderTrue, SummaryTrue, storeVars
  <1>15. SubsTrue'
    BY <1>3 DEF SubsTrue
  <1>16. Claims(p2)'
    <2> SUFFICES ASSUME NEW s \in Subscriptions, sub'[s].mounted, sub'[s].phase \in {"answered", "live"}, ~wiped'
                 PROVE  ClaimTrue(s, p2)'
      BY DEF Claims
    <2>1. PICK a \in Nat :
            /\ a <= revision /\ \A r \in Nat : r > a /\ r <= revision => Heeded(r, past)
            /\ \/ \E g \in events : g.task = "answer" /\ g.revision = a
               \/ sub[s].phase = "live" /\ baselineRevision >= a
      BY <1>3 DEF Claims, ClaimTrue
    <2>2. ASSUME NEW r \in Nat, r > a, r <= revision' PROVE Heeded(r, p2)'
      <3>1. CASE r = n
        <4>1. f \in events' /\ f.revision = r /\ f.task # "answer"
          BY <1>1, <1>7, <1>8, <3>1, Names
        <4> QED BY <4>1 DEF Heeded
      <3>2. CASE r # n
        <4>1. r <= revision /\ r - 1 \in Nat /\ r - 1 <= revision
          BY <1>1, <1>4, <2>1, <2>2, <3>2
        <4>2. p2[r] = past[r] /\ p2[r - 1] = past[r - 1]
          BY <1>5, <4>1
        <4>3. Heeded(r, past)
          BY <2>1, <2>2, <4>1
        <4>4. CASE \E g \in events : g.revision = r /\ g.task # "answer"
          BY <4>4 DEF Heeded
        <4>5. CASE \A t \in Transfers : past[r][t] # past[r - 1][t] => ProjectionKnown(t) >= r
          BY <1>12, <4>2, <4>5 DEF Heeded
        <4> QED BY <4>3, <4>4, <4>5 DEF Heeded
      <3> QED BY <3>1, <3>2
    <2>3. a <= revision'
      BY <1>4, <2>1
    <2>4. \/ \E g \in events' : g.task = "answer" /\ g.revision = a
          \/ sub'[s].phase = "live" /\ baselineRevision' >= a
      BY <1>12, <2>1
    <2> QED BY <2>2, <2>3, <2>4, Zenon DEF ClaimTrue
  <1>17. InvOf(p2)'
    BY <1>3, <1>6, <1>11, <1>12, <1>13, <1>14, <1>15, <1>16 DEF InvOf
  <1> QED BY <1>17 DEF ProjectionInv

\* Every action of the engine is such a change.
LEMMA NativeKeeps ==
    ASSUME ProjectionInv, UNCHANGED <<kind, sub, storeVars, wiped>>,
           \/ \E t \in Transfers : nativeAdds(t) \/ nativeChanges(t) \/ nativeRemoves(t)
           \/ nativeResets
    PROVE  ProjectionInv'
  <1>1. PICK past : InvOf(past)
    BY DEF ProjectionInv
  <1>2. /\ native \in TaskMaps /\ born \in SUBSET Transfers /\ IsFiniteSet(born)
        /\ \A t \in Transfers : native[t] # "none" => t \in born
    BY <1>1 DEF InvOf, EngineTrue
  <1>3. NoTasks \in TaskMaps
    BY DEF NoTasks, TaskMaps, Labels
  <1>4. ASSUME NEW e \in EventRecs, NEW tasks \in TaskMaps, NEW ids \in SUBSET Transfers,
               emit(e), native' = tasks, born' = ids, IsFiniteSet(ids), born \subseteq ids,
               \A t \in Transfers : tasks[t] # "none" => t \in ids,
               e.type = "snapshot" => e.task = "none" /\ e.tasks = tasks,
               e.type # "snapshot" => /\ e.task \in Transfers /\ tasks = [native EXCEPT ![e.task] = e.state]
                                      /\ e.type = "removed" <=> e.state = "none"
        PROVE  ProjectionInv'
    <2>1. revision' = revision + 1 /\ events' = events \cup {[e EXCEPT !.revision = revision + 1]}
      BY <1>4 DEF emit
    <2> QED BY <1>1, <1>4, <2>1, EngineChanges
  <1>5. ASSUME NEW t \in Transfers, nativeAdds(t) PROVE ProjectionInv'
    <2>1. PICK tasks : tasks = [native EXCEPT ![t] = "queued"]
      OBVIOUS
    <2>2. tasks \in TaskMaps /\ \A u \in Transfers : tasks[u] # "none" => u \in born \cup {t}
      BY <1>2, <2>1 DEF TaskMaps, Labels, States, ActiveStates
    <2>3. IsFiniteSet(born \cup {t}) /\ born \cup {t} \in SUBSET Transfers
      BY <1>2, FS_AddElement
    <2>4. /\ native' = tasks /\ born' = born \cup {t}
          /\ emit(IF kind = "uploads" THEN Event("snapshot", "none", "none", native')
                  ELSE Event("task", t, "queued", NoTasks))
      BY <1>5, <2>1 DEF nativeAdds
    <2>5. CASE kind = "uploads"
      <3>1. PICK e : e = Event("snapshot", "none", "none", tasks)
        OBVIOUS
      <3>2. e \in EventRecs /\ e.type = "snapshot" /\ e.task = "none" /\ e.tasks = tasks
        BY <2>2, <3>1 DEF Event, EventRecs, Types, Labels
      <3>3. emit(e)
        BY <2>4, <2>5, <3>1
      <3> QED BY <1>4, <2>2, <2>3, <2>4, <3>2, <3>3
    <2>6. CASE kind # "uploads"
      <3>1. PICK e : e = Event("task", t, "queued", NoTasks)
        OBVIOUS
      <3>2. e \in EventRecs /\ e.type = "task" /\ e.task = t /\ e.state = "queued"
        BY <1>3, <3>1 DEF Event, EventRecs, Types, Labels, States, ActiveStates
      <3>3. emit(e)
        BY <2>4, <2>6, <3>1
      <3> QED BY <1>4, <2>1, <2>2, <2>3, <2>4, <3>2, <3>3
    <2> QED BY <2>5, <2>6
  <1>6. ASSUME NEW t \in Transfers, nativeChanges(t) PROVE ProjectionInv'
    <2>1. PICK s \in States \ {native[t]} :
            native' = [native EXCEPT ![t] = s] /\ emit(Event("task", t, s, NoTasks))
      BY <1>6 DEF nativeChanges
    <2>2. PICK tasks : tasks = [native EXCEPT ![t] = s]
      OBVIOUS
    <2>3. native[t] # "none" /\ born' = born
      BY <1>6, Names DEF nativeChanges
    <2>4. tasks \in TaskMaps /\ \A u \in Transfers : tasks[u] # "none" => u \in born
      BY <1>2, <2>2, <2>3 DEF TaskMaps, Labels
    <2>5. PICK e : e = Event("task", t, s, NoTasks)
      OBVIOUS
    <2>6. e \in EventRecs /\ e.type = "task" /\ e.task = t /\ e.state = s /\ s # "none"
      BY <1>3, <2>5, Names DEF Event, EventRecs, Types, Labels
    <2> QED BY <1>2, <1>4, <2>1, <2>2, <2>3, <2>4, <2>5, <2>6
  <1>7. ASSUME NEW t \in Transfers, nativeRemoves(t) PROVE ProjectionInv'
    <2>1. PICK tasks : tasks = [native EXCEPT ![t] = "none"]
      OBVIOUS
    <2>2. native' = tasks /\ born' = born /\ emit(Event("removed", t, "none", NoTasks))
      BY <1>7, <2>1 DEF nativeRemoves
    <2>3. tasks \in TaskMaps /\ \A u \in Transfers : tasks[u] # "none" => u \in born
      BY <1>2, <2>1 DEF TaskMaps, Labels
    <2>4. PICK e : e = Event("removed", t, "none", NoTasks)
      OBVIOUS
    <2>5. e \in EventRecs /\ e.type = "removed" /\ e.task = t /\ e.state = "none"
      BY <1>3, <2>4 DEF Event, EventRecs, Types, Labels
    <2> QED BY <1>2, <1>4, <2>1, <2>2, <2>3, <2>4, <2>5
  <1>8. ASSUME nativeResets PROVE ProjectionInv'
    <2>1. PICK e : e = Event("snapshot", "none", "none", NoTasks)
      OBVIOUS
    <2>2. e \in EventRecs /\ e.type = "snapshot" /\ e.task = "none" /\ e.tasks = NoTasks
      BY <1>3, <2>1 DEF Event, EventRecs, Types, Labels
    <2>3. native' = NoTasks /\ born' = born /\ emit(e)
      BY <1>8, <2>1 DEF nativeResets
    <2>4. \A t \in Transfers : NoTasks[t] # "none" => t \in born
      BY DEF NoTasks
    <2> QED BY <1>2, <1>3, <1>4, <2>2, <2>3, <2>4
  <1> QED BY <1>5, <1>6, <1>7, <1>8

-----------------------------------------------------------------------------
\* The engine and what events say are untouched by what the provider does.
LEMMA EngineStays ==
    ASSUME NEW past, EngineTrue(past), EventsTrue(past), UNCHANGED <<kind, revision, native, born>>,
           \A e \in events' : e \in events
    PROVE  EngineTrue(past)' /\ EventsTrue(past)'
  <1>1. EngineTrue(past)'
    BY DEF EngineTrue
  <1>2. \A e \in events' : EventTrue(e, past)'
    <2> TAKE e \in events'
    <2>1. EventTrue(e, past)
      BY DEF EventsTrue
    <2> QED BY <2>1 DEF EventTrue
  <1> QED BY <1>1, <1>2 DEF EventsTrue

\* A subscription's claim survives when events are folded into the store: those
\* that leave the list of events are heeded by then.
LEMMA ClaimStays ==
    ASSUME NEW past, StoreTrue(past), StoreTrue(past)', revision' = revision, NEW s \in Subscriptions, ClaimTrue(s, past),
           sub[s].phase = "live" => sub'[s].phase = "live",
           baselineRevision' >= baselineRevision,
           \A t \in Transfers : ProjectionKnown(t)' >= ProjectionKnown(t),
           \A e \in events : \/ e \in events'
                             \/ e.task = "answer" /\ sub'[s].phase = "live" /\ baselineRevision' >= e.revision
                             \/ /\ e.task # "answer"
                                /\ \A t \in Transfers :
                                     past[e.revision][t] # past[e.revision - 1][t] => ProjectionKnown(t)' >= e.revision
    PROVE  ClaimTrue(s, past)'
  <1>1. PICK a \in Nat :
          /\ a <= revision /\ \A r \in Nat : r > a /\ r <= revision => Heeded(r, past)
          /\ \/ \E g \in events : g.task = "answer" /\ g.revision = a
             \/ sub[s].phase = "live" /\ baselineRevision >= a
    BY DEF ClaimTrue
  <1>2. baselineRevision \in Revisions /\ baselineRevision' \in Revisions
    BY DEF StoreTrue
  <1>3. ASSUME NEW r \in Nat, r > a, r <= revision' PROVE Heeded(r, past)'
    <2>1. Heeded(r, past)
      BY <1>1, <1>3
    <2>2. CASE \E g \in events : g.revision = r /\ g.task # "answer"
      BY <2>2 DEF Heeded
    <2>3. CASE \A t \in Transfers : past[r][t] # past[r - 1][t] => ProjectionKnown(t) >= r
      <3>1. ASSUME NEW t \in Transfers, past[r][t] # past[r - 1][t] PROVE ProjectionKnown(t)' >= r
        <4>1. ProjectionKnown(t) >= r /\ ProjectionKnown(t)' >= ProjectionKnown(t)
          BY <2>3, <3>1
        <4>2. ProjectionKnown(t) \in Revisions
          BY KnownType
        <4>3. ProjectionKnown(t)' \in Revisions
          <5>1. /\ taskRevisions'[t] \in Revisions /\ removedRevisions'[t] \in Revisions
                /\ baselineRevision' \in Revisions
            BY DEF StoreTrue
          <5> QED BY <5>1 DEF ProjectionKnown, Larger
        <4> QED BY <4>1, <4>2, <4>3 DEF Revisions
      <3> QED BY <3>1 DEF Heeded
    <2> QED BY <2>1, <2>2, <2>3 DEF Heeded
  <1>4. \/ \E g \in events' : g.task = "answer" /\ g.revision = a
        \/ sub'[s].phase = "live" /\ baselineRevision' >= a
    <2>1. CASE \E g \in events : g.task = "answer" /\ g.revision = a
      BY <2>1
    <2>2. CASE sub[s].phase = "live" /\ baselineRevision >= a
      BY <1>2, <2>2 DEF Revisions
    <2> QED BY <1>1, <2>1, <2>2
  <1> QED BY <1>1, <1>3, <1>4, Zenon DEF ClaimTrue

\* What an event said is known once it is folded.
LEMMA FoldHeeds ==
    ASSUME NEW past, EngineTrue(past), StoreTrue(past), OrderTrue, latestRevision \in Revisions,
           NEW e, EventTrue(e, past), fold(e), revision' = revision, kind' = kind
    PROVE  \A t \in Transfers : past[e.revision][t] # past[e.revision - 1][t] => ProjectionKnown(t)' >= e.revision
  <1> TAKE t \in Transfers
  <1> HAVE past[e.revision][t] # past[e.revision - 1][t]
  <1>1. /\ StoreTrue(past)'
        /\ e.type = "snapshot" => baselineRevision' >= e.revision
        /\ e.type # "snapshot" => ProjectionKnown(e.task)' >= e.revision
    BY FoldKeeps
  <1>2. CASE e.type = "snapshot"
    <2>1. /\ taskRevisions'[t] \in Revisions /\ removedRevisions'[t] \in Revisions
          /\ baselineRevision' \in Revisions
      BY <1>1 DEF StoreTrue
    <2>2. e.revision \in Nat
      BY DEF EventTrue, EventRecs
    <2> QED BY <1>1, <1>2, <2>1, <2>2 DEF ProjectionKnown, Larger, Revisions
  <1>3. CASE e.type # "snapshot"
    <2>1. /\ e.task \in Transfers /\ e.revision >= 1 /\ e.revision \in Nat
          /\ past[e.revision] = [past[e.revision - 1] EXCEPT ![e.task] = e.state]
      BY <1>3 DEF EventTrue, EventRecs
    <2>2. e.revision - 1 \in Nat /\ past \in [Nat -> TaskMaps]
      BY <2>1 DEF EngineTrue
    <2>3. past[e.revision - 1] \in TaskMaps
      BY <2>2
    <2>4. t = e.task
      BY <2>1, <2>3 DEF TaskMaps
    <2> QED BY <1>1, <1>3, <2>4
  <1> QED BY <1>2, <1>3

\* An event is delivered.
LEMMA DeliverKeeps ==
    ASSUME NEW past, InvOf(past), NEW e \in events, e.task # "answer", deliver(e)
    PROVE  InvOf(past)'
  <1>1. /\ EngineTrue(past) /\ EventsTrue(past) /\ StoreTrue(past) /\ OrderTrue /\ SubsTrue /\ Claims(past)
        /\ wiped \in BOOLEAN /\ latestRevision \in Revisions
    BY DEF InvOf
  <1>2. /\ events' = events \ {e} /\ UNCHANGED <<sub, wiped, revision, native, born, kind>>
        /\ IF \E s \in Mounted : e.type \in sub[s].heard THEN fold(e) ELSE UNCHANGED storeVars
    BY DEF deliver
  <1>3. EventTrue(e, past)
    BY <1>1 DEF EventsTrue
  <1>4. EngineTrue(past)' /\ EventsTrue(past)'
    BY <1>1, <1>2, EngineStays
  <1>5. SubsTrue' /\ wiped' \in BOOLEAN
    BY <1>1, <1>2 DEF SubsTrue
  <1>6. CASE \E s \in Mounted : e.type \in sub[s].heard
    <2>1. fold(e)
      BY <1>2, <1>6
    <2>2. /\ StoreTrue(past)' /\ OrderTrue' /\ latestRevision' \in Revisions
          /\ baselineRevision' >= baselineRevision
          /\ \A t \in Transfers : ProjectionKnown(t)' >= ProjectionKnown(t)
      BY <1>1, <1>2, <1>3, <2>1, FoldKeeps
    <2>3. \A t \in Transfers : past[e.revision][t] # past[e.revision - 1][t] => ProjectionKnown(t)' >= e.revision
      BY <1>1, <1>2, <1>3, <2>1, FoldHeeds
    <2>4. Claims(past)'
      <3> SUFFICES ASSUME NEW s \in Subscriptions, sub'[s].mounted, sub'[s].phase \in {"answered", "live"}, ~wiped'
                   PROVE  ClaimTrue(s, past)'
        BY DEF Claims
      <3>1. ClaimTrue(s, past)
        BY <1>1, <1>2 DEF Claims
      <3>2. \A g \in events : g \in events' \/ g = e
        BY <1>2
      <3>3. sub' = sub /\ revision' = revision
        BY <1>2
      <3> QED BY <1>1, <2>2, <2>3, <3>1, <3>2, <3>3, ClaimStays
    <2> QED BY <1>4, <1>5, <2>2, <2>4 DEF InvOf
  <1>7. CASE ~ \E s \in Mounted : e.type \in sub[s].heard
    <2>1. UNCHANGED storeVars
      BY <1>2, <1>7
    <2>2. StoreTrue(past)' /\ OrderTrue' /\ latestRevision' \in Revisions
      BY <1>1, <1>2, <2>1 DEF storeVars, StoreTrue, OrderTrue, SummaryTrue, ProjectionKnown
    <2>3. Claims(past)'
      <3> SUFFICES ASSUME NEW s \in Subscriptions, sub'[s].mounted, sub'[s].phase \in {"answered", "live"}, ~wiped'
                   PROVE  FALSE
        BY DEF Claims
      <3>1. s \in Mounted /\ sub[s].heard = Types
        BY <1>1, <1>2 DEF SubsTrue, Mounted
      <3>2. e.type \in Types
        BY <1>3 DEF EventTrue, EventRecs
      <3> QED BY <1>7, <3>1, <3>2
    <2> QED BY <1>4, <1>5, <2>2, <2>3 DEF InvOf
  <1> QED BY <1>6, <1>7

\* The engine answers: the answer is of its last revision.
LEMMA SnapshotKeeps ==
    ASSUME NEW past, InvOf(past), NEW s \in Subscriptions, snapshotTaken(s)
    PROVE  InvOf(past)'
  <1>1. /\ EngineTrue(past) /\ EventsTrue(past) /\ StoreTrue(past) /\ OrderTrue /\ SubsTrue /\ Claims(past)
        /\ wiped \in BOOLEAN /\ latestRevision \in Revisions
    BY DEF InvOf
  <1>2. PICK f : f = [Event("snapshot", "none", "none", native) EXCEPT !.revision = revision, !.task = "answer"]
    OBVIOUS
  <1>3. /\ sub[s].phase = "asking" /\ sub' = [sub EXCEPT ![s].phase = "answered"]
        /\ events' = events \cup {f} /\ UNCHANGED <<storeVars, wiped, revision, native, born, kind>>
    BY <1>2 DEF snapshotTaken
  <1>4. /\ native \in TaskMaps /\ native = past[revision] /\ revision \in Nat
    BY <1>1 DEF EngineTrue
  <1>5. /\ f \in EventRecs /\ f.type = "snapshot" /\ f.task = "answer" /\ f.revision = revision
        /\ f.tasks = past[f.revision]
    BY <1>2, <1>4 DEF Event, EventRecs, Types, Labels
  <1>6. EngineTrue(past)'
    BY <1>1, <1>3 DEF EngineTrue
  <1>7. EventsTrue(past)'
    <2>1. EventTrue(f, past)'
      BY <1>3, <1>4, <1>5 DEF EventTrue
    <2>2. \A g \in events : EventTrue(g, past)'
      BY <1>1, <1>3 DEF EventsTrue, EventTrue
    <2> QED BY <1>3, <2>1, <2>2 DEF EventsTrue
  <1>8. StoreTrue(past)' /\ OrderTrue' /\ latestRevision' \in Revisions /\ wiped' \in BOOLEAN
    BY <1>1, <1>3 DEF storeVars, StoreTrue, OrderTrue, SummaryTrue, ProjectionKnown
  <1>9. SubsTrue'
    <2>1. PICK x \in SubRecs : x = sub[s]
      BY <1>1 DEF SubsTrue
    <2>2. PICK y : y = [x EXCEPT !.phase = "answered"]
      OBVIOUS
    <2>3. y \in SubRecs /\ y.phase = "answered" /\ y.mounted = x.mounted /\ y.heard = x.heard
      BY <2>1, <2>2 DEF SubRecs, SubPhases
    <2>4. sub \in [Subscriptions -> SubRecs] /\ sub' = [sub EXCEPT ![s] = y]
      BY <1>1, <1>3, <2>1, <2>2 DEF SubsTrue
    <2> QED BY <1>1, <1>3, <2>1, <2>3, <2>4 DEF SubsTrue
  <1>10. Claims(past)'
    <2> SUFFICES ASSUME NEW r \in Subscriptions, sub'[r].mounted, sub'[r].phase \in {"answered", "live"}, ~wiped'
                 PROVE  ClaimTrue(r, past)'
      BY DEF Claims
    <2>1. CASE r = s
      <3>1. \A n \in Nat : ~(n > revision /\ n <= revision)
        BY <1>4
      <3>2. f \in events' /\ f.task = "answer" /\ f.revision = revision
        BY <1>3, <1>5
      <3>3. revision' = revision /\ revision <= revision
        BY <1>3, <1>4
      <3> QED BY <1>4, <3>1, <3>2, <3>3, Zenon DEF ClaimTrue
    <2>2. CASE r # s
      <3>1. sub'[r] = sub[r]
        BY <1>1, <1>3, <2>2 DEF SubsTrue
      <3>2. ClaimTrue(r, past)
        BY <1>1, <1>3, <3>1 DEF Claims
      <3>3. /\ baselineRevision \in Revisions /\ baselineRevision' = baselineRevision
            /\ \A t \in Transfers : ProjectionKnown(t) \in Revisions /\ ProjectionKnown(t)' = ProjectionKnown(t)
        BY <1>1, <1>3, KnownType DEF storeVars, ProjectionKnown, StoreTrue
      <3>4. baselineRevision' >= baselineRevision /\ \A t \in Transfers : ProjectionKnown(t)' >= ProjectionKnown(t)
        BY <3>3 DEF Revisions
      <3>5. revision' = revision /\ \A g \in events : g \in events'
        BY <1>3
      <3> QED BY <1>1, <1>8, <3>1, <3>2, <3>4, <3>5, ClaimStays
    <2> QED BY <2>1, <2>2
  <1> QED BY <1>6, <1>7, <1>8, <1>9, <1>10 DEF InvOf

\* A mount's record: what each change of it leaves.
LEMMA SubRecChanges ==
    ASSUME NEW x \in SubRecs
    PROVE  /\ \A p \in SubPhases : /\ [x EXCEPT !.phase = p] \in SubRecs
                                   /\ [x EXCEPT !.phase = p].phase = p
                                   /\ [x EXCEPT !.phase = p].mounted = x.mounted
                                   /\ [x EXCEPT !.phase = p].heard = x.heard
           /\ \A h \in Heards : /\ [x EXCEPT !.heard = h] \in SubRecs
                                /\ [x EXCEPT !.heard = h].phase = x.phase
                                /\ [x EXCEPT !.heard = h].mounted = x.mounted
                                /\ [x EXCEPT !.heard = h].heard = h
  BY DEF SubRecs

\* One mount changes: the others keep theirs.
LEMMA SubChanges ==
    ASSUME SubsTrue, NEW s \in Subscriptions, NEW y \in SubRecs, sub' = [sub EXCEPT ![s] = y],
           y.mounted => sub[s].mounted \/ Mounted = {},
           y.phase \in {"asking", "answered", "live"} => y.heard = Types,
           y.phase = "live" => y.mounted
    PROVE  /\ SubsTrue' /\ sub'[s] = y
           /\ \A r \in Subscriptions : r # s => sub'[r] = sub[r]
  <1>1. sub \in [Subscriptions -> SubRecs]
    BY DEF SubsTrue
  <1>2. sub'[s] = y /\ \A r \in Subscriptions : r # s => sub'[r] = sub[r]
    BY <1>1
  <1>3. sub' \in [Subscriptions -> SubRecs]
    BY <1>1
  <1>4. \A r, q \in Subscriptions : sub'[r].mounted /\ sub'[q].mounted => r = q
    BY <1>2 DEF SubsTrue, Mounted
  <1>5. \A r \in Subscriptions :
          /\ sub'[r].phase \in {"asking", "answered", "live"} => sub'[r].heard = Types
          /\ sub'[r].phase = "live" => sub'[r].mounted
    BY <1>2 DEF SubsTrue
  <1> QED BY <1>2, <1>3, <1>4, <1>5 DEF SubsTrue

\* The provider's effect, and one listener more: no claim is made yet.
LEMMA ListenKeeps ==
    ASSUME NEW past, InvOf(past), NEW s \in Subscriptions, mount(s) \/ listen(s),
           UNCHANGED <<kind, revision, native, born, events>>
    PROVE  InvOf(past)'
  <1>1. /\ EngineTrue(past) /\ EventsTrue(past) /\ StoreTrue(past) /\ OrderTrue /\ SubsTrue /\ Claims(past)
        /\ wiped \in BOOLEAN /\ latestRevision \in Revisions
    BY DEF InvOf
  <1>2. UNCHANGED <<storeVars, wiped>>
    BY DEF mount, listen
  <1>3. PICK x \in SubRecs : x = sub[s]
    BY <1>1 DEF SubsTrue
  <1>4. \E y \in SubRecs : /\ sub' = [sub EXCEPT ![s] = y] /\ y.phase \in {"listening", "asking"}
                           /\ y.mounted => sub[s].mounted \/ Mounted = {}
                           /\ y.phase = "asking" => y.heard = Types
    <2>1. CASE mount(s)
      <3>1. PICK y : y = [phase |-> "listening", mounted |-> TRUE, heard |-> {}]
        OBVIOUS
      <3>2. y \in SubRecs /\ y.phase = "listening" /\ sub' = [sub EXCEPT ![s] = y] /\ Mounted = {}
        BY <2>1, <3>1 DEF mount, SubRecs, SubPhases, Heards
      <3> QED BY <3>2
    <2>2. CASE listen(s)
      <3>1. x.heard \in Heards /\ x.phase = "listening"
        BY <1>3, <2>2 DEF listen, SubRecs
      <3>2. PICK n : n = Cardinality(x.heard)
        OBVIOUS
      <3>3. /\ x.heard = {} => n = 0
            /\ x.heard = {"snapshot"} => n = 1
            /\ x.heard = {"snapshot", "task"} => n = 2
            /\ x.heard = Types => n = 3
        <4>1. Cardinality({}) = 0 /\ IsFiniteSet({})
          BY FS_EmptySet
        <4>2. Cardinality({"snapshot"}) = 1 /\ IsFiniteSet({"snapshot"})
          BY FS_Singleton
        <4>3. {"snapshot"} \cup {"task"} = {"snapshot", "task"}
          OBVIOUS
        <4>4. Cardinality({"snapshot", "task"}) = 2 /\ IsFiniteSet({"snapshot", "task"})
          <5>1. PICK one : one = {"snapshot"}
            OBVIOUS
          <5>2. Cardinality(one) = 1 /\ IsFiniteSet(one) /\ "task" \notin one
            BY <4>2, <5>1
          <5>3. Cardinality(one \cup {"task"}) = 2 /\ IsFiniteSet(one \cup {"task"})
            BY <5>2, FS_AddElement
          <5> QED BY <4>3, <5>1, <5>3, Zenon
        <4>5. {"snapshot", "task"} \cup {"removed"} = Types
          BY DEF Types
        <4>6. Cardinality(Types) = 3
          BY <4>4, <4>5, FS_AddElement
        <4> QED BY <3>2, <4>1, <4>2, <4>4, <4>6
      <3>4. /\ Len(EventTypes) = 3
            /\ EventTypes[1] = "snapshot" /\ EventTypes[2] = "task" /\ EventTypes[3] = "removed"
        BY DEF EventTypes
      <3>5. CASE n < 3
        <4>1. PICK h : h = x.heard \cup {EventTypes[n + 1]}
          OBVIOUS
        <4>2. h \in Heards
          BY <3>1, <3>3, <3>4, <3>5, <4>1 DEF Heards, Types
        <4>3. PICK y : y = [x EXCEPT !.heard = h]
          OBVIOUS
        <4>4. y \in SubRecs /\ y.phase = x.phase /\ y.mounted = x.mounted
          BY <4>2, <4>3, SubRecChanges
        <4>5. sub' = [sub EXCEPT ![s].heard = @ \cup {EventTypes[n + 1]}]
          BY <1>3, <2>2, <3>2, <3>4, <3>5 DEF listen
        <4>6. sub' = [sub EXCEPT ![s] = y]
          BY <1>3, <4>1, <4>3, <4>5
        <4> QED BY <1>3, <3>1, <4>4, <4>6
      <3>6. CASE ~(n < 3)
        <4>1. x.heard = Types
          BY <3>1, <3>3, <3>6 DEF Heards
        <4>2. PICK y : y = [x EXCEPT !.phase = "asking"]
          OBVIOUS
        <4>3. "asking" \in SubPhases
          BY DEF SubPhases
        <4>4. y \in SubRecs /\ y.phase = "asking" /\ y.mounted = x.mounted /\ y.heard = x.heard
          BY <4>2, <4>3, SubRecChanges
        <4>5. sub' = [sub EXCEPT ![s].phase = "asking"]
          BY <1>3, <2>2, <3>2, <3>4, <3>6 DEF listen
        <4>6. sub' = [sub EXCEPT ![s] = y]
          BY <1>3, <4>2, <4>5
        <4> QED BY <1>3, <4>1, <4>4, <4>6
      <3> QED BY <3>5, <3>6
    <2> QED BY <2>1, <2>2
  <1>5. PICK y \in SubRecs : /\ sub' = [sub EXCEPT ![s] = y] /\ y.phase \in {"listening", "asking"}
                             /\ y.mounted => sub[s].mounted \/ Mounted = {}
                             /\ y.phase = "asking" => y.heard = Types
    BY <1>4
  <1>6. /\ SubsTrue' /\ sub'[s] = y
        /\ \A r \in Subscriptions : r # s => sub'[r] = sub[r]
    BY <1>1, <1>5, SubChanges
  <1>7. EngineTrue(past)' /\ EventsTrue(past)'
    BY <1>1, EngineStays
  <1>8. StoreTrue(past)' /\ OrderTrue' /\ latestRevision' \in Revisions /\ wiped' \in BOOLEAN
    BY <1>1, <1>2 DEF storeVars, StoreTrue, OrderTrue, SummaryTrue, ProjectionKnown
  <1>9. Claims(past)'
    <2> SUFFICES ASSUME NEW r \in Subscriptions, sub'[r].mounted, sub'[r].phase \in {"answered", "live"}, ~wiped'
                 PROVE  ClaimTrue(r, past)'
      BY DEF Claims
    <2>1. r # s /\ sub'[r] = sub[r]
      BY <1>5, <1>6
    <2>2. ClaimTrue(r, past)
      BY <1>1, <1>2, <2>1 DEF Claims
    <2>3. /\ baselineRevision \in Revisions /\ baselineRevision' = baselineRevision
          /\ \A t \in Transfers : ProjectionKnown(t) \in Revisions /\ ProjectionKnown(t)' = ProjectionKnown(t)
      BY <1>1, <1>2, KnownType DEF storeVars, ProjectionKnown, StoreTrue
    <2>4. baselineRevision' >= baselineRevision /\ \A t \in Transfers : ProjectionKnown(t)' >= ProjectionKnown(t)
      BY <2>3 DEF Revisions
    <2> QED BY <1>1, <1>8, <2>1, <2>2, <2>4, ClaimStays
  <1> QED BY <1>7, <1>8, <1>6, <1>9 DEF InvOf

\* The provider goes, or its subscription fails: its store is emptied and it
\* claims nothing more.
LEMMA LeavingKeeps ==
    ASSUME NEW past, InvOf(past), NEW s \in Subscriptions,
           subscribeFails(s) \/ (unmountProvider(s) /\ UNCHANGED <<kind, revision, native, born, events>>)
    PROVE  InvOf(past)'
  <1>1. /\ EngineTrue(past) /\ EventsTrue(past) /\ StoreTrue(past) /\ OrderTrue /\ SubsTrue /\ Claims(past)
        /\ wiped \in BOOLEAN /\ latestRevision \in Revisions
    BY DEF InvOf
  <1>2. UNCHANGED <<wiped, kind, revision, native, born, events>>
    BY DEF subscribeFails, unmountProvider
  <1>3. IF sub[s].mounted THEN emptied ELSE UNCHANGED storeVars
    BY DEF subscribeFails, unmountProvider
  <1>4. PICK x \in SubRecs : x = sub[s]
    BY <1>1 DEF SubsTrue
  <1>5. \E y \in SubRecs : /\ sub' = [sub EXCEPT ![s] = y] /\ y.phase # "live"
                           /\ y.mounted => x.mounted
                           /\ y.phase \in {"asking", "answered"} => y.heard = Types
                           /\ y.mounted => y.phase \notin {"answered", "live"}
    <2>1. CASE subscribeFails(s)
      <3>1. PICK y : y = [x EXCEPT !.phase = "over", !.heard = {}]
        OBVIOUS
      <3>2. y \in SubRecs /\ y.phase = "over" /\ y.mounted = x.mounted
        BY <3>1 DEF SubRecs, SubPhases, Heards
      <3>3. sub' = [sub EXCEPT ![s] = y]
        BY <1>4, <2>1, <3>1 DEF subscribeFails
      <3> QED BY <3>2, <3>3
    <2>2. CASE unmountProvider(s)
      <3>1. PICK p : p = IF x.phase = "live" THEN "over" ELSE x.phase
        OBVIOUS
      <3>2. PICK h : h = IF x.phase = "live" THEN {} ELSE x.heard
        OBVIOUS
      <3>3. PICK y : y = [x EXCEPT !.mounted = FALSE, !.phase = p, !.heard = h]
        OBVIOUS
      <3>4. p \in SubPhases /\ h \in Heards /\ p # "live"
        BY <3>1, <3>2 DEF SubRecs, SubPhases, Heards
      <3>5. y \in SubRecs /\ y.phase = p /\ y.heard = h /\ y.mounted = FALSE
        BY <3>3, <3>4 DEF SubRecs
      <3>6. sub' = [sub EXCEPT ![s] = y]
        BY <1>4, <2>2, <3>1, <3>2, <3>3 DEF unmountProvider
      <3>7. p \in {"asking", "answered"} => h = Types
        BY <1>1, <1>4, <3>1, <3>2 DEF SubsTrue
      <3> QED BY <3>4, <3>5, <3>6, <3>7
    <2> QED BY <2>1, <2>2
  <1>6. PICK y \in SubRecs : /\ sub' = [sub EXCEPT ![s] = y] /\ y.phase # "live"
                             /\ y.mounted => x.mounted
                             /\ y.phase \in {"asking", "answered"} => y.heard = Types
                             /\ y.mounted => y.phase \notin {"answered", "live"}
    BY <1>5
  <1>7. /\ SubsTrue' /\ sub'[s] = y
        /\ \A r \in Subscriptions : r # s => sub'[r] = sub[r]
    BY <1>1, <1>4, <1>6, SubChanges
  <1>8. EngineTrue(past)' /\ EventsTrue(past)'
    BY <1>1, <1>2, EngineStays
  <1>9. CASE sub[s].mounted
    <2>1. StoreTrue(past)' /\ OrderTrue' /\ latestRevision' \in Revisions
      BY <1>1, <1>2, <1>3, <1>9, EmptiedIsTrue
    <2>2. Claims(past)'
      BY <1>1, <1>6, <1>7, <1>9 DEF Claims, SubsTrue
    <2> QED BY <1>1, <1>2, <1>7, <1>8, <2>1, <2>2 DEF InvOf
  <1>10. CASE ~sub[s].mounted
    <2>1. StoreTrue(past)' /\ OrderTrue' /\ latestRevision' \in Revisions
      <3>1. UNCHANGED storeVars
        BY <1>3, <1>10
      <3> QED BY <1>1, <1>2, <3>1 DEF storeVars, StoreTrue, OrderTrue, SummaryTrue, ProjectionKnown
    <2>2. Claims(past)'
      <3> SUFFICES ASSUME NEW r \in Subscriptions, sub'[r].mounted, sub'[r].phase \in {"answered", "live"}, ~wiped'
                   PROVE  ClaimTrue(r, past)'
        BY DEF Claims
      <3>1. r # s /\ sub'[r] = sub[r]
        BY <1>6, <1>7
      <3>2. ClaimTrue(r, past)
        BY <1>1, <1>2, <3>1 DEF Claims
      <3>3. /\ baselineRevision \in Revisions /\ baselineRevision' = baselineRevision
            /\ \A t \in Transfers : ProjectionKnown(t) \in Revisions /\ ProjectionKnown(t)' = ProjectionKnown(t)
        BY <1>1, <1>3, <1>10, KnownType DEF storeVars, ProjectionKnown, StoreTrue
      <3>4. baselineRevision' >= baselineRevision /\ \A t \in Transfers : ProjectionKnown(t)' >= ProjectionKnown(t)
        BY <3>3 DEF Revisions
      <3>5. revision' = revision /\ \A g \in events : g \in events'
        BY <1>2
      <3> QED BY <1>1, <2>1, <3>1, <3>2, <3>4, <3>5, ClaimStays
    <2> QED BY <1>1, <1>2, <1>7, <1>8, <2>1, <2>2 DEF InvOf
  <1> QED BY <1>9, <1>10

\* The answer arrives: a mounted provider folds it in and is subscribed, one that
\* is gone empties the store, also under the mount that came after it.
LEMMA SubscribedKeeps ==
    ASSUME NEW past, InvOf(past), NEW s \in Subscriptions, subscribed(s)
    PROVE  InvOf(past)'
  <1>1. /\ EngineTrue(past) /\ EventsTrue(past) /\ StoreTrue(past) /\ OrderTrue /\ SubsTrue /\ Claims(past)
        /\ wiped \in BOOLEAN /\ latestRevision \in Revisions
    BY DEF InvOf
  <1>2. PICK e \in events :
          /\ e.task = "answer" /\ events' = events \ {e}
          /\ IF sub[s].mounted
             THEN fold(e) /\ sub' = [sub EXCEPT ![s].phase = "live"] /\ UNCHANGED wiped
             ELSE /\ sub' = [sub EXCEPT ![s].phase = "over", ![s].heard = {}]
                  /\ emptied /\ wiped' = (wiped \/ \E r \in Mounted : sub[r].heard # {})
    BY DEF subscribed
  <1>3. sub[s].phase = "answered" /\ UNCHANGED <<revision, native, born, kind>>
    BY DEF subscribed
  <1>4. PICK x \in SubRecs : x = sub[s]
    BY <1>1 DEF SubsTrue
  <1>5. EngineTrue(past)' /\ EventsTrue(past)'
    <2>1. \A g \in events' : g \in events
      BY <1>2
    <2> QED BY <1>1, <1>3, <2>1, EngineStays
  <1>6. EventTrue(e, past) /\ e.type = "snapshot"
    <2>1. EventTrue(e, past)
      BY <1>1 DEF EventsTrue
    <2> QED BY <1>2, <2>1, Names DEF EventTrue
  <1>7. CASE sub[s].mounted
    <2>1. fold(e) /\ sub' = [sub EXCEPT ![s].phase = "live"] /\ wiped' = wiped
      BY <1>2, <1>7
    <2>2. PICK y : y = [x EXCEPT !.phase = "live"]
      OBVIOUS
    <2>3. "live" \in SubPhases
      BY DEF SubPhases
    <2>4. y \in SubRecs /\ y.phase = "live" /\ y.mounted = x.mounted /\ y.heard = x.heard
      BY <2>2, <2>3, SubRecChanges
    <2>5. sub' = [sub EXCEPT ![s] = y]
      BY <1>4, <2>1, <2>2
    <2>6. x.heard = Types /\ x.mounted
      BY <1>1, <1>3, <1>4, <1>7 DEF SubsTrue
    <2>7. /\ SubsTrue' /\ sub'[s] = y
          /\ \A r \in Subscriptions : r # s => sub'[r] = sub[r]
      BY <1>1, <1>4, <2>4, <2>5, <2>6, SubChanges
    <2>8. /\ StoreTrue(past)' /\ OrderTrue' /\ latestRevision' \in Revisions
          /\ baselineRevision' >= baselineRevision
          /\ \A t \in Transfers : ProjectionKnown(t)' >= ProjectionKnown(t)
          /\ baselineRevision' >= e.revision
      BY <1>1, <1>3, <1>6, <2>1, FoldKeeps
    <2>9. Claims(past)'
      <3> SUFFICES ASSUME NEW r \in Subscriptions, sub'[r].mounted, sub'[r].phase \in {"answered", "live"}, ~wiped'
                   PROVE  ClaimTrue(r, past)'
        BY DEF Claims
      <3>1. r = s
        BY <2>4, <2>6, <2>7 DEF SubsTrue
      <3>2. ClaimTrue(s, past)
        BY <1>1, <1>3, <1>7, <2>1, <3>1 DEF Claims
      <3>3. \A g \in events : g \in events' \/ g = e
        BY <1>2
      <3>4. sub'[s].phase = "live" /\ revision' = revision /\ e.task = "answer"
        BY <1>2, <1>3, <2>4, <2>7
      <3> QED BY <1>1, <2>8, <3>1, <3>2, <3>3, <3>4, ClaimStays
    <2>10. wiped' \in BOOLEAN
      BY <1>1, <2>1
    <2> QED BY <1>5, <2>7, <2>8, <2>9, <2>10 DEF InvOf
  <1>8. CASE ~sub[s].mounted
    <2>1. /\ sub' = [sub EXCEPT ![s].phase = "over", ![s].heard = {}]
          /\ emptied /\ wiped' = (wiped \/ \E r \in Mounted : sub[r].heard # {})
      BY <1>2, <1>8
    <2>2. PICK y : y = [x EXCEPT !.phase = "over", !.heard = {}]
      OBVIOUS
    <2>3. "over" \in SubPhases /\ {} \in Heards
      BY DEF SubPhases, Heards
    <2>4. y \in SubRecs /\ y.phase = "over" /\ y.mounted = x.mounted
      BY <2>2, <2>3 DEF SubRecs
    <2>5. sub' = [sub EXCEPT ![s] = y]
      BY <1>4, <2>1, <2>2
    <2>6. /\ SubsTrue' /\ sub'[s] = y
          /\ \A r \in Subscriptions : r # s => sub'[r] = sub[r]
      BY <1>1, <1>4, <2>4, <2>5, SubChanges
    <2>7. StoreTrue(past)' /\ OrderTrue' /\ latestRevision' \in Revisions
      BY <1>1, <1>3, <2>1, EmptiedIsTrue
    <2>8. wiped' \in BOOLEAN
      BY <1>1, <2>1
    <2>9. Claims(past)'
      <3> SUFFICES ASSUME NEW r \in Subscriptions, sub'[r].mounted, sub'[r].phase \in {"answered", "live"}, ~wiped'
                   PROVE  FALSE
        BY DEF Claims
      <3>1. r # s /\ sub'[r] = sub[r]
        BY <2>4, <2>6
      <3>2. r \in Mounted /\ sub[r].heard = Types
        BY <1>1, <3>1 DEF SubsTrue, Mounted
      <3>3. Types # {}
        BY DEF Types
      <3> QED BY <2>1, <3>2, <3>3
    <2> QED BY <1>5, <2>6, <2>7, <2>8, <2>9 DEF InvOf
  <1> QED BY <1>7, <1>8

-----------------------------------------------------------------------------
\* At first nobody listens and there is nothing to show.
LEMMA ProjectionInitInv ==
    ASSUME ProjectionInit
    PROVE  ProjectionInv
  <1>1. PICK past : past = [r \in Nat |-> NoTasks]
    OBVIOUS
  <1>2. /\ kind \in {"uploads", "downloads"}
        /\ revision = 0 /\ native = NoTasks /\ born = {} /\ events = {}
        /\ sub = [s \in Subscriptions |-> [phase |-> "none", mounted |-> FALSE, heard |-> {}]]
        /\ shownTasks = NoTasks /\ order = <<>> /\ baselineRevision = -1 /\ latestRevision = -1
        /\ taskRevisions = NoRevisions /\ removedRevisions = NoRevisions
        /\ indexes = NoIndexes /\ lastFailedId = "none"
        /\ activeCount = 0 /\ failedCount = 0 /\ currentTask = "none" /\ wiped = FALSE
    BY DEF ProjectionInit
  <1>3. NoTasks \in TaskMaps /\ \A t \in Transfers : NoTasks[t] = "none"
    BY DEF NoTasks, TaskMaps, Labels
  <1>4. EngineTrue(past)
    BY <1>1, <1>2, <1>3, FS_EmptySet DEF EngineTrue
  <1>5. EventsTrue(past)
    BY <1>2 DEF EventsTrue
  <1>6. \A t \in Transfers : taskRevisions[t] = -1 /\ removedRevisions[t] = -1 /\ ProjectionKnown(t) = -1
    BY <1>2 DEF NoRevisions, ProjectionKnown, Larger
  <1>7. StoreTrue(past)
    <2>1. taskRevisions \in [Transfers -> Revisions] /\ removedRevisions \in [Transfers -> Revisions]
      BY <1>2 DEF NoRevisions, Revisions
    <2> QED BY <1>2, <1>3, <1>6, <2>1 DEF StoreTrue, Revisions
  <1>8. /\ With(shownTasks, States) = {} /\ With(shownTasks, ActiveStates) = {}
        /\ With(shownTasks, {"error"}) = {} /\ With(shownTasks, {"uploading"}) = {}
        /\ With(shownTasks, {"finalizing"}) = {} /\ With(shownTasks, ActiveStates \cup {"error"}) = {}
    BY <1>2, <1>3 DEF With, States, ActiveStates
  <1>9. SummaryTrue
    BY <1>2, <1>8, FS_EmptySet, Zenon DEF SummaryTrue
  <1>10. IndexesOf(indexes, shownTasks)
    BY <1>2, <1>8, ListsNothing DEF IndexesOf, NoIndexes
  <1>11. FailedOf(lastFailedId, shownTasks)
    BY <1>2, <1>8 DEF FailedOf
  <1>12. OrderTrue
    BY <1>2, <1>8, <1>9, <1>10, <1>11, ListsNothing DEF OrderTrue
  <1>13. PICK x : x = [phase |-> "none", mounted |-> FALSE, heard |-> {}]
    OBVIOUS
  <1>14. x \in SubRecs /\ x.phase = "none" /\ ~x.mounted
    BY <1>13 DEF SubRecs, SubPhases, Heards
  <1>15. \A s \in Subscriptions : sub[s] = x
    BY <1>2, <1>13
  <1>16. sub \in [Subscriptions -> SubRecs]
    BY <1>2, <1>13, <1>14
  <1>17. SubsTrue /\ Claims(past)
    BY <1>14, <1>15, <1>16 DEF SubsTrue, Claims
  <1>18. InvOf(past)
    BY <1>2, <1>4, <1>5, <1>7, <1>12, <1>17 DEF InvOf, Revisions
  <1> QED BY <1>18 DEF ProjectionInv

\* Every step keeps the invariant.
LEMMA ProjectionStepInv ==
    ASSUME ProjectionInv, [ProjectionNext]_projectionVars
    PROVE  ProjectionInv'
  <1>1. PICK past : InvOf(past)
    BY DEF ProjectionInv
  <1>2. ASSUME InvOf(past)' PROVE ProjectionInv'
    BY <1>2 DEF ProjectionInv
  <1>3. CASE UNCHANGED projectionVars
    BY <1>1, <1>2, <1>3 DEF projectionVars, storeVars, InvOf, EngineTrue, EventsTrue, EventTrue, StoreTrue,
       OrderTrue, SummaryTrue, SubsTrue, Claims, ClaimTrue, Heeded, ProjectionKnown
  <1>4. CASE /\ \/ \E t \in Transfers : nativeAdds(t) \/ nativeChanges(t) \/ nativeRemoves(t)
                \/ nativeResets
             /\ UNCHANGED <<kind, sub, storeVars, wiped>>
    BY <1>4, NativeKeeps
  <1>5. ASSUME NEW e \in events, e.task # "answer", deliver(e) PROVE ProjectionInv'
    BY <1>1, <1>2, <1>5, DeliverKeeps
  <1>6. ASSUME NEW s \in Subscriptions, snapshotTaken(s) PROVE ProjectionInv'
    BY <1>1, <1>2, <1>6, SnapshotKeeps
  <1>7. ASSUME NEW s \in Subscriptions, subscribed(s) PROVE ProjectionInv'
    BY <1>1, <1>2, <1>7, SubscribedKeeps
  <1>8. ASSUME NEW s \in Subscriptions, subscribeFails(s) PROVE ProjectionInv'
    BY <1>1, <1>2, <1>8, LeavingKeeps
  <1>9. ASSUME NEW s \in Subscriptions, mount(s) \/ listen(s) \/ unmountProvider(s),
               UNCHANGED <<kind, revision, native, born, events>>
        PROVE  ProjectionInv'
    BY <1>1, <1>2, <1>9, ListenKeeps, LeavingKeeps
  <1> QED BY <1>3, <1>4, <1>5, <1>6, <1>7, <1>8, <1>9 DEF ProjectionNext

\* Once every event is delivered, what a subscribed provider knows of a task is
\* the last there is to know.
LEMMA QuietIsTrue ==
    ASSUME NEW past, InvOf(past), ~wiped, Quiet, NEW s \in Mounted, sub[s].phase = "live"
    PROVE  shownTasks = native
  <1>1. /\ EngineTrue(past) /\ StoreTrue(past) /\ Claims(past)
    BY DEF InvOf
  <1>2. s \in Subscriptions /\ sub[s].mounted
    BY DEF Mounted
  <1>3. PICK a \in Nat :
          /\ a <= revision /\ \A r \in Nat : r > a /\ r <= revision => Heeded(r, past)
          /\ baselineRevision >= a
    BY <1>1, <1>2 DEF Claims, ClaimTrue, Quiet
  <1>4. revision \in Nat /\ past \in [Nat -> TaskMaps] /\ past[revision] = native
    BY <1>1 DEF EngineTrue
  <1>5. ASSUME NEW t \in Transfers PROVE shownTasks[t] = native[t]
    <2>1. PICK k : k = ProjectionKnown(t)
      OBVIOUS
    <2>2. k \in Nat /\ k >= a /\ k <= revision
      <3>1. k \in Revisions /\ k <= revision /\ k >= baselineRevision /\ baselineRevision \in Revisions
        BY <1>1, <2>1, KnownType DEF StoreTrue
      <3> QED BY <1>3, <3>1 DEF Revisions
    <2>3. shownTasks[t] = past[k][t]
      BY <1>1, <2>1, <2>2 DEF StoreTrue
    <2>4. \A r \in Nat : r > k /\ r <= revision => past[r][t] = past[r - 1][t]
      <3> TAKE r \in Nat
      <3> HAVE r > k /\ r <= revision
      <3>1. Heeded(r, past) /\ events = {}
        BY <1>3, <2>2 DEF Quiet
      <3>2. past[r][t] # past[r - 1][t] => k >= r
        BY <2>1, <3>1 DEF Heeded
      <3> QED BY <2>2, <3>2
    <2> DEFINE Off == {r \in Nat : r > k /\ r <= revision /\ past[r][t] # past[k][t]}
    <2>5. Off = {}
      <3> SUFFICES ASSUME Off # {} PROVE FALSE
        OBVIOUS
      <3>1. Off \subseteq Nat
        OBVIOUS
      <3> HIDE DEF Off
      <3>2. PICK r \in Off : \A m \in Nat : m < r => m \notin Off
        BY <3>1, LeastOne, Zenon
      <3> USE DEF Off
      <3>3. r - 1 \in Nat /\ r - 1 < r /\ past[r][t] = past[r - 1][t]
        BY <2>2, <2>4, <3>2
      <3>4. CASE r - 1 = k
        BY <3>2, <3>3, <3>4
      <3>5. CASE r - 1 # k
        <4>1. r - 1 > k /\ r - 1 <= revision /\ r - 1 \notin Off
          BY <1>4, <2>2, <3>2, <3>3, <3>5
        <4> QED BY <3>2, <3>3, <4>1
      <3> QED BY <3>4, <3>5
    <2>6. past[revision][t] = past[k][t]
      BY <1>4, <2>2, <2>5
    <2> QED BY <1>4, <2>3, <2>6
  <1>6. shownTasks \in TaskMaps /\ native \in TaskMaps
    BY <1>1, <1>4 DEF StoreTrue
  <1> QED BY <1>5, <1>6 DEF TaskMaps

\* The invariant implies that the projection converges.
LEMMA ProjectionInvConverges ==
    ASSUME ProjectionInv
    PROVE  ProjectionConverges
  <1>1. PICK past : InvOf(past)
    BY DEF ProjectionInv
  <1>2. OrderTrue /\ shownTasks \in TaskMaps /\ kind \in {"uploads", "downloads"}
    BY <1>1 DEF InvOf, StoreTrue, EngineTrue
  <1>3. ~wiped /\ Quiet /\ (\E s \in Mounted : sub[s].phase = "live") => shownTasks = native
    BY <1>1, QuietIsTrue
  <1>4. With(shownTasks, States) = {t \in Transfers : shownTasks[t] # "none"}
    BY <1>2, Names DEF With, TaskMaps, Labels
  <1>5. /\ ToSet(order) = {t \in Transfers : shownTasks[t] # "none"}
        /\ Len(order) = Cardinality(ToSet(order))
    BY <1>2, <1>4, ListsCount DEF OrderTrue
  <1>6. PICK A : A = With(shownTasks, ActiveStates)
    OBVIOUS
  <1>7. PICK F : F = With(shownTasks, {"error"})
    OBVIOUS
  <1>8. With(shownTasks, ActiveStates \cup {"error"}) = A \cup F
    BY <1>6, <1>7 DEF With
  <1>9. /\ activeCount = Cardinality(A) /\ failedCount = Cardinality(F)
        /\ IsFiniteSet(A) /\ IsFiniteSet(F)
        /\ currentTask = "none" \/ currentTask \in A \cup F
        /\ currentTask = "none" <=> A \cup F = {}
        /\ kind = "uploads" /\ A # {} => currentTask \in A
    BY <1>2, <1>6, <1>7, <1>8, Zenon DEF OrderTrue, SummaryTrue
  <1>10. /\ activeCount \in Nat /\ failedCount \in Nat
         /\ activeCount = 0 <=> A = {}
         /\ failedCount = 0 <=> F = {}
    BY <1>9, FS_CardinalityType, FS_EmptySet
  <1>11. currentTask # "none" <=> activeCount + failedCount > 0
    <2>1. A \cup F = {} <=> activeCount = 0 /\ failedCount = 0
      BY <1>10
    <2>2. activeCount + failedCount > 0 <=> ~(activeCount = 0 /\ failedCount = 0)
      BY <1>10
    <2> QED BY <1>9, <2>1, <2>2, Zenon
  <1>12. A = {t \in Transfers : shownTasks[t] \in ActiveStates} /\ F = {t \in Transfers : shownTasks[t] = "error"}
    BY <1>6, <1>7 DEF With
  <1>13. currentTask # "none" => shownTasks[currentTask] \in
           (IF activeCount > 0 /\ kind = "uploads" THEN ActiveStates ELSE ActiveStates \cup {"error"})
    BY <1>9, <1>10, <1>12
  <1> QED BY <1>3, <1>5, <1>9, <1>11, <1>12, <1>13, Zenon DEF ProjectionConverges

\* Whatever overtook what, a subscribed provider converges to the engine's tasks.
THEOREM ProjectionsConverge == ProjectionSpec => []ProjectionConverges
  <1>1. ProjectionInit => ProjectionInv
    BY ProjectionInitInv
  <1>2. ProjectionInv /\ [ProjectionNext]_projectionVars => ProjectionInv'
    BY ProjectionStepInv
  <1>3. ProjectionInv => ProjectionConverges
    BY ProjectionInvConverges
  <1> QED BY <1>1, <1>2, <1>3, PTL DEF ProjectionSpec
===============================================================================
