--------------------------- MODULE DesktopSession ---------------------------
(* Which server the desktop application is connected to, and as whom          *)
(* (desktop-session.tsx, server-connection.tsx, the routes that use them).    *)
(* The state React shows is changed by the answers of commands; the native    *)
(* client (external, src-tauri) has the connection and the cookies.  A        *)
(* request goes to the server the client is connected to when it is sent.     *)
EXTENDS Integers, FiniteSets

CONSTANTS
  Servers, Local,  \* Local is the managed runtime, the others are remote
  Calls            \* bound: the commands in flight at a time
\* Call 1 is the bootstrap of the application; no server has the name of a state.
ASSUME SessionAssumption ==
  Local \in Servers /\ 1 \in Calls /\ "no one" \notin Servers /\ "nowhere" \notin Servers

VARIABLES
  view,      \* the session state: status, server, setupRequired, the user's server
  saved,     \* connectionMode and serverUrl in the settings file
  client,    \* external: the server the native client is connected to
  signedIn,  \* external: the servers with a valid session cookie
  fresh,     \* external: the servers that still need their setup
  calls,     \* the commands
  crossed    \* history: a change of session and another answer were under way together

sessionVars == <<view, saved, client, signedIn, fresh, calls, crossed>>

NoOne == "no one"
Nowhere == "nowhere"
NoCall == [kind |-> "none", to |-> Nowhere, at |-> "none"]
Idle == {c \in Calls : calls[c] = NoCall}
Loading == [status |-> "loading", server |-> Nowhere, setup |-> FALSE, user |-> NoOne]
Disconnected(s) == [Loading EXCEPT !.status = "disconnected", !.server = s]
UserAt(s) == IF s \in signedIn THEN s ELSE NoOne

\* The bootstrap effect finds a connection in the settings, or none.
SessionInit ==
  /\ saved \in Servers \cup {Nowhere}
  /\ view = Loading /\ client = Nowhere
  /\ signedIn \in SUBSET Servers /\ fresh = Servers \ signedIn
  /\ calls = [c \in Calls |-> IF c = 1 THEN [kind |-> "bootstrap", to |-> saved, at |-> "connect"]
                                      ELSE NoCall]
  /\ crossed = FALSE

-----------------------------------------------------------------------------
\* Changes of session, and calls whose answer sets the user.
Changing == {"signOut", "change", "connect"}
Asking == {"refresh", "login", "profile", "setup"}
InFlight(kinds) == \E c \in Calls : calls[c].kind \in kinds

start(c, kind, to, at) ==
  /\ c \in Idle
  /\ calls' = [calls EXCEPT ![c] = [kind |-> kind, to |-> to, at |-> at]]
  /\ crossed' = ((crossed /\ (kind # "connect" \/ \E d \in Calls : calls[d] # NoCall))
                   \/ (kind \in Changing /\ InFlight(Asking \cup Changing))
                   \/ (kind \in Asking /\ InFlight(Changing))
                   \/ (kind = "login" /\ InFlight(Asking))
                   \/ (kind \in Asking /\ InFlight({"login"})))
at(c, stage) == calls' = [calls EXCEPT ![c].at = stage]
ended(c) == calls' = [calls EXCEPT ![c] = NoCall]

\* The connection screen: a server is chosen while none is connected.  The local
\* mode is saved before the runtime is provisioned, a remote server afterwards.
connect(c, s) ==
  /\ view.status = "disconnected" /\ ~InFlight({"connect", "bootstrap"})
  /\ start(c, "connect", s, "connect")
  /\ saved' = IF s = Local THEN s ELSE saved
  /\ UNCHANGED <<view, client, signedIn, fresh>>

\* Requests of the routes of a connected server: who is it, sign in, save the
\* profile, complete the setup; and sign out and change the server.
ask(c, kind) ==
  /\ view.status = "connected"
  /\ CASE kind = "login" -> view.user = NoOne /\ ~view.setup
       [] kind = "setup" -> view.setup
       [] kind = "change" -> TRUE
       [] OTHER -> view.user # NoOne
  /\ start(c, kind, client, "sent")
  /\ UNCHANGED <<view, saved, client, signedIn, fresh>>

-----------------------------------------------------------------------------
\* connectServer and connectLocalRuntime: the client connects, asks for the
\* setup status, and is disconnected again when there is no answer.
connected(c) ==
  LET s == calls[c].to
  IN /\ calls[c].at = "connect" /\ s # Nowhere
     /\ client' = s /\ at(c, "status")
     /\ UNCHANGED <<view, saved, signedIn, fresh, crossed>>

\* The settings hold no connection.
nothingSaved(c) ==
  /\ calls[c].at = "connect" /\ calls[c].to = Nowhere
  /\ view' = Disconnected(Nowhere) /\ ended(c)
  /\ UNCHANGED <<saved, client, signedIn, fresh, crossed>>

\* The setup status is known; a connection that was chosen is saved, and
\* acceptConnection shows the loading screen.  A fresh server has no user.
statusKnown(c) ==
  LET s == calls[c].to
  IN /\ calls[c].at = "status"
     /\ IF calls[c].kind = "connect" THEN saved' = s ELSE UNCHANGED saved
     /\ IF s \in fresh
        THEN /\ view' = [status |-> "connected", server |-> s, setup |-> TRUE, user |-> NoOne]
             /\ ended(c)
        ELSE view' = Loading /\ at(c, "user")
     /\ UNCHANGED <<client, signedIn, fresh, crossed>>

\* getCurrentUser of connectedState answers.
userKnown(c) ==
  LET s == calls[c].to
  IN /\ calls[c].at = "user"
     /\ view' = [status |-> "connected", server |-> s, setup |-> FALSE, user |-> UserAt(s)]
     /\ ended(c)
     /\ UNCHANGED <<saved, client, signedIn, fresh, crossed>>

\* A bug to be found: without an answer about the user the loading screen stays.
connectionFailsLoading(c) ==
  LET s == calls[c].to
  IN /\ calls[c].at \in {"connect", "status", "user"} /\ s # Nowhere
     /\ client' = IF calls[c].at = "status" THEN Nowhere ELSE client
     /\ view' = IF calls[c].at = "user" THEN view
                ELSE Disconnected(IF calls[c].kind = "bootstrap" THEN s ELSE view.server)
     /\ ended(c)
     /\ UNCHANGED <<saved, signedIn, fresh, crossed>>

\* A step of connecting fails; only a failed status disconnects the client.
connectionFails(c) ==
  LET s == calls[c].to
  IN /\ calls[c].at \in {"connect", "status", "user"} /\ s # Nowhere
     /\ client' = IF calls[c].at = "status" THEN Nowhere ELSE client
     /\ view' = Disconnected(IF calls[c].kind = "bootstrap" \/ calls[c].at = "user" THEN s
                             ELSE view.server)
     /\ ended(c)
     /\ UNCHANGED <<saved, signedIn, fresh, crossed>>

-----------------------------------------------------------------------------
\* The server acts on a request, and the answer travels.
served(c) ==
  LET k == calls[c].kind  s == calls[c].to
  IN /\ calls[c].at = "sent" /\ s # Nowhere /\ k # "change"
     /\ (k = "login") => (s \notin fresh)
     /\ signedIn' = CASE k = "login" -> signedIn \cup {s}
                      [] k = "signOut" -> signedIn \ {s}
                      [] OTHER -> signedIn
     /\ fresh' = IF k = "setup" THEN fresh \ {s} ELSE fresh
     /\ at(c, IF k = "refresh" /\ s \notin signedIn THEN "gone" ELSE "answered")
     /\ UNCHANGED <<view, saved, client, crossed>>

\* refreshUser, setAuthenticated, signOut and markSetupCompleted go on: each
\* changes the state of whatever server is connected by then.
answered(c) ==
  LET k == calls[c].kind
  IN /\ calls[c].at \in {"answered", "gone"} /\ k # "change"
     /\ view' =
          IF view.status # "connected" THEN view
          ELSE CASE k \in {"login", "profile"} ->
                      [view EXCEPT !.setup = FALSE, !.user = calls[c].to]
                 [] k = "refresh" ->
                      [view EXCEPT !.user = IF calls[c].at = "gone" THEN NoOne ELSE calls[c].to]
                 [] k = "setup" -> [view EXCEPT !.setup = FALSE, !.user = NoOne]
                 [] OTHER -> [view EXCEPT !.user = NoOne]
     /\ ended(c)
     /\ UNCHANGED <<saved, client, signedIn, fresh, crossed>>

\* A request fails: nothing changes.
refused(c) ==
  /\ calls[c].at = "sent" /\ calls[c].kind # "change"
  /\ ended(c)
  /\ UNCHANGED <<view, saved, client, signedIn, fresh, crossed>>

\* changeServer: by the saved mode the runtime is stopped or the client is
\* disconnected; a failure is ignored, and the connection screen is shown.
serverLeft(c) ==
  /\ calls[c].kind = "change"
  /\ \E left \in BOOLEAN : client' = IF left THEN Nowhere ELSE client
  /\ view' = Disconnected(view.server)
  /\ ended(c)
  /\ UNCHANGED <<saved, signedIn, fresh, crossed>>

SessionNext ==
  \E c \in Calls :
    \/ \E s \in Servers : connect(c, s)
    \/ \E k \in {"refresh", "login", "profile", "setup", "signOut", "change"} : ask(c, k)
    \/ connected(c) \/ nothingSaved(c) \/ statusKnown(c) \/ userKnown(c) \/ connectionFails(c)
    \/ served(c) \/ answered(c) \/ refused(c) \/ serverLeft(c)

SessionSpec == SessionInit /\ [][SessionNext]_sessionVars

-----------------------------------------------------------------------------
(* Properties.                                                                 *)

\* The application does not hang on its loading screen, a server that is shown
\* as connected is the one the requests go to and a restart opens, and at rest the user it shows is
\* the one the server knows: a user of another server, or one who has signed
\* out, is not shown.  Excused is what followed a change of session that met
\* another answer: setAuthenticated and refreshUser do not ask whose answer it is.
SessionIsTrue ==
  /\ view.status = "loading" => InFlight({"bootstrap", "connect"})
  /\ ~crossed => /\ view.status = "connected" => view.server = client /\ view.server = saved
                 /\ view.user \in {NoOne, view.server}
                 /\ view.status = "connected" /\ Idle = Calls =>
                      /\ view.user = UserAt(view.server)
                      /\ view.setup <=> view.server \in fresh
=============================================================================
