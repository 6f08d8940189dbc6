---------------------------- MODULE SecondFactor ----------------------------
(* Two-factor authentication of one account: the server's enrollment, secret, *)
(* recovery codes and login challenges (internal/mfa/service.go,              *)
(* internal/auth/mfa.go), the security pages of the account's sessions, web   *)
(* and desktop, and the sign-in form.  Every operation of the server but the  *)
(* verification of a challenge is one transaction under the user's row lock.  *)
(* A page can have its start of an enrollment, its confirmation and, on the   *)
(* web, its action under way together; answers are delayed, reordered, lost.  *)
EXTENDS Naturals, FiniteSets

CONSTANTS
  Pages,       \* tabs and windows of one session
  Desktops,    \* those of the desktop application
  Challenges,  \* bound: the login challenges there are
  Verifies,    \* bound: calls that verify a challenge
  MaxVersion,  \* bound: changes of the server's state
  MaxFailures  \* mfaChallengeMaxFailures
ASSUME FactorAssumption ==
  Desktops \subseteq Pages /\ MaxVersion \in Nat /\ MaxFailures \in Nat \ {0}

VARIABLES
  version,    \* the changes made so far; secrets and sets of codes are numbered by them
  enrolled,    \* mfa_enrollments: its secret, 0 if there is none
  secret,     \* mfa_totp: its secret, 0 if it is off
  codes,      \* mfa_recovery_codes: the set, 0 if there is none
  codeUsed,   \* the user's one recovery code of this set is used
  page,       \* what each page shows
  call,       \* the calls of each page
  told,       \* history: the versions in which each page was last told of the factor
              \* and of its recovery codes; the secret a late start gave it, or 0
  challenge,  \* login_challenges
  form,       \* the challenge the sign-in form shows, 0 for the password
  waits,      \* the form's call, 0 if it waits for none
  verify,     \* the calls of verifyMFAChallenge
  signIns,    \* history: how often each challenge signed its user in
  spent       \* history: how often the recovery code did

serverVars == <<version, enrolled, secret, codes, codeUsed>>
pageVars == <<page, call, told>>
signInVars == <<challenge, form, waits, verify, signIns, spent>>
factorVars == <<serverVars, pageVars, signInVars>>

Kinds == {"start", "confirm", "act"}
Idle == [at |-> "idle", code |-> 0, answer |-> "none", value |-> 0, version |-> 0]
NoVerify == [at |-> "none", challenge |-> 0, code |-> "none"]

FactorInit ==
  /\ version = 2 /\ enrolled = 0 /\ codeUsed = FALSE
  /\ \/ secret = 0 /\ codes = 0
     \/ secret = 1 /\ codes = 2
  /\ page = [a \in Pages |-> [enabled |-> secret # 0, enrollment |-> 0, codes |-> 0,
                              action |-> "none"]]
  /\ call = [a \in Pages |-> [k \in Kinds |-> Idle]]
  /\ told = [a \in Pages |-> [factor |-> version, codes |-> version, late |-> 0]]
  /\ challenge = [h \in Challenges |-> [at |-> "none", failures |-> 0]]
  /\ form = 0 /\ waits = 0
  /\ verify = [v \in Verifies |-> NoVerify]
  /\ signIns = [h \in Challenges |-> 0] /\ spent = 0

-----------------------------------------------------------------------------
(* The pages ask.                                                             *)
Busy(a, k) == call[a][k] # Idle
Sends(a, k, code) ==
  call' = [call EXCEPT ![a][k] = [Idle EXCEPT !.at = "sent", !.code = code]]

\* Set up, or start over; the latter only while no confirmation is under way.
startEnrollment(a) ==
  /\ ~page[a].enabled /\ ~Busy(a, "start")
  /\ page[a].enrollment # 0 => ~Busy(a, "confirm")
  /\ Sends(a, "start", 0)
  /\ page' = [page EXCEPT ![a].codes = 0]
  /\ UNCHANGED <<serverVars, told, signInVars>>

\* The user types the code of the secret this page shows, or a wrong one.
confirmEnrollment(a) ==
  /\ ~page[a].enabled /\ page[a].enrollment # 0 /\ ~Busy(a, "confirm")
  /\ a \in Desktops => ~Busy(a, "act")
  /\ \E code \in {0, page[a].enrollment} : Sends(a, "confirm", code)
  /\ UNCHANGED <<serverVars, page, told, signInVars>>

openAction(a) ==
  /\ page[a].enabled /\ page[a].action = "none"
  /\ \E next \in {"regenerate", "disable"} : page' = [page EXCEPT ![a].action = next]
  /\ UNCHANGED <<serverVars, call, told, signInVars>>

closeAction(a) ==
  /\ page[a].action # "none" /\ ~Busy(a, "act")
  /\ a \in Desktops => ~Busy(a, "confirm")
  /\ page' = [page EXCEPT ![a].action = "none"]
  /\ UNCHANGED <<serverVars, call, told, signInVars>>

\* With a right code, of the authenticator or an unused recovery code, or not.
submitAction(a) ==
  /\ page[a].enabled /\ page[a].action # "none" /\ ~Busy(a, "act")
  /\ a \in Desktops => ~Busy(a, "confirm")
  /\ \E code \in {0, 1} : Sends(a, "act", code)
  /\ UNCHANGED <<serverVars, page, told, signInVars>>

\* "I saved them".
dismissCodes(a) ==
  /\ page[a].codes # 0
  /\ page' = [page EXCEPT ![a].codes = 0]
  /\ UNCHANGED <<serverVars, call, told, signInVars>>

-----------------------------------------------------------------------------
(* The server answers: with what it did, 400 for a wrong code, 409 where      *)
(* there is nothing to do it to; or the answer is lost.                       *)
Changed == version < MaxVersion /\ version' = version + 1
Answers(a, k, answer, value) ==
  \/ call' = [call EXCEPT ![a][k] = [Idle EXCEPT !.at = "answered", !.answer = answer,
                                        !.value = value, !.version = version']]
  \/ call' = [call EXCEPT ![a][k] = [Idle EXCEPT !.at = "answered", !.answer = "lost"]]
ChallengesDeleted ==
  [h \in Challenges |-> IF challenge[h].at = "none" THEN challenge[h]
                        ELSE [challenge[h] EXCEPT !.at = "deleted"]]

Enroll(a) ==
  /\ call[a].start.at = "sent"
  /\ IF secret # 0
     THEN UNCHANGED <<version, enrolled>> /\ Answers(a, "start", "conflict", 0)
     ELSE Changed /\ enrolled' = version' /\ Answers(a, "start", "done", enrolled')
  /\ UNCHANGED <<secret, codes, codeUsed, page, told, signInVars>>

Confirm(a) ==
  LET code == call[a].confirm.code
  IN /\ call[a].confirm.at = "sent"
     /\ IF enrolled = 0
        THEN UNCHANGED <<serverVars, spent>> /\ Answers(a, "confirm", "conflict", 0)
        ELSE IF code # enrolled
        THEN UNCHANGED <<serverVars, spent>> /\ Answers(a, "confirm", "wrong", 0)
        ELSE /\ Changed
             /\ secret' = enrolled /\ enrolled' = 0
             /\ codes' = version' /\ codeUsed' = FALSE /\ spent' = 0
             /\ Answers(a, "confirm", "done", codes')
     /\ UNCHANGED <<page, told, challenge, form, waits, verify, signIns>>

\* RegenerateRecoveryCodes and Disable, as the action open on the page says.
Act(a) ==
  /\ call[a].act.at = "sent"
  /\ IF secret = 0
     THEN UNCHANGED <<serverVars, spent, challenge>> /\ Answers(a, "act", "conflict", 0)
     ELSE IF call[a].act.code = 0
     THEN UNCHANGED <<serverVars, spent, challenge>> /\ Answers(a, "act", "wrong", 0)
     ELSE /\ Changed /\ codeUsed' = FALSE /\ spent' = 0
          /\ IF page[a].action = "regenerate"
             THEN codes' = version' /\ UNCHANGED <<enrolled, secret, challenge>>
             ELSE /\ codes' = 0 /\ enrolled' = 0 /\ secret' = 0
                  /\ challenge' = ChallengesDeleted
          /\ Answers(a, "act", "done", codes')
  /\ UNCHANGED <<page, told, form, waits, verify, signIns>>

\* Ten minutes pass.
EnrollmentExpires ==
  /\ enrolled # 0 /\ Changed /\ enrolled' = 0
  /\ UNCHANGED <<secret, codes, codeUsed, pageVars, signInVars>>

-----------------------------------------------------------------------------
(* The pages hear.                                                            *)
Hears(a, k, answer) == call[a][k].at = "answered" /\ call[a][k].answer = answer
\* The page learns how things stood when the answer was given; that of a start
\* says nothing of the recovery codes, and is late when the factor is shown as on.
Learns(a, k) ==
  /\ told' = [told EXCEPT ![a].factor = call[a][k].version,
                          ![a].codes = IF k = "start" THEN @ ELSE call[a][k].version,
                          ![a].late = IF k # "start" THEN @
                                      ELSE IF page[a].enabled THEN call[a][k].value ELSE 0]
  /\ call' = [call EXCEPT ![a][k] = Idle]

started(a) ==
  /\ Hears(a, "start", "done") /\ Learns(a, "start")
  /\ page' = [page EXCEPT ![a].enrollment = call[a].start.value]
  /\ UNCHANGED <<serverVars, signInVars>>

alreadyEnabled(a) ==
  /\ Hears(a, "start", "conflict") /\ Learns(a, "start")
  /\ page' = [page EXCEPT ![a].enabled = TRUE, ![a].enrollment = 0]
  /\ UNCHANGED <<serverVars, signInVars>>

confirmed(a) ==
  /\ Hears(a, "confirm", "done") /\ Learns(a, "confirm")
  /\ page' = [page EXCEPT ![a].enabled = TRUE, ![a].enrollment = 0,
                          ![a].codes = call[a].confirm.value]
  /\ UNCHANGED <<serverVars, signInVars>>

\* No enrollment: it expired, or another page has confirmed it; an error.
\* The branch for "already enabled" is for an answer Confirm never gives.
enrollmentGone(a) ==
  /\ Hears(a, "confirm", "conflict")
  /\ page' = [page EXCEPT ![a].enrollment = 0]
  /\ call' = [call EXCEPT ![a].confirm = Idle]
  /\ UNCHANGED <<serverVars, told, signInVars>>

acted(a) ==
  /\ Hears(a, "act", "done") /\ Learns(a, "act")
  /\ page' = [page EXCEPT ![a].action = "none", ![a].codes = call[a].act.value,
                          ![a].enabled = IF page[a].action = "disable" THEN FALSE ELSE @]
  /\ UNCHANGED <<serverVars, signInVars>>

notEnabled(a) ==
  /\ Hears(a, "act", "conflict") /\ Learns(a, "act")
  /\ page' = [page EXCEPT ![a].enabled = FALSE, ![a].action = "none"]
  /\ UNCHANGED <<serverVars, signInVars>>

\* A wrong code, or any other error: a message.
refused(a, k) ==
  /\ Hears(a, k, "wrong") \/ Hears(a, k, "lost")
  /\ call' = [call EXCEPT ![a][k] = Idle]
  /\ UNCHANGED <<serverVars, page, told, signInVars>>

PageNext(a) ==
  \/ startEnrollment(a) \/ confirmEnrollment(a) \/ openAction(a) \/ closeAction(a)
  \/ submitAction(a) \/ dismissCodes(a)
  \/ Enroll(a) \/ Confirm(a) \/ Act(a)
  \/ started(a) \/ alreadyEnabled(a) \/ confirmed(a) \/ enrollmentGone(a)
  \/ acted(a) \/ notEnabled(a)
  \/ \E k \in Kinds : refused(a, k)

-----------------------------------------------------------------------------
(* Signing in.                                                                *)

\* The password was right: a challenge, whose token may not arrive.
createMFAChallenge(h) ==
  /\ form = 0 /\ secret # 0 /\ challenge[h].at = "none"
  /\ challenge' = [challenge EXCEPT ![h].at = "open"]
  /\ form' \in {0, h}
  /\ UNCHANGED <<serverVars, pageVars, waits, verify, signIns, spent>>

submitMFA(v) ==
  /\ form # 0 /\ waits = 0 /\ verify[v] = NoVerify
  /\ \E code \in {"totp", "recovery", "wrong"} :
       verify' = [verify EXCEPT ![v] = [at |-> "sent", challenge |-> form, code |-> code]]
  /\ waits' = v
  /\ UNCHANGED <<serverVars, pageVars, challenge, form, signIns, spent>>

backToLogin ==
  /\ form # 0 /\ waits = 0 /\ form' = 0
  /\ UNCHANGED <<serverVars, pageVars, challenge, waits, verify, signIns, spent>>

\* The row of h can be consumed, or its failures counted.
Open(h) == challenge[h].at = "open" /\ challenge[h].failures < MaxFailures

\* The first statement of the transaction takes no lock.
readChallenge(v) ==
  /\ verify[v].at = "sent"
  /\ verify' = [verify EXCEPT ![v].at = IF Open(verify[v].challenge) THEN "read" ELSE "refused"]
  /\ UNCHANGED <<serverVars, pageVars, challenge, form, waits, signIns, spent>>

Failures(h) ==
  LET n == challenge[h].failures + 1
  IN [at |-> IF n >= MaxFailures THEN "consumed" ELSE "open", failures |-> n]

\* A bug to be found: the challenge that was read is consumed as it was.
consumeAsRead(v, h) ==
  /\ challenge' = [challenge EXCEPT ![h].at = "consumed"]
  /\ codeUsed' = (codeUsed \/ verify[v].code = "recovery")
  /\ signIns' = [signIns EXCEPT ![h] = @ + 1]
  /\ spent' = IF verify[v].code = "recovery" THEN spent + 1 ELSE spent
  /\ verify' = [verify EXCEPT ![v].at = "done"]

\* The last statement consumes the row if it still can be; or all is undone.
consume(v, h) ==
  IF Open(h)
  THEN /\ challenge' = [challenge EXCEPT ![h].at = "consumed"]
       /\ codeUsed' = (codeUsed \/ verify[v].code = "recovery")
       /\ signIns' = [signIns EXCEPT ![h] = @ + 1]
       /\ spent' = IF verify[v].code = "recovery" THEN spent + 1 ELSE spent
       /\ verify' = [verify EXCEPT ![v].at = "done"]
  ELSE /\ verify' = [verify EXCEPT ![v].at = "refused"]
       /\ UNCHANGED <<challenge, codeUsed, signIns, spent>>

\* The rest of it, behind the lock of the user's row.
verifyMFAChallenge(v) ==
  LET h == verify[v].challenge
  IN /\ verify[v].at = "read"
     /\ IF /\ secret # 0
           /\ verify[v].code = "totp" \/ (verify[v].code = "recovery" /\ ~codeUsed)
        THEN consume(v, h)
        ELSE /\ challenge' = IF Open(h) THEN [challenge EXCEPT ![h] = Failures(h)]
                             ELSE challenge
             /\ verify' = [verify EXCEPT ![v].at = "refused"]
             /\ UNCHANGED <<codeUsed, signIns, spent>>
     /\ UNCHANGED <<version, enrolled, secret, codes, pageVars, form, waits>>

\* The call is over; the form that waits for it leaves or says that it failed.
verified(v) ==
  /\ verify[v].at \in {"done", "refused"}
  /\ verify' = [verify EXCEPT ![v] = NoVerify]
  /\ IF waits = v
     THEN waits' = 0 /\ form' = IF verify[v].at = "done" THEN 0 ELSE form
     ELSE UNCHANGED <<form, waits>>
  /\ UNCHANGED <<serverVars, pageVars, challenge, signIns, spent>>

\* The form's request times out, and the user may submit again.
timesOut ==
  /\ waits # 0 /\ waits' = 0
  /\ UNCHANGED <<serverVars, pageVars, challenge, form, verify, signIns, spent>>

ChallengeExpires(h) ==
  /\ challenge[h].at = "open"
  /\ challenge' = [challenge EXCEPT ![h].at = "expired"]
  /\ UNCHANGED <<serverVars, pageVars, form, waits, verify, signIns, spent>>

SignInNext ==
  \/ \E h \in Challenges : createMFAChallenge(h) \/ ChallengeExpires(h)
  \/ \E v \in Verifies : submitMFA(v) \/ readChallenge(v) \/ verifyMFAChallenge(v) \/ verified(v)
  \/ backToLogin \/ timesOut

FactorNext ==
  \/ \E a \in Pages : PageNext(a)
  \/ EnrollmentExpires \/ SignInNext

FactorSpec == FactorInit /\ [][FactorNext]_factorVars

-----------------------------------------------------------------------------
\* However the starts, confirmations and actions of several pages overlap, and
\* their answers are delayed, reordered or lost: a page that waits for nothing
\* and was told of the server's last change shows whether the factor is on,
\* offers a secret that can be confirmed, and the recovery codes it tells the
\* user to save are those the server accepts.  After "not enabled" the codes of
\* the removed factor stay on the page: it is excused while the factor is off.
\* So is the secret a late start gave a page that shows the factor on: it is
\* hidden there, and offered again, dead or not, once the page shows it off.
PagesKnowTheFactor ==
  \A a \in Pages :
    (told[a].factor = version /\ \A k \in Kinds : ~Busy(a, k)) =>
      /\ ~(page[a].enabled /\ page[a].enrollment # 0) => (page[a].enabled <=> secret # 0)
      /\ page[a].enrollment \in {0, enrolled, told[a].late}
      /\ told[a].codes = version /\ page[a].enabled => page[a].codes \in {0, codes}

\* However verifications of one challenge, wrong codes, time-outs, retries and
\* the removal of the factor interleave: a challenge signs its user in at most
\* once, and a recovery code is spent exactly if it signed the user in.
ChallengesSignInOnce ==
  /\ \A h \in Challenges : signIns[h] <= 1
  /\ codeUsed <=> spent = 1
  /\ spent <= 1

\* The pages know the factor, and the challenges it makes sign in once.
SecondFactorIsTrue == PagesKnowTheFactor /\ ChallengesSignInOnce
=============================================================================
