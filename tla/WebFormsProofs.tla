--------------------------- MODULE WebFormsProofs -----------------------------
(* What the user asks for: the theorems about SecondFactor, FormDialogs,        *)
(* SettingsForms, WebUploads and ResourceViews, for any pages, dialogs, tasks,  *)
(* runs, reads and changes.                                                     *)
EXTENDS FormDialogs, ResourceViews, SecondFactor, SettingsForms, WebUploads, TLAPS, FiniteSetTheorems, SequenceTheorems, WellFoundedInduction

-------------------------------------------------------------------------------
(* SecondFactor: sign-ins.                                                    *)

States == {"none", "open", "consumed", "deleted", "expired"}
Codes == {"totp", "recovery", "wrong", "none"}

ChallengesTypeOK ==
  /\ challenge \in [Challenges -> [at : States, failures : Nat]]
  /\ signIns \in [Challenges -> {0, 1}]
  /\ form \in Challenges \cup {0}
  /\ verify \in [Verifies -> [at : {"none", "sent", "read", "done", "refused"},
                              challenge : Challenges \cup {0}, code : Codes]]

\* A call that has yet to decide is about a challenge.
CallsHaveChallenges ==
  \A v \in Verifies : verify[v].at \in {"sent", "read"} => verify[v].challenge \in Challenges

\* What signed in once is over, and never opens again.
SignedInIsOver == \A h \in Challenges : signIns[h] = 1 => challenge[h].at \notin {"none", "open"}

\* The recovery code is spent exactly if it signed the user in.
CodeIsCounted ==
  /\ codeUsed \in BOOLEAN /\ spent \in {0, 1}
  /\ codeUsed <=> spent = 1

SignInInv == ChallengesTypeOK /\ CallsHaveChallenges /\ SignedInIsOver
FactorInv == SignInInv /\ CodeIsCounted

\* A code that is replaced or was never there is not spent.
LEMMA FreshCode ==
  ASSUME codeUsed = FALSE, spent = 0
  PROVE CodeIsCounted
<1>1. spent \in {0, 1} /\ spent # 1
      OBVIOUS
<1>2. ~codeUsed /\ codeUsed \in BOOLEAN
      BY Zenon
<1> QED BY <1>1, <1>2, Zenon DEF CodeIsCounted

LEMMA FactorInvInit == FactorInit => FactorInv
<1> SUFFICES ASSUME FactorInit PROVE FactorInv
    OBVIOUS
<1>1. SignInInv
      BY DEF FactorInit, SignInInv, ChallengesTypeOK, CallsHaveChallenges, SignedInIsOver, NoVerify,
             States, Codes
<1>2. codeUsed = FALSE /\ spent = 0
      BY Zenon DEF FactorInit
<1> QED BY <1>1, <1>2, FreshCode, Zenon DEF FactorInv

LEMMA CodeStaysCounted ==
  ASSUME CodeIsCounted, UNCHANGED <<codeUsed, spent>> \/ (codeUsed' = FALSE /\ spent' = 0)
  PROVE CodeIsCounted'
<1>1. CASE UNCHANGED <<codeUsed, spent>>
      BY <1>1, Zenon DEF CodeIsCounted
<1>2. CASE codeUsed' = FALSE /\ spent' = 0
  <2>1. spent' \in {0, 1} /\ spent' # 1
        BY <1>2
  <2>2. ~codeUsed' /\ codeUsed' \in BOOLEAN
        BY <1>2, Zenon
  <2> QED BY <2>1, <2>2, Zenon DEF CodeIsCounted
<1> QED BY <1>1, <1>2

\* Disabling the factor closes every challenge there is and opens none.
LEMMA DeletedStayOver ==
  ASSUME SignInInv, challenge' = ChallengesDeleted, UNCHANGED <<form, verify, signIns>>
  PROVE SignInInv'
<1>1. challenge' \in [Challenges -> [at : States, failures : Nat]]
      BY DEF SignInInv, ChallengesTypeOK, ChallengesDeleted, States
<1>2. \A h \in Challenges : challenge[h].at \notin {"none", "open"} =>
        challenge'[h].at \notin {"none", "open"}
      BY DEF SignInInv, ChallengesTypeOK, ChallengesDeleted
<1> QED BY <1>1, <1>2 DEF SignInInv, ChallengesTypeOK, CallsHaveChallenges, SignedInIsOver

\* The pages' steps that reach the sign-in state are Confirm and Act.
LEMMA PagesKeepInv ==
  ASSUME FactorInv, NEW a \in Pages, PageNext(a)
  PROVE FactorInv'
<1>1. CASE UNCHANGED <<challenge, form, verify, signIns, spent, codeUsed>>
      BY <1>1 DEF FactorInv, SignInInv, ChallengesTypeOK, CallsHaveChallenges, SignedInIsOver,
                  CodeIsCounted
<1>2. CASE Confirm(a)
  <2>1. /\ UNCHANGED <<challenge, form, verify, signIns>>
        /\ UNCHANGED <<codeUsed, spent>> \/ (codeUsed' = FALSE /\ spent' = 0)
        BY <1>2, Zenon DEF Confirm, serverVars
  <2>2. SignInInv'
        BY <2>1 DEF FactorInv, SignInInv, ChallengesTypeOK, CallsHaveChallenges, SignedInIsOver
  <2>3. CodeIsCounted'
        BY <2>1, CodeStaysCounted, Zenon DEF FactorInv
  <2> QED BY <2>2, <2>3 DEF FactorInv
<1>3. CASE Act(a)
  <2>1. /\ UNCHANGED <<form, verify, signIns>>
        /\ UNCHANGED challenge \/ challenge' = ChallengesDeleted
        /\ UNCHANGED <<codeUsed, spent>> \/ (codeUsed' = FALSE /\ spent' = 0)
        BY <1>3, Zenon DEF Act, serverVars
  <2>2. SignInInv'
        BY <2>1, DeletedStayOver
        DEF FactorInv, SignInInv, ChallengesTypeOK, CallsHaveChallenges, SignedInIsOver
  <2>3. CodeIsCounted'
        BY <2>1, CodeStaysCounted, Zenon DEF FactorInv
  <2> QED BY <2>2, <2>3 DEF FactorInv
<1> QED BY <1>1, <1>2, <1>3, Zenon
        DEF PageNext, startEnrollment, confirmEnrollment, openAction, closeAction, submitAction,
            dismissCodes, Enroll, started, alreadyEnabled, confirmed, enrollmentGone, acted,
            notEnabled, refused, serverVars, signInVars

\* A verification consumes an open challenge or counts a failure.
LEMMA VerificationKeepsInv ==
  ASSUME FactorInv, NEW v \in Verifies, verifyMFAChallenge(v)
  PROVE FactorInv'
<1> DEFINE h == verify[v].challenge
<1>1. h \in Challenges /\ verify[v].code \in Codes
      BY DEF verifyMFAChallenge, FactorInv, SignInInv, ChallengesTypeOK, CallsHaveChallenges
<1>2. form' = form
      BY Zenon DEF verifyMFAChallenge
<1>3. CASE /\ Open(h) /\ (verify[v].code = "recovery" => ~codeUsed)
           /\ challenge' = [challenge EXCEPT ![h].at = "consumed"]
           /\ codeUsed' = (codeUsed \/ verify[v].code = "recovery")
           /\ signIns' = [signIns EXCEPT ![h] = @ + 1]
           /\ spent' = IF verify[v].code = "recovery" THEN spent + 1 ELSE spent
           /\ verify' = [verify EXCEPT ![v].at = "done"]
  <2>0. challenge[h].at = "open"
        BY <1>3, Zenon DEF Open
  <2>1. signIns[h] = 0
        BY <1>1, <2>0 DEF FactorInv, SignInInv, SignedInIsOver, ChallengesTypeOK
  <2>2. ChallengesTypeOK'
        BY <1>1, <1>2, <1>3, <2>1 DEF FactorInv, SignInInv, ChallengesTypeOK, States
  <2>3. CallsHaveChallenges' /\ SignedInIsOver'
        BY <1>1, <1>3 DEF FactorInv, SignInInv, ChallengesTypeOK, CallsHaveChallenges, SignedInIsOver
  <2>4. CodeIsCounted'
    <3>1. CASE verify[v].code = "recovery"
      <4>0. spent \in {0, 1} /\ spent # 1
            BY <1>3, <3>1, Zenon DEF FactorInv, CodeIsCounted
      <4>1. spent = 0
            BY <4>0
      <4>2. codeUsed' = TRUE
            BY <1>3, <3>1, Zenon
      <4>3. spent' = 1
            BY <1>3, <3>1, <4>1
      <4> QED BY <4>2, <4>3 DEF CodeIsCounted
    <3>2. CASE verify[v].code # "recovery"
      <4>1. spent' = spent
            BY <1>3, <3>2
      <4>2. codeUsed' = codeUsed
            BY <1>3, <3>2, Zenon DEF FactorInv, CodeIsCounted
      <4> QED BY <4>1, <4>2 DEF FactorInv, CodeIsCounted
    <3> QED BY <3>1, <3>2
  <2> QED BY <2>2, <2>3, <2>4 DEF FactorInv, SignInInv
<1>4. CASE /\ challenge' = challenge \/ (Open(h) /\ challenge' = [challenge EXCEPT ![h] = Failures(h)])
           /\ verify' = [verify EXCEPT ![v].at = "refused"]
           /\ UNCHANGED <<codeUsed, signIns, spent>>
  <2>1. challenge' \in [Challenges -> [at : States, failures : Nat]]
        BY <1>1, <1>4 DEF Failures, FactorInv, SignInInv, ChallengesTypeOK, States
  <2>2. \A g \in Challenges : challenge[g].at \notin {"none", "open"} =>
          challenge'[g] = challenge[g]
        BY <1>1, <1>4 DEF Open, FactorInv, SignInInv, ChallengesTypeOK
  <2>3. ChallengesTypeOK' /\ CallsHaveChallenges'
        BY <1>1, <1>2, <1>4, <2>1 DEF FactorInv, SignInInv, ChallengesTypeOK, CallsHaveChallenges
  <2>4. SignedInIsOver'
        BY <1>4, <2>2 DEF FactorInv, SignInInv, SignedInIsOver
  <2>5. CodeIsCounted'
        BY <1>4 DEF FactorInv, CodeIsCounted
  <2> QED BY <2>3, <2>4, <2>5 DEF FactorInv, SignInInv
<1> QED BY <1>3, <1>4, Zenon DEF verifyMFAChallenge, consume

LEMMA SignInKeepsInv == FactorInv /\ SignInNext => FactorInv'
<1> SUFFICES ASSUME FactorInv, SignInNext PROVE FactorInv'
    OBVIOUS
<1> USE DEF FactorInv, SignInInv, ChallengesTypeOK, CallsHaveChallenges, SignedInIsOver, CodeIsCounted
<1>1. ASSUME NEW h \in Challenges, createMFAChallenge(h) PROVE FactorInv'
      BY <1>1 DEF createMFAChallenge, serverVars, pageVars, States
<1>2. ASSUME NEW h \in Challenges, ChallengeExpires(h) PROVE FactorInv'
      BY <1>2 DEF ChallengeExpires, serverVars, pageVars, States
<1>3. ASSUME NEW v \in Verifies, submitMFA(v) PROVE FactorInv'
      BY <1>3 DEF submitMFA, serverVars, pageVars, Codes
<1>4. ASSUME NEW v \in Verifies, readChallenge(v) PROVE FactorInv'
      BY <1>4 DEF readChallenge, serverVars, pageVars
<1>5. ASSUME NEW v \in Verifies, verified(v) PROVE FactorInv'
      BY <1>5 DEF verified, NoVerify, serverVars, pageVars, Codes
<1>6. CASE backToLogin \/ timesOut
      BY <1>6 DEF backToLogin, timesOut, serverVars, pageVars
<1> QED BY <1>1, <1>2, <1>3, <1>4, <1>5, <1>6, VerificationKeepsInv, Zenon DEF SignInNext

LEMMA FactorInvStep == FactorInv /\ [FactorNext]_factorVars => FactorInv'
<1>1. CASE FactorInv /\ UNCHANGED factorVars
      BY <1>1 DEF factorVars, serverVars, signInVars, FactorInv, SignInInv, ChallengesTypeOK,
                  CallsHaveChallenges, SignedInIsOver, CodeIsCounted
<1>2. CASE FactorInv /\ EnrollmentExpires
      BY <1>2 DEF EnrollmentExpires, signInVars, FactorInv, SignInInv, ChallengesTypeOK,
                  CallsHaveChallenges, SignedInIsOver, CodeIsCounted
<1> QED BY <1>1, <1>2, PagesKeepInv, SignInKeepsInv, Zenon DEF FactorNext

\* However verifications, wrong codes, time-outs, retries and the removal of the
\* factor interleave: a challenge signs its user in at most once, and a recovery
\* code is spent exactly if it signed the user in (internal/auth/mfa.go).
THEOREM ChallengesAlwaysSignInOnce == FactorSpec => []ChallengesSignInOnce
<1>1. FactorInv => ChallengesSignInOnce
      BY DEF FactorInv, SignInInv, ChallengesTypeOK, CodeIsCounted, ChallengesSignInOnce
<1> QED BY <1>1, FactorInvInit, FactorInvStep, PTL DEF FactorSpec

-------------------------------------------------------------------------------
(* SecondFactor: the security pages.                                          *)

CallRecord == [at : {"idle", "sent", "answered"}, code : Nat,
               answer : {"none", "done", "conflict", "wrong", "lost"}, value : Nat, version : Nat]

PageRecord == [enabled : BOOLEAN, enrollment : Nat, codes : Nat,
               action : {"none", "regenerate", "disable"}]
ToldRecord == [factor : Nat, codes : Nat, late : Nat]

PagesTypeOK ==
  /\ version \in Nat /\ enrolled \in Nat /\ secret \in Nat /\ codes \in Nat
  /\ page \in [Pages -> PageRecord]
  /\ call \in [Pages -> [Kinds -> CallRecord]]
  /\ told \in [Pages -> ToldRecord]
  /\ \A a \in Pages : /\ told[a].factor <= version /\ told[a].codes <= version
                      /\ \A k \in Kinds : call[a][k].version <= version

\* What a page can have under way, and when its secret is a late one.
PageIsOrderly(a) ==
  /\ Busy(a, "act") => page[a].action # "none" /\ page[a].enabled
  /\ page[a].enabled /\ (page[a].enrollment # 0 \/ Busy(a, "start")) => ~Busy(a, "confirm")
  /\ page[a].enabled /\ page[a].enrollment # 0 => page[a].enrollment = told[a].late

\* An answer given in the present state of the server.
Says(a, k, answer) == Hears(a, k, answer) /\ call[a][k].version = version

AnswersAreTrue(a) ==
  /\ Says(a, "start", "done") => /\ secret = 0 /\ enrolled # 0
                                /\ call[a].start.value = enrolled
  /\ Says(a, "start", "conflict") => secret # 0
  /\ Says(a, "confirm", "done") => secret # 0 /\ call[a].confirm.value = codes
  /\ Says(a, "act", "done") => IF page[a].action = "disable" THEN secret = 0 /\ call[a].act.value = 0
                               ELSE secret # 0 /\ call[a].act.value = codes
  /\ Says(a, "act", "conflict") => secret = 0

\* What a page knows that was told of the present state.
PageIsCurrent(a) ==
  /\ told[a].factor = version =>
       /\ ~(page[a].enabled /\ page[a].enrollment # 0) => (page[a].enabled <=> secret # 0)
       /\ page[a].enrollment \in {0, enrolled, told[a].late}
  /\ told[a].codes = version =>
       /\ secret # 0 => page[a].codes \in {0, codes}
       /\ secret = 0 /\ page[a].enabled => 
            page[a].codes = 0 \/ (told[a].factor # version /\ ~Busy(a, "start"))

PageInv(a) == PageIsOrderly(a) /\ AnswersAreTrue(a) /\ PageIsCurrent(a)
PagesInv == PagesTypeOK /\ \A a \in Pages : PageInv(a)

LEMMA PageUndisturbed ==
  ASSUME NEW b \in Pages, PageInv(b), page'[b] = page[b], call'[b] = call[b], told'[b] = told[b],
         UNCHANGED <<version, enrolled, secret, codes>>
  PROVE  PageInv(b)'
  BY DEF PageInv, PageIsOrderly, AnswersAreTrue, PageIsCurrent, Says, Hears, Busy, Idle, Kinds

\* What was told of an earlier state is excused.
LEMMA PageOutdated ==
  ASSUME PagesTypeOK, NEW b \in Pages, PageInv(b), page'[b] = page[b], call'[b] = call[b],
         told'[b] = told[b], version' = version + 1
  PROVE  PageInv(b)'
<1>1. \A k \in Kinds : \A w : ~Says(b, k, w)'
  BY DEF PagesTypeOK, Says, Hears, Kinds
<1>2. AnswersAreTrue(b)'
  BY <1>1 DEF AnswersAreTrue, Kinds
<1>3. PageIsCurrent(b)'
  BY DEF PagesTypeOK, PageIsCurrent
<1>4. PageIsOrderly(b)'
  BY DEF PageInv, PageIsOrderly, Busy
<1> QED BY <1>2, <1>3, <1>4 DEF PageInv

LEMMA PagesInvInit == FactorInit => PagesInv
<1> SUFFICES ASSUME FactorInit PROVE PagesInv
  OBVIOUS
<1>1. PagesTypeOK
  BY DEF FactorInit, PagesTypeOK, CallRecord, PageRecord, ToldRecord, Idle, Kinds
<1>2. ASSUME NEW a \in Pages PROVE PageInv(a)
  BY <1>2 DEF FactorInit, PageInv, PageIsOrderly, AnswersAreTrue, PageIsCurrent, Says, Hears, Busy, Idle, Kinds
<1> QED BY <1>1, <1>2 DEF PagesInv


Calls == [Pages -> [Kinds -> CallRecord]]
CallsAreOfThePast == \A a \in Pages, k \in Kinds : call'[a][k].version <= version'

\* A call of kind k and what is known of the others after it is sent ...
LEMMA CallSent ==
  ASSUME PagesTypeOK, NEW a \in Pages, NEW k \in Kinds, NEW code \in Nat, Sends(a, k, code), version' = version
  PROVE  /\ call' \in Calls /\ CallsAreOfThePast
         /\ \A b \in Pages : b # a => call'[b] = call[b]
         /\ \A j \in Kinds : j # k => call'[a][j] = call[a][j]
         /\ \A j \in Kinds : Busy(a, j)' <=> (j = k \/ Busy(a, j))
         /\ \A j \in Kinds : \A w : Says(a, j, w)' <=> (j # k /\ Says(a, j, w))
<1> DEFINE new == [Idle EXCEPT !.at = "sent", !.code = code]
<1>1. new \in CallRecord /\ new.at = "sent" /\ new.version = 0 /\ new # Idle
  BY DEF CallRecord, Idle
<1>2. call \in Calls /\ call' = [call EXCEPT ![a][k] = new]
  BY DEF PagesTypeOK, Calls, Sends
<1> HIDE DEF new
<1>3. call' \in Calls
  BY <1>1, <1>2 DEF Calls
<1>4. call'[a][k] = new /\ (\A j \in Kinds : j # k => call'[a][j] = call[a][j])
  BY <1>2 DEF Calls
<1>5. \A b \in Pages : b # a => call'[b] = call[b]
  BY <1>2 DEF Calls
<1>6. CallsAreOfThePast
  <2>1. version \in Nat /\ \A b \in Pages, j \in Kinds : call[b][j].version <= version
    BY DEF PagesTypeOK
  <2>2. \A b \in Pages, j \in Kinds : call'[b][j] = call[b][j] \/ call'[b][j] = new
    BY <1>4, <1>5
  <2> QED BY <2>1, <2>2, <1>1 DEF CallsAreOfThePast
<1>7. \A j \in Kinds : Busy(a, j)' <=> (j = k \/ Busy(a, j))
  BY <1>1, <1>4 DEF Busy, Idle
<1>8. \A j \in Kinds : \A w : Says(a, j, w)' <=> (j # k /\ Says(a, j, w))
  BY <1>1, <1>4 DEF Says, Hears
<1> QED BY <1>3, <1>4, <1>5, <1>6, <1>7, <1>8

\* ... after the page has done with it ...
LEMMA CallOver ==
  ASSUME PagesTypeOK, NEW a \in Pages, NEW k \in Kinds, call' = [call EXCEPT ![a][k] = Idle], version' = version
  PROVE  /\ call' \in Calls /\ CallsAreOfThePast
         /\ \A b \in Pages : b # a => call'[b] = call[b]
         /\ \A j \in Kinds : j # k => call'[a][j] = call[a][j]
         /\ \A j \in Kinds : Busy(a, j)' <=> (j # k /\ Busy(a, j))
         /\ \A j \in Kinds : \A w : Says(a, j, w)' <=> (j # k /\ Says(a, j, w))
<1>1. Idle \in CallRecord /\ Idle.at = "idle" /\ Idle.version = 0
  BY DEF CallRecord, Idle
<1>2. call \in Calls
  BY DEF PagesTypeOK, Calls
<1>3. call' \in Calls
  BY <1>1, <1>2 DEF Calls
<1>4. call'[a][k] = Idle /\ (\A j \in Kinds : j # k => call'[a][j] = call[a][j])
  BY <1>2 DEF Calls
<1>5. \A b \in Pages : b # a => call'[b] = call[b]
  BY <1>2 DEF Calls
<1>6. CallsAreOfThePast
  BY <1>1, <1>4, <1>5 DEF CallsAreOfThePast, PagesTypeOK
<1>7. \A j \in Kinds : Busy(a, j)' <=> (j # k /\ Busy(a, j))
  BY <1>4 DEF Busy
<1>8. \A j \in Kinds : \A w : Says(a, j, w)' <=> (j # k /\ Says(a, j, w))
  BY <1>1, <1>4 DEF Says, Hears
<1> QED BY <1>3, <1>4, <1>5, <1>6, <1>7, <1>8

\* ... and after it is answered, in a state that may be a new one.
LEMMA CallAnswered ==
  ASSUME PagesTypeOK, NEW a \in Pages, NEW k \in Kinds, NEW answer \in {"done", "conflict", "wrong"},
         NEW value \in Nat, Answers(a, k, answer, value), version' \in {version, version + 1}
  PROVE  /\ call' \in Calls /\ CallsAreOfThePast
         /\ \A b \in Pages : b # a => call'[b] = call[b]
         /\ \A j \in Kinds : j # k => call'[a][j] = call[a][j]
         /\ \A j \in Kinds : Busy(a, j)' <=> (j = k \/ Busy(a, j))
         /\ \A j \in Kinds : \A w : j # k => (Says(a, j, w)' <=> (Says(a, j, w) /\ version' = version))
         /\ \A w : Says(a, k, w)' => w \in {answer, "lost"}
         /\ Says(a, k, answer)' => call'[a][k].value = value
<1>0. PICK new \in {[Idle EXCEPT !.at = "answered", !.answer = answer, !.value = value, !.version = version'],
                    [Idle EXCEPT !.at = "answered", !.answer = "lost"]} :
        call' = [call EXCEPT ![a][k] = new]
  BY DEF Answers
<1>a. version \in Nat /\ version' \in Nat /\ version <= version'
  BY DEF PagesTypeOK
<1>1. /\ new \in CallRecord /\ new.at = "answered" /\ new.version <= version' /\ new # Idle
      /\ new.answer \in {answer, "lost"} /\ (new.answer = answer => new.value = value)
  <2>1. Idle \in CallRecord /\ Idle.version = 0 /\ Idle.at = "idle"
    BY DEF CallRecord, Idle
  <2>2. CASE new = [Idle EXCEPT !.at = "answered", !.answer = "lost"]
    <3>1. new = [at |-> "answered", code |-> 0, answer |-> "lost", value |-> 0, version |-> 0]
      BY <2>2 DEF Idle
    <3>2. new.at = "answered" /\ new.version = 0 /\ new.answer = "lost"
      BY <3>1
    <3>3. new \in CallRecord
      BY <3>1 DEF CallRecord
    <3> QED BY <2>1, <3>2, <3>3, <1>a
  <2>3. CASE new = [Idle EXCEPT !.at = "answered", !.answer = answer, !.value = value, !.version = version']
    <3>1. new = [at |-> "answered", code |-> 0, answer |-> answer, value |-> value, version |-> version']
      BY <2>3 DEF Idle
    <3>2. new.at = "answered" /\ new.version = version' /\ new.answer = answer /\ new.value = value
      BY <3>1
    <3>3. new \in CallRecord
      BY <3>1, <1>a DEF CallRecord
    <3> QED BY <2>1, <3>2, <3>3, <1>a
  <2> QED BY <2>2, <2>3
<1>2. call \in Calls
  BY DEF PagesTypeOK, Calls
<1>3. call' \in Calls
  BY <1>0, <1>1, <1>2 DEF Calls
<1>4. call'[a][k] = new /\ (\A j \in Kinds : j # k => call'[a][j] = call[a][j])
  BY <1>0, <1>2 DEF Calls
<1>5. \A b \in Pages : b # a => call'[b] = call[b]
  BY <1>0, <1>2 DEF Calls
<1>6. CallsAreOfThePast
  <2>1. \A b \in Pages, j \in Kinds : call[b][j].version \in Nat /\ call[b][j].version <= version
    BY DEF PagesTypeOK, CallRecord
  <2>2. \A b \in Pages, j \in Kinds : call'[b][j] = call[b][j] \/ call'[b][j] = new
    BY <1>4, <1>5
  <2> QED BY <2>1, <2>2, <1>1, <1>a DEF CallsAreOfThePast
<1>7. \A j \in Kinds : Busy(a, j)' <=> (j = k \/ Busy(a, j))
  BY <1>1, <1>4 DEF Busy, Idle
<1>8. \A j \in Kinds : \A w : j # k => (Says(a, j, w)' <=> (Says(a, j, w) /\ version' = version))
  <2>1. \A j \in Kinds : call[a][j].version \in Nat /\ call[a][j].version <= version
    BY DEF PagesTypeOK, CallRecord
  <2> QED BY <2>1, <1>a, <1>4 DEF Says, Hears
<1>9. \A w : Says(a, k, w)' => w \in {answer, "lost"}
  BY <1>1, <1>4 DEF Says, Hears
<1>10. Says(a, k, answer)' => call'[a][k].value = value
  BY <1>1, <1>4 DEF Says, Hears
<1> QED BY <1>3, <1>4, <1>5, <1>6, <1>7, <1>8, <1>9, <1>10
\* A step of the page a: what has to be seen of it.
LEMMA PageStep ==
  ASSUME PagesInv, NEW a \in Pages, UNCHANGED <<version, enrolled, secret, codes>>,
         \A b \in Pages : b # a => page'[b] = page[b] /\ call'[b] = call[b] /\ told'[b] = told[b],
         page' \in [Pages -> PageRecord], call' \in Calls, told' \in [Pages -> ToldRecord],
         CallsAreOfThePast, told'[a].factor <= version, told'[a].codes <= version, PageInv(a)'
  PROVE  PagesInv'
<1>1. PagesTypeOK'
  BY DEF PagesInv, PagesTypeOK, Calls, CallsAreOfThePast
<1>2. ASSUME NEW b \in Pages PROVE PageInv(b)'
  <2>1. CASE b = a
    BY <2>1
  <2>2. CASE b # a
    BY <2>2, PageUndisturbed DEF PagesInv
  <2> QED BY <2>1, <2>2
<1> QED BY <1>1, <1>2 DEF PagesInv

LEMMA CallsUnchanged ==
  ASSUME PagesTypeOK, UNCHANGED <<version, call>>
  PROVE  /\ call' \in Calls /\ CallsAreOfThePast
         /\ \A a \in Pages, j \in Kinds : call'[a][j] = call[a][j] /\ (Busy(a, j)' <=> Busy(a, j))
         /\ \A a \in Pages, j \in Kinds : \A w : Says(a, j, w)' <=> Says(a, j, w)
  BY DEF PagesTypeOK, Calls, CallsAreOfThePast, Busy, Says, Hears

LEMMA KindsOfCalls == /\ "start" \in Kinds /\ "confirm" \in Kinds /\ "act" \in Kinds
                      /\ \A k \in Kinds : k = "start" \/ k = "confirm" \/ k = "act"
  BY DEF Kinds

LEMMA closeActionKeepsInv ==
  ASSUME PagesInv, NEW a \in Pages, closeAction(a)
  PROVE  PagesInv'
<1>0. PagesTypeOK /\ PageInv(a) /\ UNCHANGED <<version, enrolled, secret, codes, call, told>>
  BY DEF PagesInv, closeAction, serverVars
<1>1. /\ page' \in [Pages -> PageRecord] /\ \A b \in Pages : b # a => page'[b] = page[b]
      /\ page'[a].enrollment = page[a].enrollment /\ page'[a].codes = page[a].codes
      /\ page'[a].action = "none"
      /\ ~Busy(a, "act")
  BY <1>0 DEF closeAction, PagesTypeOK, PageRecord
<1>2. page'[a].enabled <=> page[a].enabled
  BY <1>0 DEF closeAction, PagesTypeOK, PageRecord
<1>3. PageIsOrderly(a)'
  BY <1>0, <1>1, <1>2, CallsUnchanged, KindsOfCalls DEF PageInv, PageIsOrderly
<1>4. AnswersAreTrue(a)'
  <2>1. \A w : ~Says(a, "act", w)
    BY <1>1 DEF Busy, Says, Hears, Idle
  <2> QED BY <2>1, <1>0, <1>1, <1>2, CallsUnchanged, KindsOfCalls DEF PageInv, AnswersAreTrue
<1>5. PageIsCurrent(a)'
  BY <1>0, <1>1, <1>2, CallsUnchanged, KindsOfCalls DEF PageInv, PageIsCurrent
<1> QED BY <1>0, <1>1, <1>3, <1>4, <1>5, CallsUnchanged, PageStep DEF PageInv, PagesTypeOK
LEMMA startEnrollmentKeepsInv ==
  ASSUME PagesInv, NEW a \in Pages, startEnrollment(a)
  PROVE  PagesInv'
<1>0. PagesTypeOK /\ PageInv(a) /\ UNCHANGED <<version, enrolled, secret, codes, told>>
  BY DEF PagesInv, startEnrollment, serverVars
<1>1. PICK code \in Nat : Sends(a, "start", code)
  BY DEF startEnrollment
<1>2. /\ page' \in [Pages -> PageRecord] /\ \A b \in Pages : b # a => page'[b] = page[b]
      /\ page'[a].enrollment = page[a].enrollment /\ page'[a].action = page[a].action
      /\ page'[a].codes = 0
  BY <1>0 DEF startEnrollment, PagesTypeOK, PageRecord
<1>3. page'[a].enabled <=> page[a].enabled
  BY <1>0 DEF startEnrollment, PagesTypeOK, PageRecord
<1>4. /\ call' \in Calls /\ CallsAreOfThePast
      /\ \A b \in Pages : b # a => call'[b] = call[b]
      /\ \A j \in Kinds : j # "start" => call'[a][j] = call[a][j]
      /\ \A j \in Kinds : Busy(a, j)' <=> (j = "start" \/ Busy(a, j))
      /\ \A j \in Kinds : \A w : Says(a, j, w)' <=> (j # "start" /\ Says(a, j, w))
  BY <1>0, <1>1, CallSent, KindsOfCalls
<1>5. ~page[a].enabled /\ ~Busy(a, "start")
  BY DEF startEnrollment
<1>6. PageIsOrderly(a)'
  BY <1>0, <1>2, <1>3, <1>4, <1>5, KindsOfCalls DEF PageInv, PageIsOrderly
<1>7. AnswersAreTrue(a)'
  BY <1>0, <1>2, <1>3, <1>4, <1>5, KindsOfCalls DEF PageInv, AnswersAreTrue
<1>8. PageIsCurrent(a)'
  BY <1>0, <1>2, <1>3, <1>4, <1>5, KindsOfCalls DEF PageInv, PageIsCurrent
<1> QED BY <1>0, <1>2, <1>4, <1>6, <1>7, <1>8, PageStep DEF PageInv, PagesTypeOK

LEMMA confirmEnrollmentKeepsInv ==
  ASSUME PagesInv, NEW a \in Pages, confirmEnrollment(a)
  PROVE  PagesInv'
<1>0. PagesTypeOK /\ PageInv(a) /\ UNCHANGED <<version, enrolled, secret, codes, page, told>>
  BY DEF PagesInv, confirmEnrollment, serverVars
<1>1. PICK code \in Nat : Sends(a, "confirm", code)
  BY <1>0 DEF confirmEnrollment, PagesTypeOK, PageRecord
<1>2. /\ page' \in [Pages -> PageRecord] /\ \A b \in Pages : b # a => page'[b] = page[b]
      /\ page'[a].enrollment = page[a].enrollment /\ page'[a].action = page[a].action
      /\ page'[a].codes = page[a].codes
  BY <1>0 DEF confirmEnrollment, PagesTypeOK, PageRecord
<1>3. page'[a].enabled <=> page[a].enabled
  BY <1>0 DEF confirmEnrollment, PagesTypeOK, PageRecord
<1>4. /\ call' \in Calls /\ CallsAreOfThePast
      /\ \A b \in Pages : b # a => call'[b] = call[b]
      /\ \A j \in Kinds : j # "confirm" => call'[a][j] = call[a][j]
      /\ \A j \in Kinds : Busy(a, j)' <=> (j = "confirm" \/ Busy(a, j))
      /\ \A j \in Kinds : \A w : Says(a, j, w)' <=> (j # "confirm" /\ Says(a, j, w))
  BY <1>0, <1>1, CallSent, KindsOfCalls
<1>5. ~page[a].enabled /\ ~Busy(a, "confirm")
  BY DEF confirmEnrollment
<1>6. PageIsOrderly(a)'
  BY <1>0, <1>2, <1>3, <1>4, <1>5, KindsOfCalls DEF PageInv, PageIsOrderly
<1>7. AnswersAreTrue(a)'
  BY <1>0, <1>2, <1>3, <1>4, <1>5, KindsOfCalls DEF PageInv, AnswersAreTrue
<1>8. PageIsCurrent(a)'
  BY <1>0, <1>2, <1>3, <1>4, <1>5, KindsOfCalls DEF PageInv, PageIsCurrent
<1> QED BY <1>0, <1>2, <1>4, <1>6, <1>7, <1>8, PageStep DEF PageInv, PagesTypeOK

LEMMA submitActionKeepsInv ==
  ASSUME PagesInv, NEW a \in Pages, submitAction(a)
  PROVE  PagesInv'
<1>0. PagesTypeOK /\ PageInv(a) /\ UNCHANGED <<version, enrolled, secret, codes, page, told>>
  BY DEF PagesInv, submitAction, serverVars
<1>1. PICK code \in Nat : Sends(a, "act", code)
  BY DEF submitAction
<1>2. /\ page' \in [Pages -> PageRecord] /\ \A b \in Pages : b # a => page'[b] = page[b]
      /\ page'[a].enrollment = page[a].enrollment /\ page'[a].action = page[a].action
      /\ page'[a].codes = page[a].codes
  BY <1>0 DEF submitAction, PagesTypeOK, PageRecord
<1>3. page'[a].enabled <=> page[a].enabled
  BY <1>0 DEF submitAction, PagesTypeOK, PageRecord
<1>4. /\ call' \in Calls /\ CallsAreOfThePast
      /\ \A b \in Pages : b # a => call'[b] = call[b]
      /\ \A j \in Kinds : j # "act" => call'[a][j] = call[a][j]
      /\ \A j \in Kinds : Busy(a, j)' <=> (j = "act" \/ Busy(a, j))
      /\ \A j \in Kinds : \A w : Says(a, j, w)' <=> (j # "act" /\ Says(a, j, w))
  BY <1>0, <1>1, CallSent, KindsOfCalls
<1>5. page[a].enabled /\ page[a].action # "none" /\ ~Busy(a, "act")
  BY DEF submitAction
<1>6. PageIsOrderly(a)'
  BY <1>0, <1>2, <1>3, <1>4, <1>5, KindsOfCalls DEF PageInv, PageIsOrderly
<1>7. AnswersAreTrue(a)'
  BY <1>0, <1>2, <1>3, <1>4, <1>5, KindsOfCalls DEF PageInv, AnswersAreTrue
<1>8. PageIsCurrent(a)'
  BY <1>0, <1>2, <1>3, <1>4, <1>5, KindsOfCalls DEF PageInv, PageIsCurrent
<1> QED BY <1>0, <1>2, <1>4, <1>6, <1>7, <1>8, PageStep DEF PageInv, PagesTypeOK

LEMMA openActionKeepsInv ==
  ASSUME PagesInv, NEW a \in Pages, openAction(a)
  PROVE  PagesInv'
<1>0. PagesTypeOK /\ PageInv(a) /\ UNCHANGED <<version, enrolled, secret, codes, call, told>>
  BY DEF PagesInv, openAction, serverVars
<1>1. /\ page' \in [Pages -> PageRecord] /\ \A b \in Pages : b # a => page'[b] = page[b]
      /\ page'[a].enrollment = page[a].enrollment
      /\ page'[a].codes = page[a].codes /\ page'[a].action # "none"
  BY <1>0 DEF openAction, PagesTypeOK, PageRecord
<1>2. page'[a].enabled <=> page[a].enabled
  BY <1>0 DEF openAction, PagesTypeOK, PageRecord
<1>3. PageIsOrderly(a)'
  BY <1>0, <1>1, <1>2, CallsUnchanged, KindsOfCalls DEF PageInv, PageIsOrderly
<1>4. AnswersAreTrue(a)'
  <2>1. page[a].action = "none" /\ \A w : ~Says(a, "act", w)
    BY <1>0 DEF openAction, PageInv, PageIsOrderly, Busy, Says, Hears, Idle
  <2> QED BY <2>1, <1>0, <1>1, <1>2, CallsUnchanged, KindsOfCalls DEF PageInv, AnswersAreTrue
<1>5. PageIsCurrent(a)'
  BY <1>0, <1>1, <1>2, CallsUnchanged, KindsOfCalls DEF PageInv, PageIsCurrent
<1> QED BY <1>0, <1>1, <1>3, <1>4, <1>5, CallsUnchanged, PageStep DEF PageInv, PagesTypeOK

LEMMA dismissCodesKeepsInv ==
  ASSUME PagesInv, NEW a \in Pages, dismissCodes(a)
  PROVE  PagesInv'
<1>0. PagesTypeOK /\ PageInv(a) /\ UNCHANGED <<version, enrolled, secret, codes, call, told>>
  BY DEF PagesInv, dismissCodes, serverVars
<1>1. /\ page' \in [Pages -> PageRecord] /\ \A b \in Pages : b # a => page'[b] = page[b]
      /\ page'[a].enrollment = page[a].enrollment
      /\ page'[a].codes = 0 /\ page'[a].action = page[a].action
  BY <1>0 DEF dismissCodes, PagesTypeOK, PageRecord
<1>2. page'[a].enabled <=> page[a].enabled
  BY <1>0 DEF dismissCodes, PagesTypeOK, PageRecord
<1>3. PageIsOrderly(a)'
  BY <1>0, <1>1, <1>2, CallsUnchanged, KindsOfCalls DEF PageInv, PageIsOrderly
<1>4. AnswersAreTrue(a)'
  BY <1>0, <1>1, <1>2, CallsUnchanged, KindsOfCalls DEF PageInv, AnswersAreTrue
<1>5. PageIsCurrent(a)'
  BY <1>0, <1>1, <1>2, CallsUnchanged, KindsOfCalls DEF PageInv, PageIsCurrent
<1> QED BY <1>0, <1>1, <1>3, <1>4, <1>5, CallsUnchanged, PageStep DEF PageInv, PagesTypeOK

LEMMA startedKeepsInv ==
  ASSUME PagesInv, NEW a \in Pages, started(a)
  PROVE  PagesInv'
<1>0. PagesTypeOK /\ PageInv(a) /\ UNCHANGED <<version, enrolled, secret, codes>>
  BY DEF PagesInv, started, serverVars
<1>1. /\ page' \in [Pages -> PageRecord] /\ \A b \in Pages : b # a => page'[b] = page[b]
      /\ page'[a].codes = page[a].codes /\ page'[a].action = page[a].action
      /\ page'[a].enrollment = call[a].start.value
  <2>1. call[a].start \in CallRecord
    BY <1>0, KindsOfCalls DEF PagesTypeOK
  <2> QED BY <1>0, <2>1 DEF started, PagesTypeOK, PageRecord, CallRecord
<1>2. page'[a].enabled <=> page[a].enabled
  BY <1>0 DEF started, PagesTypeOK, PageRecord
<1>3. /\ call' \in Calls /\ CallsAreOfThePast
      /\ \A b \in Pages : b # a => call'[b] = call[b]
      /\ \A j \in Kinds : j # "start" => call'[a][j] = call[a][j]
      /\ \A j \in Kinds : Busy(a, j)' <=> (j # "start" /\ Busy(a, j))
      /\ \A j \in Kinds : \A w : Says(a, j, w)' <=> (j # "start" /\ Says(a, j, w))
  <2>1. call' = [call EXCEPT ![a]["start"] = Idle]
    BY DEF started, Learns
  <2> QED BY <1>0, <2>1, CallOver, KindsOfCalls
<1>4. /\ told' \in [Pages -> ToldRecord] /\ \A b \in Pages : b # a => told'[b] = told[b]
      /\ told'[a].factor = call[a].start.version
      /\ told'[a].codes = told[a].codes
      /\ (page[a].enabled => told'[a].late = call[a].start.value)
  <2>1. call[a].start \in CallRecord
    BY <1>0, KindsOfCalls DEF PagesTypeOK
  <2>2. told' = [told EXCEPT ![a].factor = call[a].start.version,
                          ![a].codes = @,
                          ![a].late = IF page[a].enabled THEN call[a].start.value ELSE 0]
    BY DEF started, Learns
  <2> QED BY <1>0, <2>1, <2>2 DEF PagesTypeOK, CallRecord, ToldRecord
<1>5. Busy(a, "start") /\ (Says(a, "start", "done") <=> call[a].start.version = version)
  BY <1>0 DEF started, Busy, Hears, Says, Idle
<1>a. call[a].start.version <= version /\ told[a].factor <= version /\ told[a].codes <= version
  BY <1>0, KindsOfCalls DEF PagesTypeOK
<1>6. PageIsOrderly(a)'
  BY <1>0, <1>1, <1>2, <1>3, <1>4, <1>5, KindsOfCalls DEF PageInv, PageIsOrderly
<1>7. AnswersAreTrue(a)'
  BY <1>0, <1>1, <1>2, <1>3, <1>4, <1>5, KindsOfCalls DEF PageInv, AnswersAreTrue
<1>8. PageIsCurrent(a)'
  <2>1. call[a].start.version = version => secret = 0 /\ enrolled # 0 /\ call[a].start.value = enrolled
    BY <1>0, <1>5 DEF PageInv, AnswersAreTrue
  <2>2. told'[a].codes = version /\ secret # 0 => page'[a].codes \in {0, codes}
    BY <1>0, <1>1, <1>4 DEF PageInv, PageIsCurrent
  <2>3. told'[a].codes = version /\ secret = 0 /\ page'[a].enabled => page'[a].codes = 0
    BY <1>0, <1>1, <1>2, <1>4, <1>5 DEF PageInv, PageIsCurrent
  <2>4. told'[a].factor = version => secret = 0 /\ page'[a].enrollment = enrolled /\ enrolled # 0
    BY <2>1, <1>1, <1>4
  <2> QED BY <2>2, <2>3, <2>4, <1>0 DEF PageIsCurrent
<1> QED BY <1>0, <1>a, <1>1, <1>3, <1>4, <1>6, <1>7, <1>8, PageStep DEF PageInv, PagesTypeOK

LEMMA alreadyEnabledKeepsInv ==
  ASSUME PagesInv, NEW a \in Pages, alreadyEnabled(a)
  PROVE  PagesInv'
<1>0. PagesTypeOK /\ PageInv(a) /\ UNCHANGED <<version, enrolled, secret, codes>>
  BY DEF PagesInv, alreadyEnabled, serverVars
<1>1. /\ page' \in [Pages -> PageRecord] /\ \A b \in Pages : b # a => page'[b] = page[b]
      /\ page'[a].codes = page[a].codes /\ page'[a].action = page[a].action /\ page'[a].enrollment = 0
  <2>1. call[a].start \in CallRecord
    BY <1>0, KindsOfCalls DEF PagesTypeOK
  <2> QED BY <1>0, <2>1 DEF alreadyEnabled, PagesTypeOK, PageRecord, CallRecord
<1>2. page'[a].enabled
  BY <1>0 DEF alreadyEnabled, PagesTypeOK, PageRecord
<1>3. /\ call' \in Calls /\ CallsAreOfThePast
      /\ \A b \in Pages : b # a => call'[b] = call[b]
      /\ \A j \in Kinds : j # "start" => call'[a][j] = call[a][j]
      /\ \A j \in Kinds : Busy(a, j)' <=> (j # "start" /\ Busy(a, j))
      /\ \A j \in Kinds : \A w : Says(a, j, w)' <=> (j # "start" /\ Says(a, j, w))
  <2>1. call' = [call EXCEPT ![a]["start"] = Idle]
    BY DEF alreadyEnabled, Learns
  <2> QED BY <1>0, <2>1, CallOver, KindsOfCalls
<1>4. /\ told' \in [Pages -> ToldRecord] /\ \A b \in Pages : b # a => told'[b] = told[b]
      /\ told'[a].factor = call[a].start.version
      /\ told'[a].codes = told[a].codes
      /\ (page[a].enabled => told'[a].late = call[a].start.value)
  <2>1. call[a].start \in CallRecord
    BY <1>0, KindsOfCalls DEF PagesTypeOK
  <2>2. told' = [told EXCEPT ![a].factor = call[a].start.version,
                          ![a].codes = @,
                          ![a].late = IF page[a].enabled THEN call[a].start.value ELSE 0]
    BY DEF alreadyEnabled, Learns
  <2> QED BY <1>0, <2>1, <2>2 DEF PagesTypeOK, CallRecord, ToldRecord
<1>5. Busy(a, "start") /\ (Says(a, "start", "conflict") <=> call[a].start.version = version)
  BY <1>0 DEF alreadyEnabled, Busy, Hears, Says, Idle
<1>a. call[a].start.version <= version /\ told[a].factor <= version /\ told[a].codes <= version
  BY <1>0, KindsOfCalls DEF PagesTypeOK
<1>6. PageIsOrderly(a)'
  BY <1>0, <1>1, <1>2, <1>3, <1>4, <1>5, KindsOfCalls DEF PageInv, PageIsOrderly
<1>7. AnswersAreTrue(a)'
  BY <1>0, <1>1, <1>2, <1>3, <1>4, <1>5, KindsOfCalls DEF PageInv, AnswersAreTrue
<1>8. PageIsCurrent(a)'
  <2>1. call[a].start.version = version => secret # 0
    BY <1>0, <1>5 DEF PageInv, AnswersAreTrue
  <2>2. told'[a].codes = version /\ secret # 0 => page'[a].codes \in {0, codes}
    BY <1>0, <1>1, <1>4 DEF PageInv, PageIsCurrent
  <2>3. secret = 0 => told'[a].factor # version /\ ~Busy(a, "start")'
    BY <2>1, <1>3, <1>4, KindsOfCalls
  <2>4. told'[a].factor = version => secret # 0
    BY <2>1, <1>4
  <2>5. page'[a].enabled /\ page'[a].enrollment = 0
    BY <1>1, <1>2
  <2> QED BY <2>2, <2>3, <2>4, <2>5, <1>0 DEF PageIsCurrent
<1> QED BY <1>0, <1>a, <1>1, <1>3, <1>4, <1>6, <1>7, <1>8, PageStep DEF PageInv, PagesTypeOK

LEMMA confirmedKeepsInv ==
  ASSUME PagesInv, NEW a \in Pages, confirmed(a)
  PROVE  PagesInv'
<1>0. PagesTypeOK /\ PageInv(a) /\ UNCHANGED <<version, enrolled, secret, codes>>
  BY DEF PagesInv, confirmed, serverVars
<1>1. /\ page' \in [Pages -> PageRecord] /\ \A b \in Pages : b # a => page'[b] = page[b]
      /\ page'[a].action = page[a].action /\ page'[a].enrollment = 0
      /\ page'[a].codes = call[a].confirm.value
  <2>1. PICK value \in Nat : value = call[a].confirm.value
    BY <1>0, KindsOfCalls DEF PagesTypeOK, CallRecord
  <2>2. page \in [Pages -> PageRecord]
    BY <1>0 DEF PagesTypeOK
  <2> QED BY <2>1, <2>2 DEF confirmed, PageRecord
<1>2. page'[a].enabled
  BY <1>0 DEF confirmed, PagesTypeOK, PageRecord
<1>3. /\ call' \in Calls /\ CallsAreOfThePast
      /\ \A b \in Pages : b # a => call'[b] = call[b]
      /\ \A j \in Kinds : j # "confirm" => call'[a][j] = call[a][j]
      /\ \A j \in Kinds : Busy(a, j)' <=> (j # "confirm" /\ Busy(a, j))
      /\ \A j \in Kinds : \A w : Says(a, j, w)' <=> (j # "confirm" /\ Says(a, j, w))
  <2>1. call' = [call EXCEPT ![a]["confirm"] = Idle]
    BY DEF confirmed, Learns
  <2> QED BY <1>0, <2>1, CallOver, KindsOfCalls
<1>4. /\ told' \in [Pages -> ToldRecord] /\ \A b \in Pages : b # a => told'[b] = told[b]
      /\ told'[a].factor = call[a].confirm.version
      /\ told'[a].codes = call[a].confirm.version
      /\ told'[a].late = told[a].late
  <2>1. call[a].confirm \in CallRecord
    BY <1>0, KindsOfCalls DEF PagesTypeOK
  <2>2. told' = [told EXCEPT ![a].factor = call[a].confirm.version,
                          ![a].codes = call[a].confirm.version,
                          ![a].late = @]
    BY DEF confirmed, Learns
  <2> QED BY <1>0, <2>1, <2>2 DEF PagesTypeOK, CallRecord, ToldRecord
<1>5. Busy(a, "confirm") /\ (Says(a, "confirm", "done") <=> call[a].confirm.version = version)
  BY <1>0 DEF confirmed, Busy, Hears, Says, Idle
<1>a. call[a].confirm.version <= version /\ told[a].factor <= version /\ told[a].codes <= version
  BY <1>0, KindsOfCalls DEF PagesTypeOK
<1>6. PageIsOrderly(a)'
  BY <1>0, <1>1, <1>2, <1>3, <1>4, <1>5, KindsOfCalls DEF PageInv, PageIsOrderly
<1>7. AnswersAreTrue(a)'
  BY <1>0, <1>1, <1>2, <1>3, <1>4, <1>5, KindsOfCalls DEF PageInv, AnswersAreTrue
<1>8. PageIsCurrent(a)'
  BY <1>0, <1>1, <1>2, <1>3, <1>4, <1>5, KindsOfCalls DEF PageInv, PageIsCurrent, AnswersAreTrue, PageIsOrderly
<1> QED BY <1>0, <1>a, <1>1, <1>3, <1>4, <1>6, <1>7, <1>8, PageStep DEF PageInv, PagesTypeOK

LEMMA enrollmentGoneKeepsInv ==
  ASSUME PagesInv, NEW a \in Pages, enrollmentGone(a)
  PROVE  PagesInv'
<1>0. PagesTypeOK /\ PageInv(a) /\ UNCHANGED <<version, enrolled, secret, codes, told>>
  BY DEF PagesInv, enrollmentGone, serverVars
<1>1. /\ page' \in [Pages -> PageRecord] /\ \A b \in Pages : b # a => page'[b] = page[b]
      /\ page'[a].codes = page[a].codes /\ page'[a].action = page[a].action /\ page'[a].enrollment = 0
  <2>1. call[a].confirm \in CallRecord
    BY <1>0, KindsOfCalls DEF PagesTypeOK
  <2> QED BY <1>0, <2>1 DEF enrollmentGone, PagesTypeOK, PageRecord, CallRecord
<1>2. page'[a].enabled <=> page[a].enabled
  BY <1>0 DEF enrollmentGone, PagesTypeOK, PageRecord
<1>3. /\ call' \in Calls /\ CallsAreOfThePast
      /\ \A b \in Pages : b # a => call'[b] = call[b]
      /\ \A j \in Kinds : j # "confirm" => call'[a][j] = call[a][j]
      /\ \A j \in Kinds : Busy(a, j)' <=> (j # "confirm" /\ Busy(a, j))
      /\ \A j \in Kinds : \A w : Says(a, j, w)' <=> (j # "confirm" /\ Says(a, j, w))
  <2>1. call' = [call EXCEPT ![a]["confirm"] = Idle]
    BY DEF enrollmentGone, Learns
  <2> QED BY <1>0, <2>1, CallOver, KindsOfCalls
<1>4. told' \in [Pages -> ToldRecord]
  BY <1>0 DEF PagesTypeOK
<1>5. Busy(a, "confirm") /\ (Says(a, "confirm", "conflict") <=> call[a].confirm.version = version)
  BY <1>0 DEF enrollmentGone, Busy, Hears, Says, Idle
<1>a. call[a].confirm.version <= version /\ told[a].factor <= version /\ told[a].codes <= version
  BY <1>0, KindsOfCalls DEF PagesTypeOK
<1>6. PageIsOrderly(a)'
  BY <1>0, <1>1, <1>2, <1>3, <1>4, <1>5, KindsOfCalls DEF PageInv, PageIsOrderly
<1>7. AnswersAreTrue(a)'
  BY <1>0, <1>1, <1>2, <1>3, <1>4, <1>5, KindsOfCalls DEF PageInv, AnswersAreTrue
<1>8. PageIsCurrent(a)'
  BY <1>0, <1>1, <1>2, <1>3, <1>4, <1>5, KindsOfCalls DEF PageInv, PageIsCurrent, AnswersAreTrue, PageIsOrderly
<1> QED BY <1>0, <1>a, <1>1, <1>3, <1>4, <1>6, <1>7, <1>8, PageStep DEF PageInv, PagesTypeOK

LEMMA actedKeepsInv ==
  ASSUME PagesInv, NEW a \in Pages, acted(a)
  PROVE  PagesInv'
<1>0. PagesTypeOK /\ PageInv(a) /\ UNCHANGED <<version, enrolled, secret, codes>>
  BY DEF PagesInv, acted, serverVars
<1>1. /\ page' \in [Pages -> PageRecord] /\ \A b \in Pages : b # a => page'[b] = page[b]
      /\ page'[a].enrollment = page[a].enrollment /\ page'[a].action = "none"
      /\ page'[a].codes = call[a].act.value
  <2>1. PICK value \in Nat : value = call[a].act.value
    BY <1>0, KindsOfCalls DEF PagesTypeOK, CallRecord
  <2>2. page \in [Pages -> PageRecord]
    BY <1>0 DEF PagesTypeOK
  <2> QED BY <2>1, <2>2 DEF acted, PageRecord
<1>2. page'[a].enabled <=> (page[a].enabled /\ page[a].action # "disable")
  BY <1>0 DEF acted, PagesTypeOK, PageRecord
<1>3. /\ call' \in Calls /\ CallsAreOfThePast
      /\ \A b \in Pages : b # a => call'[b] = call[b]
      /\ \A j \in Kinds : j # "act" => call'[a][j] = call[a][j]
      /\ \A j \in Kinds : Busy(a, j)' <=> (j # "act" /\ Busy(a, j))
      /\ \A j \in Kinds : \A w : Says(a, j, w)' <=> (j # "act" /\ Says(a, j, w))
  <2>1. call' = [call EXCEPT ![a]["act"] = Idle]
    BY DEF acted, Learns
  <2> QED BY <1>0, <2>1, CallOver, KindsOfCalls
<1>4. /\ told' \in [Pages -> ToldRecord] /\ \A b \in Pages : b # a => told'[b] = told[b]
      /\ told'[a].factor = call[a].act.version
      /\ told'[a].codes = call[a].act.version
      /\ told'[a].late = told[a].late
  <2>1. call[a].act \in CallRecord
    BY <1>0, KindsOfCalls DEF PagesTypeOK
  <2>2. told' = [told EXCEPT ![a].factor = call[a].act.version,
                          ![a].codes = call[a].act.version,
                          ![a].late = @]
    BY DEF acted, Learns
  <2> QED BY <1>0, <2>1, <2>2 DEF PagesTypeOK, CallRecord, ToldRecord
<1>5. Busy(a, "act") /\ (Says(a, "act", "done") <=> call[a].act.version = version)
  BY <1>0 DEF acted, Busy, Hears, Says, Idle
<1>a. call[a].act.version <= version /\ told[a].factor <= version /\ told[a].codes <= version
  BY <1>0, KindsOfCalls DEF PagesTypeOK
<1>6. PageIsOrderly(a)'
  BY <1>0, <1>1, <1>2, <1>3, <1>4, <1>5, KindsOfCalls DEF PageInv, PageIsOrderly
<1>7. AnswersAreTrue(a)'
  BY <1>0, <1>1, <1>2, <1>3, <1>4, <1>5, KindsOfCalls DEF PageInv, AnswersAreTrue
<1>8. PageIsCurrent(a)'
  BY <1>0, <1>1, <1>2, <1>3, <1>4, <1>5, KindsOfCalls DEF PageInv, PageIsCurrent, AnswersAreTrue, PageIsOrderly
<1> QED BY <1>0, <1>a, <1>1, <1>3, <1>4, <1>6, <1>7, <1>8, PageStep DEF PageInv, PagesTypeOK

LEMMA notEnabledKeepsInv ==
  ASSUME PagesInv, NEW a \in Pages, notEnabled(a)
  PROVE  PagesInv'
<1>0. PagesTypeOK /\ PageInv(a) /\ UNCHANGED <<version, enrolled, secret, codes>>
  BY DEF PagesInv, notEnabled, serverVars
<1>1. /\ page' \in [Pages -> PageRecord] /\ \A b \in Pages : b # a => page'[b] = page[b]
      /\ page'[a].enrollment = page[a].enrollment /\ page'[a].codes = page[a].codes /\ page'[a].action = "none"
  <2>1. call[a].act \in CallRecord
    BY <1>0, KindsOfCalls DEF PagesTypeOK
  <2> QED BY <1>0, <2>1 DEF notEnabled, PagesTypeOK, PageRecord, CallRecord
<1>2. ~page'[a].enabled
  BY <1>0 DEF notEnabled, PagesTypeOK, PageRecord
<1>3. /\ call' \in Calls /\ CallsAreOfThePast
      /\ \A b \in Pages : b # a => call'[b] = call[b]
      /\ \A j \in Kinds : j # "act" => call'[a][j] = call[a][j]
      /\ \A j \in Kinds : Busy(a, j)' <=> (j # "act" /\ Busy(a, j))
      /\ \A j \in Kinds : \A w : Says(a, j, w)' <=> (j # "act" /\ Says(a, j, w))
  <2>1. call' = [call EXCEPT ![a]["act"] = Idle]
    BY DEF notEnabled, Learns
  <2> QED BY <1>0, <2>1, CallOver, KindsOfCalls
<1>4. /\ told' \in [Pages -> ToldRecord] /\ \A b \in Pages : b # a => told'[b] = told[b]
      /\ told'[a].factor = call[a].act.version
      /\ told'[a].codes = call[a].act.version
      /\ told'[a].late = told[a].late
  <2>1. call[a].act \in CallRecord
    BY <1>0, KindsOfCalls DEF PagesTypeOK
  <2>2. told' = [told EXCEPT ![a].factor = call[a].act.version,
                          ![a].codes = call[a].act.version,
                          ![a].late = @]
    BY DEF notEnabled, Learns
  <2> QED BY <1>0, <2>1, <2>2 DEF PagesTypeOK, CallRecord, ToldRecord
<1>5. Busy(a, "act") /\ (Says(a, "act", "conflict") <=> call[a].act.version = version)
  BY <1>0 DEF notEnabled, Busy, Hears, Says, Idle
<1>a. call[a].act.version <= version /\ told[a].factor <= version /\ told[a].codes <= version
  BY <1>0, KindsOfCalls DEF PagesTypeOK
<1>6. PageIsOrderly(a)'
  BY <1>0, <1>1, <1>2, <1>3, <1>4, <1>5, KindsOfCalls DEF PageInv, PageIsOrderly
<1>7. AnswersAreTrue(a)'
  BY <1>0, <1>1, <1>2, <1>3, <1>4, <1>5, KindsOfCalls DEF PageInv, AnswersAreTrue
<1>8. PageIsCurrent(a)'
  BY <1>0, <1>1, <1>2, <1>3, <1>4, <1>5, KindsOfCalls DEF PageInv, PageIsCurrent, AnswersAreTrue, PageIsOrderly
<1> QED BY <1>0, <1>a, <1>1, <1>3, <1>4, <1>6, <1>7, <1>8, PageStep DEF PageInv, PagesTypeOK

LEMMA refusedKeepsInv ==
  ASSUME PagesInv, NEW a \in Pages, NEW k \in Kinds, refused(a, k)
  PROVE  PagesInv'
<1>0. PagesTypeOK /\ PageInv(a) /\ UNCHANGED <<version, enrolled, secret, codes, page, told>>
  BY DEF PagesInv, refused, serverVars
<1>1. /\ call' \in Calls /\ CallsAreOfThePast
      /\ \A b \in Pages : b # a => call'[b] = call[b]
      /\ \A j \in Kinds : j # k => call'[a][j] = call[a][j]
      /\ \A j \in Kinds : Busy(a, j)' <=> (j # k /\ Busy(a, j))
      /\ \A j \in Kinds : \A w : Says(a, j, w)' <=> (j # k /\ Says(a, j, w))
  <2>1. call' = [call EXCEPT ![a][k] = Idle]
    BY DEF refused
  <2> QED BY <1>0, <2>1, CallOver
<1>2. PageIsOrderly(a)'
  BY <1>0, <1>1, KindsOfCalls DEF PageInv, PageIsOrderly
<1>3. AnswersAreTrue(a)'
  BY <1>0, <1>1, KindsOfCalls DEF PageInv, AnswersAreTrue
<1>4. PageIsCurrent(a)'
  BY <1>0, <1>1, KindsOfCalls DEF PageInv, PageIsCurrent
<1> QED BY <1>0, <1>1, <1>2, <1>3, <1>4, PageStep DEF PageInv, PagesTypeOK

\* What an answer says of the state it is given in.
AnswerFits(action, k, answer, value) ==
  /\ k = "start" /\ answer = "done" => secret = 0 /\ enrolled # 0 /\ value = enrolled
  /\ k = "start" /\ answer = "conflict" => secret # 0
  /\ k = "confirm" /\ answer = "done" => secret # 0 /\ value = codes
  /\ k = "act" /\ answer = "done" => IF action = "disable" THEN secret = 0 /\ value = 0
                                     ELSE secret # 0 /\ value = codes
  /\ k = "act" /\ answer = "conflict" => secret = 0

\* The server answers truly, and outdates what it said before if it changed.
LEMMA AnswerStep ==
  ASSUME PagesInv, NEW a \in Pages, NEW k \in Kinds, NEW answer \in {"done", "conflict", "wrong"},
         NEW value \in Nat, call[a][k].at = "sent", Answers(a, k, answer, value), UNCHANGED <<page, told>>,
         \/ UNCHANGED <<version, enrolled, secret, codes>>
         \/ version' = version + 1 /\ enrolled' \in Nat /\ secret' \in Nat /\ codes' \in Nat,
         AnswerFits(page[a].action, k, answer, value)'
  PROVE  PagesInv'
<1>0. PagesTypeOK /\ \A b \in Pages : PageInv(b)
  BY DEF PagesInv
<1>1. version \in Nat /\ version' \in {version, version + 1} /\ Busy(a, k)
  BY <1>0 DEF PagesTypeOK, Busy, Idle
<1>2. /\ call' \in Calls /\ CallsAreOfThePast
      /\ \A b \in Pages : b # a => call'[b] = call[b]
      /\ \A j \in Kinds : Busy(a, j)' <=> Busy(a, j)
      /\ \A j \in Kinds : j # k => call'[a][j] = call[a][j]
      /\ \A j \in Kinds : \A w : j # k => (Says(a, j, w)' <=> (Says(a, j, w) /\ version' = version))
      /\ \A w : Says(a, k, w)' => w \in {answer, "lost"}
      /\ Says(a, k, answer)' => call'[a][k].value = value
  BY <1>0, <1>1, CallAnswered
<1>3. PagesTypeOK'
  <2>1. version' \in Nat /\ enrolled' \in Nat /\ secret' \in Nat /\ codes' \in Nat /\ version <= version'
    BY <1>0, <1>1 DEF PagesTypeOK
  <2>2. \A b \in Pages : told[b].factor <= version' /\ told[b].codes <= version'
    BY <1>0, <2>1, <1>1 DEF PagesTypeOK, ToldRecord
  <2>3. page' \in [Pages -> PageRecord] /\ told' \in [Pages -> ToldRecord] /\ told' = told
    BY <1>0 DEF PagesTypeOK
  <2> QED BY <2>1, <2>2, <2>3, <1>2 DEF PagesTypeOK, Calls, CallsAreOfThePast
<1>4. PageIsOrderly(a)'
  BY <1>0, <1>2, KindsOfCalls DEF PageInv, PageIsOrderly
<1>5. AnswersAreTrue(a)'
  <2>1. AnswersAreTrue(a)
    BY <1>0 DEF PageInv
  <2>2. ASSUME Says(a, "start", "done")'
        PROVE  secret' = 0 /\ enrolled' # 0 /\ call'[a].start.value = enrolled'
    BY <2>1, <2>2, <1>1, <1>2, KindsOfCalls DEF AnswersAreTrue, AnswerFits
  <2>3. ASSUME Says(a, "start", "conflict")' PROVE secret' # 0
    BY <2>1, <2>3, <1>1, <1>2, KindsOfCalls DEF AnswersAreTrue, AnswerFits
  <2>4. ASSUME Says(a, "confirm", "done")' PROVE secret' # 0 /\ call'[a].confirm.value = codes'
    BY <2>1, <2>4, <1>1, <1>2, KindsOfCalls DEF AnswersAreTrue, AnswerFits
  <2>5. ASSUME Says(a, "act", "done")'
        PROVE  IF page'[a].action = "disable" THEN secret' = 0 /\ call'[a].act.value = 0
               ELSE secret' # 0 /\ call'[a].act.value = codes'
    BY <2>1, <2>5, <1>1, <1>2, KindsOfCalls DEF AnswersAreTrue, AnswerFits
  <2>6. ASSUME Says(a, "act", "conflict")' PROVE secret' = 0
    BY <2>1, <2>6, <1>1, <1>2, KindsOfCalls DEF AnswersAreTrue, AnswerFits
  <2> QED BY <2>2, <2>3, <2>4, <2>5, <2>6 DEF AnswersAreTrue
<1>6. PageIsCurrent(a)'
  <2>1. CASE version' = version
    BY <2>1, <1>0, <1>1, <1>2, KindsOfCalls DEF PageInv, PageIsCurrent
  <2>2. CASE version' = version + 1
    <3>1. told'[a].factor # version' /\ told'[a].codes # version'
      BY <2>2, <1>0 DEF PagesTypeOK, ToldRecord
    <3> QED BY <3>1 DEF PageIsCurrent
  <2> QED BY <1>1, <2>1, <2>2
<1>7. ASSUME NEW b \in Pages, b # a PROVE PageInv(b)'
  <2>0. call'[b] = call[b] /\ page'[b] = page[b] /\ told'[b] = told[b] /\ PageInv(b)
    BY <1>0, <1>2, <1>7
  <2>1. CASE version' = version + 1
    BY <2>0, <2>1, <1>0, PageOutdated
  <2>2. CASE UNCHANGED <<version, enrolled, secret, codes>>
    BY <2>0, <2>2, PageUndisturbed
  <2> QED BY <2>1, <2>2
<1> QED BY <1>3, <1>4, <1>5, <1>6, <1>7 DEF PageInv, PagesInv

LEMMA EnrollKeepsInv ==
  ASSUME PagesInv, NEW a \in Pages, Enroll(a)
  PROVE  PagesInv'
<1>0. version \in Nat /\ enrolled \in Nat /\ secret \in Nat /\ codes \in Nat /\ "start" \in Kinds
  BY KindsOfCalls DEF PagesInv, PagesTypeOK
<1>1. call[a]["start"].at = "sent" /\ UNCHANGED <<secret, codes, page, told>>
  BY DEF Enroll
<1>2. CASE secret # 0
  <2>1. UNCHANGED <<version, enrolled>> /\ Answers(a, "start", "conflict", 0)
    BY <1>2 DEF Enroll
  <2>2. AnswerFits(page[a].action, "start", "conflict", 0)'
    BY <1>1, <1>2 DEF AnswerFits
  <2> QED BY <1>0, <1>1, <2>1, <2>2, AnswerStep
<1>3. CASE secret = 0
  <2>1. version' = version + 1 /\ enrolled' = version' /\ Answers(a, "start", "done", enrolled')
    BY <1>3 DEF Enroll, Changed
  <2>2. enrolled' \in Nat /\ enrolled' # 0
    BY <1>0, <2>1
  <2>3. PICK value \in Nat : value = enrolled'
    BY <2>2
  <2>4. AnswerFits(page[a].action, "start", "done", value)'
    BY <1>1, <1>3, <2>2, <2>3 DEF AnswerFits
  <2>5. Answers(a, "start", "done", value)
    BY <2>1, <2>3
  <2> QED BY <1>0, <1>1, <2>1, <2>2, <2>4, <2>5, AnswerStep
<1> QED BY <1>2, <1>3

LEMMA ConfirmKeepsInv ==
  ASSUME PagesInv, NEW a \in Pages, Confirm(a)
  PROVE  PagesInv'
<1>0. version \in Nat /\ enrolled \in Nat /\ secret \in Nat /\ codes \in Nat /\ "confirm" \in Kinds
  BY KindsOfCalls DEF PagesInv, PagesTypeOK
<1>1. call[a]["confirm"].at = "sent" /\ UNCHANGED <<page, told>>
  BY DEF Confirm
<1>2. CASE enrolled = 0
  <2>1. UNCHANGED <<version, enrolled, secret, codes>> /\ Answers(a, "confirm", "conflict", 0)
    BY <1>2 DEF Confirm, serverVars
  <2>2. AnswerFits(page[a].action, "confirm", "conflict", 0)'
    BY DEF AnswerFits
  <2> QED BY <1>0, <1>1, <2>1, <2>2, AnswerStep
<1>3. CASE enrolled # 0 /\ call[a].confirm.code # enrolled
  <2>1. UNCHANGED <<version, enrolled, secret, codes>> /\ Answers(a, "confirm", "wrong", 0)
    BY <1>3 DEF Confirm, serverVars
  <2>2. AnswerFits(page[a].action, "confirm", "wrong", 0)'
    BY DEF AnswerFits
  <2> QED BY <1>0, <1>1, <2>1, <2>2, AnswerStep
<1>4. CASE enrolled # 0 /\ call[a].confirm.code = enrolled
  <2>1. /\ version' = version + 1 /\ secret' = enrolled /\ enrolled' = 0 /\ codes' = version'
        /\ Answers(a, "confirm", "done", codes')
    BY <1>4 DEF Confirm, Changed
  <2>2. codes' \in Nat
    BY <1>0, <2>1
  <2>3. PICK value \in Nat : value = codes'
    BY <2>2
  <2>4. AnswerFits(page[a].action, "confirm", "done", value)'
    BY <1>4, <2>1, <2>3 DEF AnswerFits
  <2>5. Answers(a, "confirm", "done", value)
    BY <2>1, <2>3
  <2> QED BY <1>0, <1>1, <2>1, <2>2, <2>4, <2>5, AnswerStep
<1> QED BY <1>2, <1>3, <1>4

LEMMA ActKeepsInv ==
  ASSUME PagesInv, NEW a \in Pages, Act(a)
  PROVE  PagesInv'
<1>0. version \in Nat /\ enrolled \in Nat /\ secret \in Nat /\ codes \in Nat /\ "act" \in Kinds
  BY KindsOfCalls DEF PagesInv, PagesTypeOK
<1>1. call[a]["act"].at = "sent" /\ UNCHANGED <<page, told>>
  BY DEF Act
<1>2. CASE secret = 0
  <2>1. UNCHANGED <<version, enrolled, secret, codes>> /\ Answers(a, "act", "conflict", 0)
    BY <1>2 DEF Act, serverVars
  <2>2. AnswerFits(page[a].action, "act", "conflict", 0)'
    BY <1>2, <2>1 DEF AnswerFits
  <2> QED BY <1>0, <1>1, <2>1, <2>2, AnswerStep
<1>3. CASE secret # 0 /\ call[a].act.code = 0
  <2>1. UNCHANGED <<version, enrolled, secret, codes>> /\ Answers(a, "act", "wrong", 0)
    BY <1>3 DEF Act, serverVars
  <2>2. AnswerFits(page[a].action, "act", "wrong", 0)'
    BY DEF AnswerFits
  <2> QED BY <1>0, <1>1, <2>1, <2>2, AnswerStep
<1>4. CASE secret # 0 /\ call[a].act.code # 0
  <2>0. page[a].action \in {"none", "regenerate", "disable"} /\ PageInv(a)
    BY DEF PagesInv, PagesTypeOK, PageRecord
  <2>a. page[a].action # "none"
    BY <1>1, <2>0 DEF PageInv, PageIsOrderly, Busy, Idle
  <2>1. /\ version' = version + 1 /\ Answers(a, "act", "done", codes')
        /\ IF page[a].action = "regenerate"
           THEN codes' = version' /\ enrolled' = enrolled /\ secret' = secret
           ELSE codes' = 0 /\ enrolled' = 0 /\ secret' = 0
    BY <1>4 DEF Act, Changed
  <2>2. codes' \in Nat /\ enrolled' \in Nat /\ secret' \in Nat
    BY <1>0, <2>1
  <2>3. PICK value \in Nat : value = codes'
    BY <2>2
  <2>4. AnswerFits(page[a].action, "act", "done", value)'
    BY <1>1, <1>4, <2>0, <2>a, <2>1, <2>3 DEF AnswerFits
  <2>5. Answers(a, "act", "done", value)
    BY <2>1, <2>3
  <2> QED BY <1>0, <1>1, <2>1, <2>2, <2>4, <2>5, AnswerStep
<1> QED BY <1>2, <1>3, <1>4

LEMMA EnrollmentExpiresKeepsInv ==
  ASSUME PagesInv, EnrollmentExpires
  PROVE  PagesInv'
<1>0. PagesTypeOK /\ version' = version + 1 /\ enrolled' = 0 /\ UNCHANGED <<secret, codes, page, call, told>>
  BY DEF PagesInv, EnrollmentExpires, Changed, pageVars
<1>1. \A b \in Pages : PageInv(b)'
  BY <1>0, PageOutdated DEF PagesInv
<1>2. PagesTypeOK'
  <2>1. version \in Nat /\ \A a \in Pages : /\ told[a].factor <= version /\ told[a].codes <= version
                                           /\ \A k \in Kinds : call[a][k].version <= version
    BY <1>0 DEF PagesTypeOK
  <2>2. told \in [Pages -> ToldRecord] /\ call \in [Pages -> [Kinds -> CallRecord]]
    BY <1>0 DEF PagesTypeOK
  <2>3. \A a \in Pages : /\ told[a].factor <= version + 1 /\ told[a].codes <= version + 1
                         /\ \A k \in Kinds : call[a][k].version <= version + 1
    BY <2>1, <2>2 DEF ToldRecord, CallRecord
  <2> QED BY <1>0, <2>3 DEF PagesTypeOK
<1> QED BY <1>1, <1>2 DEF PagesInv

LEMMA PagesInvUndisturbed ==
  ASSUME PagesInv, UNCHANGED <<version, enrolled, secret, codes, page, call, told>>
  PROVE  PagesInv'
<1>1. \A b \in Pages : PageInv(b)'
  BY PageUndisturbed DEF PagesInv
<1>2. PagesTypeOK'
  BY DEF PagesInv, PagesTypeOK
<1> QED BY <1>1, <1>2 DEF PagesInv

LEMMA PagesInvNext == PagesInv /\ [FactorNext]_factorVars => PagesInv'
<1> SUFFICES ASSUME PagesInv, [FactorNext]_factorVars PROVE PagesInv'
  OBVIOUS
<1>1. ASSUME NEW a \in Pages, PageNext(a) PROVE PagesInv'
  BY <1>1, startEnrollmentKeepsInv, confirmEnrollmentKeepsInv, openActionKeepsInv, closeActionKeepsInv,
     submitActionKeepsInv, dismissCodesKeepsInv, EnrollKeepsInv, ConfirmKeepsInv, ActKeepsInv,
     startedKeepsInv, alreadyEnabledKeepsInv, confirmedKeepsInv, enrollmentGoneKeepsInv,
     actedKeepsInv, notEnabledKeepsInv, refusedKeepsInv DEF PageNext
<1>2. CASE EnrollmentExpires
  BY <1>2, EnrollmentExpiresKeepsInv
<1>3. CASE SignInNext
  <2>1. UNCHANGED <<version, enrolled, secret, codes, page, call, told>>
    BY <1>3 DEF SignInNext, createMFAChallenge, ChallengeExpires, submitMFA, readChallenge,
       verifyMFAChallenge, verified, backToLogin, timesOut, serverVars, pageVars
  <2> QED BY <2>1, PagesInvUndisturbed
<1>4. CASE UNCHANGED factorVars
  BY <1>4, PagesInvUndisturbed DEF factorVars, serverVars, pageVars
<1> QED BY <1>1, <1>2, <1>3, <1>4 DEF FactorNext

LEMMA PagesInvImplies == PagesInv => PagesKnowTheFactor
  BY DEF PagesInv, PageInv, PageIsCurrent, PagesKnowTheFactor, Kinds

\* However the starts, confirmations and actions of any number of pages overlap and
\* whichever answers are late or lost: a page that waits for nothing and was told of
\* the last change shows whether the factor is on, a secret that can be confirmed and
\* codes the server accepts, a late secret excused (security-settings.tsx).
THEOREM PagesAlwaysKnowTheFactor == FactorSpec => []PagesKnowTheFactor
<1>1. FactorInit => PagesInv
  BY PagesInvInit
<1>2. PagesInv /\ [FactorNext]_factorVars => PagesInv'
  BY PagesInvNext
<1>3. PagesInv => PagesKnowTheFactor
  BY PagesInvImplies
<1> QED BY <1>1, <1>2, <1>3, PTL DEF FactorSpec

\* What the pages of the security settings show and what the sign-ins do hold of
\* one factor, the two halves of the property at once: a page never shows a factor
\* that is not there, and no challenge signs its user in twice.
THEOREM SecondFactorIsAlwaysTrue == FactorSpec => []SecondFactorIsTrue
<1>1. PagesKnowTheFactor /\ ChallengesSignInOnce => SecondFactorIsTrue
  BY DEF SecondFactorIsTrue
<1> QED BY <1>1, PagesAlwaysKnowTheFactor, ChallengesAlwaysSignInOnce, PTL

-------------------------------------------------------------------------------
(* FormDialogs.                                                               *)

Afters == {<<>>, <<"close">>, <<"refresh">>, <<"close", "refresh">>, <<"refresh", "close">>}

\* What the dialogs have in common, whatever differs between them.
DialogIsSound(d) ==
  /\ d.locks \in BOOLEAN /\ d.refuses \in BOOLEAN /\ d.frees \in BOOLEAN /\ d.clears \in BOOLEAN
  /\ d.toasts \in BOOLEAN /\ d.remounts \in BOOLEAN /\ d.after \in Afters /\ d.honest \in BOOLEAN
  /\ d.name \notin Leaky =>
       /\ d.locks /\ ~d.frees /\ d.clears
       /\ d.after = <<"close", "refresh">> => d.refuses /\ ~d.remounts /\ (d.toasts \/ d.name = "desktop create user")
  /\ d.name \notin Misreporting => d.honest

LEMMA DialogsAreSound == \A d \in Dialogs : DialogIsSound(d)
<1> USE DEF DialogIsSound, Leaky, Misreporting, Locked, Afters
<1>1. DialogIsSound(CreateFolderDialog)
  BY DEF CreateFolderDialog, Unlocked
<1>2. DialogIsSound(RenameNodeDialog)
  BY DEF RenameNodeDialog, Unlocked
<1>3. DialogIsSound(TrashNodesDialog)
  BY DEF TrashNodesDialog, Remounted
<1>4. DialogIsSound(MoveNodesDialog)
  BY DEF MoveNodesDialog, Remounted
<1>5. DialogIsSound(CreateCollectionDialog)
  BY DEF CreateCollectionDialog, Unlocked
<1>6. DialogIsSound(EditCollectionDialog)
  BY DEF EditCollectionDialog, Unlocked
<1>7. DialogIsSound(CreateUserDialog)
  BY DEF CreateUserDialog, Toasting
<1>8. DialogIsSound(EditUserDialog)
  BY DEF EditUserDialog, Toasting
<1>9. DialogIsSound(UserQuotaDialog)
  BY DEF UserQuotaDialog, Refreshing, Toasting
<1>10. DialogIsSound(ResetUserPasswordDialog)
  BY DEF ResetUserPasswordDialog, Refreshing, Toasting
<1>11. DialogIsSound(UserStatusDialog)
  BY DEF UserStatusDialog, Refreshing, Toasting
<1>12. DialogIsSound(ReconcileQuotaDialog)
  BY DEF ReconcileQuotaDialog, Toasting
<1>13. DialogIsSound(RemoveAvatarDialog)
  BY DEF RemoveAvatarDialog, Toasting
<1>14. DialogIsSound(SetupForm)
  BY DEF SetupForm
<1>15. DialogIsSound(ChangePasswordForm)
  BY DEF ChangePasswordForm, Refreshing
<1>16. DialogIsSound(DesktopCreateFolderDialog)
  BY DEF DesktopCreateFolderDialog
<1>17. DialogIsSound(DesktopRenameNodeDialog)
  BY DEF DesktopRenameNodeDialog, Remounted
<1>18. DialogIsSound(DesktopTrashNodesDialog)
  BY DEF DesktopTrashNodesDialog, Remounted
<1>19. DialogIsSound(DesktopMoveNodesDialog)
  BY DEF DesktopMoveNodesDialog, Remounted
<1>20. DialogIsSound(DesktopEditCollectionDialog)
  BY DEF DesktopEditCollectionDialog
<1>21. DialogIsSound(DesktopTrashCollectionButton)
  BY DEF DesktopTrashCollectionButton
<1>22. DialogIsSound(CreateAdminUserDialog)
  BY DEF CreateAdminUserDialog
<1>23. DialogIsSound(DesktopEditUserDialog)
  BY DEF DesktopEditUserDialog, Remounted
<1>24. DialogIsSound(QuotaDialog)
  BY DEF QuotaDialog, Remounted, Refreshing
<1>25. DialogIsSound(PasswordDialog)
  BY DEF PasswordDialog, Remounted, Refreshing
<1>26. DialogIsSound(StatusDialog)
  BY DEF StatusDialog, Remounted, Refreshing
<1>27. DialogIsSound(DesktopSyncPairDialog)
  BY DEF DesktopSyncPairDialog, Remounted
<1> HIDE DEF DialogIsSound
<1> QED BY <1>1, <1>2, <1>3, <1>4, <1>5, <1>6, <1>7, <1>8, <1>9, <1>10, <1>11, <1>12,
     <1>13, <1>14, <1>15, <1>16, <1>17, <1>18, <1>19, <1>20, <1>21, <1>22, <1>23, <1>24,
     <1>25, <1>26, <1>27
          DEF Dialogs

-----------------------------------------------------------------------------
DialogsTypeOK ==
  /\ dialog \in Dialogs /\ DialogIsSound(dialog)
  /\ openings \in Nat /\ opening \in Nat /\ opening <= openings /\ pending \in BOOLEAN /\ stolen \in BOOLEAN
  /\ message \in [about : Nat, done : BOOLEAN]
  /\ requests \in [Submissions -> [opening : Nat, at : {"none", "sent", "done", "failed", "refreshing"}]]
  /\ \A r \in Submissions : requests[r].at = "none" <=> requests[r] = NoRequest

\* A request of a dialog that cannot be left: its opening is still there, unless
\* the handler closed it and reads what it changed.
Belongs(r) ==
  \/ requests[r].opening = opening /\ opening # 0
  \/ opening = 0 /\ requests[r].at = "refreshing" /\ dialog.after = <<"close", "refresh">>
OneAtATime ==
  dialog.name \notin Leaky =>
    /\ pending <=> InFlight # {}
    /\ \A r, q \in InFlight : r = q
    /\ \A r \in InFlight : Belongs(r)
    /\ ~stolen
MessageIsOfOpening ==
  dialog.name \notin Leaky /\ dialog.name # "desktop create user" =>
    /\ message.about \in {0, opening}  \/ (opening = 0 /\ dialog.toasts)
NothingMisreported == dialog.honest => ~message.done
DialogsInv == DialogsTypeOK /\ OneAtATime /\ MessageIsOfOpening /\ NothingMisreported

-----------------------------------------------------------------------------
DialogStates == {"none", "sent", "done", "failed", "refreshing"}
RequestStates == [opening : Nat, at : {"none", "sent", "done", "failed", "refreshing"}]

LEMMA NoneFacts ==
  /\ NoRequest \in RequestStates /\ NoRequest.at = "none" /\ NoRequest.opening = 0
  /\ NoMessage \in [about : Nat, done : BOOLEAN] /\ NoMessage.about = 0 /\ ~NoMessage.done
  BY DEF NoRequest, RequestStates, NoMessage

LEMMA DialogsInvInit == DialogsInit => DialogsInv
<1> SUFFICES ASSUME DialogsInit PROVE DialogsInv
  OBVIOUS
<1>1. DialogsTypeOK
  <2>1. DialogIsSound(dialog)
    BY DialogsAreSound DEF DialogsInit
  <2>2. requests \in [Submissions -> RequestStates] /\ \A r \in Submissions : requests[r] = NoRequest
    BY NoneFacts DEF DialogsInit
  <2>3. dialog \in Dialogs /\ opening = 0 /\ openings = 0 /\ pending = FALSE /\ message = NoMessage /\ stolen = FALSE
    BY DEF DialogsInit
  <2>4. \A r \in Submissions : requests[r].at = "none"
    BY <2>2, NoneFacts
  <2>5. message \in [about : Nat, done : BOOLEAN] /\ 0 \in Nat /\ 0 <= 0
    BY <2>3, NoneFacts
  <2> HIDE DEF NoRequest
  <2>6. opening <= openings /\ openings \in Nat /\ opening \in Nat
    BY <2>3, <2>5
  <2> QED BY <2>1, <2>2, <2>3, <2>4, <2>5, <2>6 DEF DialogsTypeOK, RequestStates
<1>2. InFlight = {}
  BY DEF DialogsInit, InFlight
<1> QED BY <1>1, <1>2, NoneFacts DEF DialogsInit, DialogsInv, OneAtATime, MessageIsOfOpening, NothingMisreported

\* One request moves, or is over.
LEMMA RequestMoves ==
  ASSUME DialogsTypeOK, NEW r \in Submissions, NEW x \in {"done", "failed", "refreshing"}, requests[r].at # "none",
         requests' = [requests EXCEPT ![r].at = x]
  PROVE  /\ requests' \in [Submissions -> RequestStates] /\ InFlight' = InFlight /\ r \in InFlight
         /\ \A q \in Submissions : (requests[q].at = "none" <=> requests[q] = NoRequest)'
         /\ requests'[r].at = x /\ requests'[r].opening = requests[r].opening
         /\ \A q \in Submissions : q # r => requests'[q] = requests[q]
<1>1. requests' \in [Submissions -> RequestStates] /\ requests'[r].at = x /\ requests'[r].opening = requests[r].opening
      /\ \A q \in Submissions : q # r => requests'[q] = requests[q]
  BY DEF DialogsTypeOK, RequestStates
<1>2. \A q \in Submissions : (requests[q].at = "none" <=> requests[q] = NoRequest)'
  BY <1>1, NoneFacts DEF DialogsTypeOK
<1>3. InFlight' = InFlight /\ r \in InFlight
  BY <1>1, <1>2 DEF InFlight, DialogsTypeOK
<1> QED BY <1>1, <1>2, <1>3

LEMMA RequestEnds ==
  ASSUME DialogsTypeOK, NEW r \in Submissions, requests' = [requests EXCEPT ![r] = NoRequest]
  PROVE  /\ requests' \in [Submissions -> RequestStates] /\ InFlight' = InFlight \ {r}
         /\ \A q \in Submissions : (requests[q].at = "none" <=> requests[q] = NoRequest)'
         /\ \A q \in InFlight' : requests'[q] = requests[q]
<1>1. requests' \in [Submissions -> RequestStates] /\ requests'[r] = NoRequest
      /\ \A q \in Submissions : q # r => requests'[q] = requests[q]
  BY NoneFacts DEF DialogsTypeOK, RequestStates
<1>2. \A q \in Submissions : (requests[q].at = "none" <=> requests[q] = NoRequest)'
  BY <1>1, NoneFacts DEF DialogsTypeOK
<1> QED BY <1>1, <1>2 DEF InFlight

-----------------------------------------------------------------------------
LEMMA openDialogKeeps ==
  ASSUME DialogsInv, openDialog
  PROVE  DialogsInv'
<1>0. DialogsTypeOK /\ opening = 0 /\ (dialog.refuses => ~pending) /\ openings' = openings + 1 /\ opening' = openings'
      /\ UNCHANGED <<dialog, requests, stolen>>
  BY DEF DialogsInv, openDialog
<1>1. /\ dialog.remounts \in BOOLEAN /\ dialog.refuses \in BOOLEAN /\ dialog.toasts \in BOOLEAN /\ pending \in BOOLEAN
      /\ dialog.name \notin Leaky /\ dialog.after = <<"close", "refresh">> => dialog.refuses
  BY <1>0 DEF DialogsTypeOK, DialogIsSound
<1>2. pending' \in BOOLEAN /\ (pending' => pending) /\ (pending /\ ~dialog.remounts => pending')
  BY <1>1 DEF openDialog
<1>3. message' = NoMessage \/ (message' = message /\ ~dialog.toasts)
  BY <1>1 DEF openDialog
<1>4. DialogsTypeOK'
  BY <1>0, <1>2, <1>3, NoneFacts DEF DialogsTypeOK
<1>5. dialog.name \notin Leaky => InFlight = {}
  <2>1. ASSUME dialog.name \notin Leaky, NEW r \in InFlight PROVE FALSE
    <3>1. pending /\ Belongs(r)
      BY <2>1 DEF DialogsInv, OneAtATime
    <3> QED BY <3>1, <1>0, <1>1, <2>1 DEF Belongs
  <2> QED BY <2>1
<1>6. InFlight' = InFlight
  BY <1>0 DEF InFlight
<1>7. OneAtATime'
  BY <1>0, <1>2, <1>5, <1>6 DEF DialogsInv, OneAtATime
<1>8. MessageIsOfOpening'
  BY <1>0, <1>1, <1>3, NoneFacts DEF DialogsInv, MessageIsOfOpening
<1>9. NothingMisreported'
  BY <1>0, <1>3, NoneFacts DEF DialogsInv, NothingMisreported
<1> QED BY <1>4, <1>7, <1>8, <1>9 DEF DialogsInv

LEMMA closeDialogKeeps ==
  ASSUME DialogsInv, closeDialog
  PROVE  DialogsInv'
<1>0. DialogsTypeOK /\ opening # 0 /\ (dialog.locks => ~pending) /\ opening' = 0
      /\ UNCHANGED <<dialog, openings, requests, stolen>>
  BY DEF DialogsInv, closeDialog
<1>1. /\ dialog.locks \in BOOLEAN /\ dialog.frees \in BOOLEAN /\ dialog.clears \in BOOLEAN /\ pending \in BOOLEAN
      /\ dialog.name \notin Leaky => dialog.locks /\ dialog.clears
  BY <1>0 DEF DialogsTypeOK, DialogIsSound
<1>2. pending' \in BOOLEAN /\ (pending' => pending)
  BY <1>1 DEF closeDialog
<1>3. message' = NoMessage \/ (message' = message /\ ~dialog.clears)
  BY <1>1 DEF closeDialog
<1>4. DialogsTypeOK'
  BY <1>0, <1>2, <1>3, NoneFacts DEF DialogsTypeOK
<1>5. InFlight' = InFlight
  BY <1>0 DEF InFlight
<1>6. OneAtATime'
  BY <1>0, <1>1, <1>2, <1>5 DEF DialogsInv, OneAtATime
<1>7. MessageIsOfOpening' /\ NothingMisreported'
  BY <1>0, <1>1, <1>3, NoneFacts DEF DialogsInv, MessageIsOfOpening, NothingMisreported
<1> QED BY <1>4, <1>6, <1>7 DEF DialogsInv

LEMMA submitKeeps ==
  ASSUME DialogsInv, NEW r \in Submissions, submit(r)
  PROVE  DialogsInv'
<1>0. DialogsTypeOK /\ opening # 0 /\ ~pending /\ requests[r] = NoRequest /\ pending' = TRUE /\ message' = NoMessage
      /\ requests' = [requests EXCEPT ![r] = [opening |-> opening, at |-> "sent"]]
      /\ UNCHANGED <<dialog, opening, openings, stolen>>
  BY DEF DialogsInv, submit
<1>1. requests' \in [Submissions -> RequestStates] /\ requests'[r].at = "sent" /\ requests'[r].opening = opening
      /\ \A q \in Submissions : q # r => requests'[q] = requests[q]
  BY <1>0 DEF DialogsTypeOK, RequestStates
<1>2. \A q \in Submissions : (requests[q].at = "none" <=> requests[q] = NoRequest)'
  BY <1>0, <1>1, NoneFacts DEF DialogsTypeOK
<1>3. DialogsTypeOK'
  BY <1>0, <1>1, <1>2, NoneFacts DEF DialogsTypeOK, RequestStates
<1>4. InFlight' = InFlight \union {r}
  BY <1>1, NoneFacts DEF InFlight
<1>5. OneAtATime'
  <2> SUFFICES ASSUME dialog.name \notin Leaky
               PROVE  /\ \A p, q \in InFlight' : p = q
                      /\ \A q \in InFlight' : Belongs(q)'
                      /\ ~stolen
    BY <1>0, <1>4 DEF OneAtATime
  <2>1. InFlight = {} /\ ~stolen
    BY <1>0 DEF DialogsInv, OneAtATime
  <2>2. Belongs(r)'
    BY <1>0, <1>1 DEF Belongs
  <2> QED BY <1>4, <2>1, <2>2
<1> QED BY <1>0, <1>3, <1>5, NoneFacts DEF DialogsInv, MessageIsOfOpening, NothingMisreported

LEMMA servedKeeps ==
  ASSUME DialogsInv, NEW r \in Submissions, served(r)
  PROVE  DialogsInv'
<1>0. DialogsTypeOK /\ requests[r].at = "sent" /\ UNCHANGED <<dialog, opening, openings, pending, message, stolen>>
  BY DEF DialogsInv, served
<1>1. PICK x \in {"done", "failed"} : requests' = [requests EXCEPT ![r].at = x]
  BY DEF served
<1>2. /\ requests' \in [Submissions -> RequestStates] /\ InFlight' = InFlight /\ r \in InFlight
      /\ \A q \in Submissions : (requests[q].at = "none" <=> requests[q] = NoRequest)'
      /\ requests'[r].at = x /\ requests'[r].opening = requests[r].opening
      /\ \A q \in Submissions : q # r => requests'[q] = requests[q]
  BY <1>0, <1>1, RequestMoves
<1>3. DialogsTypeOK'
  BY <1>0, <1>2 DEF DialogsTypeOK, RequestStates
<1>4. ASSUME dialog.name \notin Leaky, NEW q \in InFlight PROVE Belongs(q)'
  <2>1. Belongs(q) /\ q \in Submissions
    BY <1>4 DEF DialogsInv, OneAtATime, InFlight
  <2>2. CASE q = r
    BY <1>0, <1>2, <2>1, <2>2 DEF Belongs
  <2>3. CASE q # r
    BY <1>0, <1>2, <2>1, <2>3 DEF Belongs
  <2> QED BY <2>2, <2>3
<1>5. OneAtATime'
  BY <1>0, <1>2, <1>4 DEF DialogsInv, OneAtATime
<1> QED BY <1>0, <1>3, <1>5 DEF DialogsInv, MessageIsOfOpening, NothingMisreported

\* The handler of a request ends, with a message of its own.
LEMMA OverKeeps ==
  ASSUME DialogsInv, NEW r \in Submissions, requests[r].at # "none",
         NEW m \in [about : Nat, done : BOOLEAN], Over(r, m), UNCHANGED <<dialog, openings>>,
         Closes(r) \/ UNCHANGED <<opening, stolen>>,
         m = NoMessage \/ UNCHANGED opening, m.about \in {0, requests[r].opening}, dialog.honest => ~m.done,
         m = NoMessage \/ requests[r].at # "refreshing" \/ ~dialog.honest
  PROVE  DialogsInv'
<1>0. DialogsTypeOK /\ r \in InFlight /\ opening \in Nat /\ dialog.remounts \in BOOLEAN
  BY NoneFacts DEF DialogsInv, DialogsTypeOK, InFlight, DialogIsSound
<1>1. requests' = [requests EXCEPT ![r] = NoRequest]
      /\ IF Alive(r) THEN pending' = FALSE /\ message' = m ELSE UNCHANGED <<pending, message>>
  BY DEF Over
<1>2. /\ requests' \in [Submissions -> RequestStates] /\ InFlight' = InFlight \ {r}
      /\ \A q \in Submissions : (requests[q].at = "none" <=> requests[q] = NoRequest)'
      /\ \A q \in InFlight' : requests'[q] = requests[q]
  BY <1>0, <1>1, RequestEnds
<1>3. /\ opening' \in {0, opening} /\ stolen' \in BOOLEAN
      /\ stolen' => stolen \/ opening \notin {0, requests[r].opening}
  <2>1. stolen \in BOOLEAN
    BY <1>0 DEF DialogsTypeOK
  <2>2. CASE Closes(r)
    <3>1. CASE opening \in {0, requests[r].opening}
      BY <2>1, <2>2, <3>1 DEF Closes
    <3>2. CASE opening \notin {0, requests[r].opening}
      BY <2>1, <2>2, <3>2 DEF Closes
    <3> QED BY <3>1, <3>2
  <2>3. CASE UNCHANGED <<opening, stolen>>
    BY <2>1, <2>3
  <2> QED BY <2>2, <2>3
<1>4. message' \in {m, message} /\ pending' \in BOOLEAN
  BY <1>0, <1>1 DEF DialogsTypeOK
<1>5. DialogsTypeOK'
  BY <1>0, <1>2, <1>3, <1>4 DEF DialogsTypeOK, RequestStates
<1>6. NothingMisreported'
  BY <1>4 DEF DialogsInv, NothingMisreported
<1>7. ASSUME dialog.name \notin Leaky
      PROVE  /\ InFlight = {r} /\ Belongs(r) /\ ~stolen /\ pending' = FALSE /\ message' = m
  <2>1. InFlight = {r} /\ Belongs(r) /\ ~stolen
    BY <1>0, <1>7 DEF DialogsInv, OneAtATime
  <2>2. Alive(r)
    BY <1>0, <1>7, <2>1 DEF Belongs, Alive, DialogsTypeOK, DialogIsSound
  <2> QED BY <1>1, <2>1, <2>2
<1>8. OneAtATime'
  BY <1>2, <1>3, <1>7 DEF OneAtATime, Belongs
<1>9. MessageIsOfOpening'
  <2> SUFFICES ASSUME dialog.name \notin Leaky, dialog.name # "desktop create user", m # NoMessage
               PROVE  message'.about \in {0, opening'} \/ (opening' = 0 /\ dialog.toasts)
    BY <1>7, NoneFacts DEF MessageIsOfOpening
  <2>1. Belongs(r) /\ message' = m /\ opening' = opening
    BY <1>7
  <2>2. dialog.after = <<"close", "refresh">> => dialog.toasts
    BY <1>0 DEF DialogsTypeOK, DialogIsSound
  <2> QED BY <2>1, <2>2 DEF Belongs
<1> QED BY <1>5, <1>6, <1>8, <1>9 DEF DialogsInv

LEMMA rejectedKeeps ==
  ASSUME DialogsInv, NEW r \in Submissions, rejected(r)
  PROVE  DialogsInv'
<1> DEFINE m == [about |-> requests[r].opening, done |-> FALSE]
<1>1. requests[r].at = "failed" /\ Over(r, m) /\ UNCHANGED <<dialog, opening, openings, stolen>>
  BY DEF rejected
<1>2. m \in [about : Nat, done : BOOLEAN] /\ m.about = requests[r].opening /\ ~m.done
  BY DEF DialogsInv, DialogsTypeOK
<1> HIDE DEF m
<1> QED BY <1>1, <1>2, OverKeeps

LEMMA AfterFacts ==
  ASSUME NEW a \in Afters
  PROVE  (a # <<>> /\ Head(a) = "refresh") <=> a \in {<<"refresh">>, <<"refresh", "close">>}
  BY DEF Afters

LEMMA answeredKeeps ==
  ASSUME DialogsInv, NEW r \in Submissions, answered(r)
  PROVE  DialogsInv'
<1>0. DialogsTypeOK /\ requests[r].at = "done" /\ UNCHANGED <<dialog, openings>> /\ dialog.after \in Afters
      /\ dialog.frees \in BOOLEAN /\ pending \in BOOLEAN
  BY DEF DialogsInv, answered, DialogsTypeOK, DialogIsSound
<1>1. CASE dialog.after # <<>> /\ Head(dialog.after) = "refresh"
  <2>1. requests' = [requests EXCEPT ![r].at = "refreshing"] /\ UNCHANGED <<opening, pending, message, stolen>>
    BY <1>1 DEF answered
  <2>2. /\ requests' \in [Submissions -> RequestStates] /\ InFlight' = InFlight /\ r \in InFlight
        /\ \A q \in Submissions : (requests[q].at = "none" <=> requests[q] = NoRequest)'
        /\ requests'[r].at = "refreshing" /\ requests'[r].opening = requests[r].opening
        /\ \A q \in Submissions : q # r => requests'[q] = requests[q]
    BY <1>0, <2>1, RequestMoves
  <2>3. DialogsTypeOK'
    BY <1>0, <2>1, <2>2 DEF DialogsTypeOK, RequestStates
  <2>4. ASSUME dialog.name \notin Leaky, NEW q \in InFlight PROVE Belongs(q)'
    <3>1. Belongs(q) /\ q \in Submissions
      BY <2>4 DEF DialogsInv, OneAtATime, InFlight
    <3>2. CASE q = r
      BY <1>0, <2>1, <2>2, <3>1, <3>2 DEF Belongs
    <3>3. CASE q # r
      BY <1>0, <2>1, <2>2, <3>1, <3>3 DEF Belongs
    <3> QED BY <3>2, <3>3
  <2>5. OneAtATime'
    BY <1>0, <2>1, <2>2, <2>4 DEF DialogsInv, OneAtATime
  <2> QED BY <1>0, <2>1, <2>3, <2>5 DEF DialogsInv, MessageIsOfOpening, NothingMisreported
<1>2. CASE dialog.after = <<"close", "refresh">>
  <2>0. ~(dialog.after # <<>> /\ Head(dialog.after) = "refresh")
    BY <1>2
  <2>1. /\ Closes(r) /\ requests' = [requests EXCEPT ![r].at = "refreshing"]
        /\ pending' = (pending /\ ~dialog.frees)
        /\ message' = IF Alive(r) THEN NoMessage ELSE message
    BY <1>2, <2>0 DEF answered
  <2>2. /\ requests' \in [Submissions -> RequestStates] /\ InFlight' = InFlight /\ r \in InFlight
        /\ \A q \in Submissions : (requests[q].at = "none" <=> requests[q] = NoRequest)'
        /\ requests'[r].at = "refreshing" /\ requests'[r].opening = requests[r].opening
        /\ \A q \in Submissions : q # r => requests'[q] = requests[q]
    BY <1>0, <2>1, RequestMoves
  <2>3. opening' = 0 /\ stolen' \in BOOLEAN /\ (stolen' => stolen \/ opening \notin {0, requests[r].opening})
        /\ pending' \in BOOLEAN /\ (~dialog.frees => pending' = pending) /\ message' \in {NoMessage, message}
    BY <1>0, <2>1 DEF Closes, DialogsTypeOK
  <2>4. DialogsTypeOK'
    BY <1>0, <2>2, <2>3, NoneFacts DEF DialogsTypeOK, RequestStates
  <2>5. ASSUME dialog.name \notin Leaky
        PROVE  InFlight = {r} /\ requests[r].opening = opening /\ ~stolen /\ ~dialog.frees /\ ~dialog.remounts /\ pending
               /\ message' = NoMessage
    <3>1. InFlight = {r} /\ Belongs(r) /\ ~stolen /\ pending
      BY <2>2, <2>5 DEF DialogsInv, OneAtATime
    <3>2. requests[r].opening = opening
      BY <1>0, <3>1 DEF Belongs
    <3>3. ~dialog.frees /\ ~dialog.remounts
      BY <1>0, <1>2, <2>5 DEF DialogsTypeOK, DialogIsSound
    <3> QED BY <2>1, <3>1, <3>2, <3>3 DEF Alive
  <2>6. OneAtATime'
    BY <1>0, <1>2, <2>2, <2>3, <2>5 DEF OneAtATime, Belongs
  <2>7. MessageIsOfOpening' /\ NothingMisreported'
    BY <1>0, <2>3, <2>5, NoneFacts DEF DialogsInv, MessageIsOfOpening, NothingMisreported
  <2> QED BY <2>4, <2>6, <2>7 DEF DialogsInv
<1>3. CASE ~(dialog.after # <<>> /\ Head(dialog.after) = "refresh") /\ dialog.after # <<"close", "refresh">>
  <2>1. Closes(r) /\ Over(r, NoMessage)
    BY <1>3 DEF answered
  <2> QED BY <1>0, <2>1, NoneFacts, OverKeeps
<1> QED BY <1>1, <1>2, <1>3

LEMMA refreshedKeeps ==
  ASSUME DialogsInv, NEW r \in Submissions, refreshed(r)
  PROVE  DialogsInv'
<1> DEFINE m == [about |-> requests[r].opening, done |-> TRUE]
<1>0. requests[r].at = "refreshing" /\ UNCHANGED <<dialog, openings>> /\ dialog.honest \in BOOLEAN
  BY DEF DialogsInv, refreshed, DialogsTypeOK, DialogIsSound
<1>1. \/ Over(r, NoMessage) /\ (Closes(r) \/ UNCHANGED <<opening, stolen>>)
      \/ ~dialog.honest /\ Over(r, m) /\ UNCHANGED <<opening, stolen>>
  BY <1>0 DEF refreshed
<1>2. m \in [about : Nat, done : BOOLEAN] /\ m.about = requests[r].opening
  BY DEF DialogsInv, DialogsTypeOK
<1> HIDE DEF m
<1> QED BY <1>0, <1>1, <1>2, NoneFacts, OverKeeps

-----------------------------------------------------------------------------
LEMMA DialogsInvNext == DialogsInv /\ [DialogsNext]_dialogVars => DialogsInv'
<1> SUFFICES ASSUME DialogsInv, [DialogsNext]_dialogVars PROVE DialogsInv'
  OBVIOUS
<1>1. CASE DialogsNext
  BY <1>1, openDialogKeeps, closeDialogKeeps, submitKeeps, servedKeeps, answeredKeeps, rejectedKeeps, refreshedKeeps
     DEF DialogsNext
<1>2. CASE UNCHANGED dialogVars
  BY <1>2 DEF dialogVars, DialogsInv, DialogsTypeOK, OneAtATime, InFlight, Belongs, MessageIsOfOpening, NothingMisreported
<1> QED BY <1>1, <1>2

LEMMA DialogsInvIsTrue == DialogsInv => DialogsAreTrue
<1> SUFFICES ASSUME DialogsInv PROVE DialogsAreTrue
  OBVIOUS
<1>1. ASSUME dialog.name \notin Leaky PROVE Cardinality(InFlight) <= 1
  <2>1. CASE InFlight = {}
    BY <2>1, FS_EmptySet
  <2>2. CASE InFlight # {}
    <3>1. PICK r \in InFlight : InFlight = {r}
      BY <1>1, <2>2 DEF DialogsInv, OneAtATime
    <3> QED BY <3>1, FS_Singleton
  <2> QED BY <2>1, <2>2
<1>2. dialog.name \notin Misreporting => ~message.done
  BY DEF DialogsInv, DialogsTypeOK, DialogIsSound, NothingMisreported
<1> QED BY <1>1, <1>2 DEF DialogsInv, OneAtATime, MessageIsOfOpening, DialogsAreTrue

(* However often a dialog of either application is opened, closed and submitted, *)
(* and whenever its requests and refreshes are answered: it is busy exactly while *)
(* its one request is under way, an answer closes only the opening that asked,   *)
(* and the message shown is about that opening and true (the dialogs of web and  *)
(* desktop named in FormDialogs).                                                *)
THEOREM DialogsAreAlwaysTrue == DialogsSpec => []DialogsAreTrue
<1>1. DialogsInit => DialogsInv
  BY DialogsInvInit
<1>2. DialogsInv /\ [DialogsNext]_dialogVars => DialogsInv'
  BY DialogsInvNext
<1>3. DialogsInv => DialogsAreTrue
  BY DialogsInvIsTrue
<1> QED BY <1>1, <1>2, <1>3, PTL DEF DialogsSpec

-------------------------------------------------------------------------------
(* SettingsForms.                                                             *)

Users == [name : Nat, avatar : Nat]
Drafts == [Fields -> {0, 1}]
NameCalls == {NoCall} \cup [at : {"sent"}, to : Nat] \cup [at : {"served"}, user : Users]
AvatarCalls == {NoCall} \cup [at : {"sent", "served"}, remove : BOOLEAN, user : Users, revision : Nat]
SavingCalls == {NoCall} \cup [at : {"sent", "served"}, to : Drafts]
Refreshes == {NoCall} \cup [at : {"sent"}] \cup [at : {"served"}, config : Drafts]
SwitchCalls == {NoCall} \cup [at : {"native", "preferences"}, field : Fields, to : {0, 1}]

\* The profile: the name shown is the server's but for an answer on its way, and
\* so is the whole user as long as one form is busy at a time.
ProfileInv ==
  /\ server \in Users /\ shown \in Users /\ name \in NameCalls /\ avatar \in AvatarCalls
  /\ saving = NoCall /\ refresh = NoCall /\ saves \in Nat
  /\ setting = "profile" =>
       (IF name.at = "served" THEN name.user.name = server.name ELSE shown.name = server.name)
  /\ ~crossed =>
       /\ name = NoCall \/ avatar = NoCall
       /\ name.at = "served" => name.user = server
       /\ name.at # "served" /\ avatar.at # "served" => shown = server
       /\ avatar # NoCall => avatar.user = shown
       /\ avatar.at = "served" => /\ avatar.revision = server.avatar
                                  /\ server = [shown EXCEPT !.avatar = @ + 1]

\* The common settings: the copy is what is stored but for an answer on its way,
\* and a refresh brings what is shown already or what is stored by now.
CommonInv ==
  /\ server \in Drafts /\ shown \in Drafts /\ draft \in Drafts /\ wanted \in Drafts
  /\ saving \in SavingCalls /\ refresh \in Refreshes
  /\ name = NoCall /\ avatar = NoCall /\ ~crossed
  /\ IF saving.at = "served" THEN saving.to = server ELSE shown = server
  /\ setting = "desktop common" => refresh = NoCall
  /\ refresh.at = "served" => refresh.config \in {shown, server}
  /\ \A f \in Fields \ lost : /\ draft[f] = wanted[f]
                              /\ saving # NoCall => saving.to[f] = wanted[f]

\* The switches: a value goes to the native side, then to the preferences.
RuntimeInv ==
  /\ saving \in SwitchCalls
  /\ name = NoCall /\ avatar = NoCall /\ refresh = NoCall /\ ~crossed
  /\ shown = server
  /\ wanted = IF saving = NoCall THEN shown ELSE [shown EXCEPT ![saving.field] = saving.to]
  /\ native = IF saving.at = "preferences" THEN wanted ELSE shown
  /\ shown \in Drafts

SettingsInv ==
  ~troubled => /\ Profile => ProfileInv
               /\ Common => CommonInv
               /\ setting = "runtime" => RuntimeInv
               /\ setting \in Settings

LEMMA SettingsInvInit == SettingsInit => SettingsInv
<1> SUFFICES ASSUME SettingsInit PROVE SettingsInv
  OBVIOUS
<1>1. Nothing \in Drafts
  BY DEF Nothing, Drafts
<1>2. Profile => ProfileInv
  BY DEF SettingsInit, ProfileInv, Profile, Users, NameCalls, AvatarCalls, User, NoCall
<1>3. Common => CommonInv
  BY <1>1 DEF SettingsInit, CommonInv, Profile, Common, SavingCalls, Refreshes, NoCall
<1>4. setting = "runtime" => RuntimeInv
  BY <1>1 DEF SettingsInit, RuntimeInv, Profile, SwitchCalls, NoCall
<1> QED BY <1>2, <1>3, <1>4 DEF SettingsInit, SettingsInv

LEMMA ProfileStep ==
  ASSUME Profile, ProfileInv, setting \in Settings, SettingsNext, ~troubled'
  PROVE  ProfileInv' /\ UNCHANGED setting
<1> USE DEF ProfileInv, NameCalls, AvatarCalls, NoCall, Users
<1>1. setting \in {"profile", "desktop profile"}
  BY DEF Profile
<1>2. CASE saveName
  <2>1. saves' \in Nat
    BY <1>2 DEF saveName, Counted
  <2> QED BY <1>2, <2>1 DEF saveName, otherThanProfile
<1>3. CASE nameServed
  BY <1>3 DEF nameServed, otherThanProfile
<1>4. CASE nameSaved
  BY <1>4 DEF nameSaved, otherThanProfile
<1>5. CASE nameFails \/ avatarFails \/ saveFails \/ switchFails
  BY <1>5 DEF nameFails, avatarFails, saveFails, switchFails
<1>6. CASE changeAvatar
  <2>1. PICK removes \in BOOLEAN : avatar' = [at |-> "sent", remove |-> removes, user |-> shown, revision |-> 0]
    BY <1>6 DEF changeAvatar
  <2>2. avatar' \in AvatarCalls /\ avatar'.at = "sent" /\ avatar'.user = shown /\ avatar' # NoCall
    BY <2>1
  <2>3. crossed' <=> (crossed \/ name # NoCall)
    BY <1>6 DEF changeAvatar
  <2>4. avatar = NoCall /\ UNCHANGED <<setting, server, shown, name, saving, refresh>> /\ saves' \in Nat
    BY <1>6 DEF changeAvatar, Counted, otherThanProfile
  <2> QED BY <2>2, <2>3, <2>4
<1>7. CASE avatarServed
  <2>1. /\ avatar \in [at : {"sent", "served"}, remove : BOOLEAN, user : Users, revision : Nat]
        /\ avatar.at = "sent"
    BY <1>7 DEF avatarServed
  <2>2. server' = [server EXCEPT !.avatar = @ + 1] /\ server' \in Users /\ server'.name = server.name
    BY <1>7 DEF avatarServed
  <2>3. avatar' = [avatar EXCEPT !.at = "served", !.revision = server'.avatar]
    BY <1>7 DEF avatarServed
  <2>4. /\ avatar' \in AvatarCalls /\ avatar' # NoCall /\ avatar'.at = "served"
        /\ avatar'.user = avatar.user /\ avatar'.revision = server'.avatar
    BY <2>1, <2>2, <2>3
  <2>5. UNCHANGED <<setting, saves, shown, name, crossed, saving, refresh>>
    BY <1>7 DEF avatarServed, otherThanProfile
  <2>6. avatar # NoCall
    BY <2>1
  <2> QED BY <2>1, <2>2, <2>4, <2>5, <2>6
<1>8. CASE avatarChanged
  <2>1. /\ avatar \in [at : {"sent", "served"}, remove : BOOLEAN, user : Users, revision : Nat]
        /\ avatar.at = "served" /\ avatar # NoCall
    BY <1>8 DEF avatarChanged
  <2>2. PICK n \in Nat : /\ n \in {avatar.revision} \cup {shown.avatar + 1, avatar.user.avatar + 1}
                         /\ setting = "profile" => shown' = [shown EXCEPT !.avatar = n]
                         /\ setting # "profile" => shown' = [avatar.user EXCEPT !.avatar = n]
                         /\ avatar.user = shown => n \in {shown.avatar + 1, avatar.revision}
    <3> DEFINE user == IF setting = "profile" THEN shown ELSE avatar.user
               m == IF avatar.remove THEN user.avatar + 1 ELSE avatar.revision
    <3>1. shown' = [user EXCEPT !.avatar = m]
      BY <1>8 DEF avatarChanged
    <3>2. avatar.user \in Users /\ avatar.revision \in Nat
      BY <2>1
    <3>3. user \in Users /\ m \in Nat /\ m \in {avatar.revision, user.avatar + 1}
      BY <3>2
    <3>4. (setting = "profile" => user = shown) /\ (setting # "profile" => user = avatar.user)
      OBVIOUS
    <3> HIDE DEF m, user
    <3> QED BY <3>1, <3>3, <3>4
  <2>3. UNCHANGED <<setting, saves, server, name, crossed, saving, refresh>> /\ avatar' = NoCall
    BY <1>8 DEF avatarChanged, otherThanProfile
  <2>4. shown' \in Users /\ (setting = "profile" => shown'.name = shown.name)
    BY <2>1, <2>2
  <2>5. ASSUME ~crossed PROVE shown' = server /\ name.at = "idle"
    <3>1. avatar.user = shown /\ name = NoCall
      BY <2>1, <2>5
    <3>2. n = shown.avatar + 1 /\ shown' = [shown EXCEPT !.avatar = n]
      BY <3>1, <2>1, <2>2, <2>5
    <3> QED BY <3>1, <3>2, <2>1, <2>5
  <2> QED BY <2>1, <2>3, <2>4, <2>5
<1>9. ~save /\ ~saveServed /\ ~saved /\ ~refreshServed /\ ~configRefreshed /\ ~nativeSet /\ ~preferencesSet
  BY <1>1 DEF save, saveServed, saved, refreshServed, configRefreshed, nativeSet, preferencesSet, Common
<1>10. \A f \in Fields : ~edit(f) /\ ~setSwitch(f)
  BY <1>1 DEF edit, setSwitch, Common
<1> QED BY <1>2, <1>3, <1>4, <1>5, <1>6, <1>7, <1>8, <1>9, <1>10 DEF SettingsNext

LEMMA CommonStep ==
  ASSUME Common, CommonInv, SettingsNext, ~troubled'
  PROVE  CommonInv' /\ UNCHANGED setting
<1>a. /\ server \in Drafts /\ shown \in Drafts /\ draft \in Drafts /\ wanted \in Drafts
      /\ saving \in SavingCalls /\ refresh \in Refreshes
      /\ name = NoCall /\ avatar = NoCall /\ ~crossed
  BY DEF CommonInv
<1>b. IF saving.at = "served" THEN saving.to = server ELSE shown = server
  BY DEF CommonInv
<1>c. /\ setting = "desktop common" => refresh = NoCall
      /\ refresh.at = "served" => refresh.config \in {shown, server}
  BY DEF CommonInv
<1>d. \A f \in Fields \ lost : draft[f] = wanted[f] /\ (saving # NoCall => saving.to[f] = wanted[f])
  BY DEF CommonInv
<1>e. saving = NoCall \/ saving \in [at : {"sent", "served"}, to : Drafts]
  BY <1>a DEF SavingCalls
<1>f. refresh = NoCall \/ refresh \in [at : {"sent"}] \/ refresh \in [at : {"served"}, config : Drafts]
  BY <1>a DEF Refreshes
<1>g. NoCall.at = "idle"
  BY DEF NoCall
<1>1. setting \in {"common", "desktop common"}
  BY DEF Common
<1>2. ASSUME NEW f \in Fields, edit(f) PROVE CommonInv' /\ UNCHANGED setting
  <2>1. PICK v \in {0, 1} : draft' = [draft EXCEPT ![f] = v] /\ wanted' = [wanted EXCEPT ![f] = v]
    BY <1>2 DEF edit
  <2>2. /\ UNCHANGED <<setting, server, shown, saving, refresh, name, avatar, crossed>>
        /\ lost' = IF saving = NoCall THEN lost \ {f} ELSE lost \cup {f}
    BY <1>2 DEF edit, otherThanCommon
  <2>3. draft' \in Drafts /\ wanted' \in Drafts
    BY <2>1, <1>a DEF Drafts
  <2>4. ASSUME NEW g \in Fields \ lost'
        PROVE  draft'[g] = wanted'[g] /\ (saving # NoCall => saving.to[g] = wanted'[g])
    BY <2>1, <2>2, <2>4, <1>a, <1>d DEF Drafts
  <2> QED BY <2>2, <2>3, <2>4, <1>a, <1>b, <1>c DEF CommonInv
<1>3. CASE save
  <2>1. /\ UNCHANGED <<setting, server, shown, draft, refresh, wanted, lost, name, avatar, crossed>>
        /\ saving = NoCall /\ saving' = [at |-> "sent", to |-> draft]
    BY <1>3 DEF save, otherThanCommon
  <2>2. saving' \in SavingCalls /\ saving'.at = "sent" /\ saving'.to = draft /\ saving' # NoCall
    BY <2>1, <1>a, <1>g DEF SavingCalls
  <2> QED BY <2>1, <2>2, <1>a, <1>b, <1>c, <1>d, <1>g DEF CommonInv
<1>4. CASE saveServed
  <2>1. saving \in [at : {"sent", "served"}, to : Drafts] /\ saving.at = "sent"
    BY <1>4, <1>e, <1>g DEF saveServed
  <2>2. /\ UNCHANGED <<setting, shown, draft, refresh, wanted, lost, name, avatar, crossed>>
        /\ server' = saving.to /\ saving' = [saving EXCEPT !.at = "served"]
    BY <1>4 DEF saveServed, otherThanCommon
  <2>3. saving' \in SavingCalls /\ saving'.at = "served" /\ saving'.to = saving.to
        /\ saving # NoCall /\ saving' # NoCall
    BY <2>1, <2>2, <1>g DEF SavingCalls
  <2>4. server' \in Drafts /\ shown = server
    BY <2>1, <2>2, <1>b
  <2> QED BY <2>1, <2>2, <2>3, <2>4, <1>a, <1>c, <1>d DEF CommonInv
<1>5. CASE saved
  <2>1. saving \in [at : {"sent", "served"}, to : Drafts] /\ saving.at = "served" /\ saving # NoCall
    BY <1>5, <1>e, <1>g DEF saved
  <2>2. /\ UNCHANGED <<setting, server, wanted, lost, name, avatar, crossed>> /\ saving' = NoCall
        /\ shown' = saving.to /\ draft' \in {draft, saving.to}
        /\ setting = "common" => refresh' = [at |-> "sent"]
        /\ setting # "common" => refresh' = refresh
    BY <1>5 DEF saved, otherThanCommon, Stores, Drafted
  <2>3. refresh' \in Refreshes /\ refresh'.at # "served" /\ (setting = "desktop common" => refresh' = NoCall)
    <3>1. CASE setting = "common"
      BY <3>1, <2>2 DEF Refreshes
    <3>2. CASE setting = "desktop common"
      BY <3>2, <2>2, <1>a, <1>c, <1>g
    <3> QED BY <3>1, <3>2, <1>1
  <2>4. shown' = server' /\ shown' \in Drafts /\ draft' \in Drafts
    BY <2>1, <2>2, <1>a, <1>b
  <2>5. \A f \in Fields \ lost' : draft'[f] = wanted'[f]
    BY <2>1, <2>2, <1>d
  <2> QED BY <2>2, <2>3, <2>4, <2>5, <1>a, <1>g DEF CommonInv, SavingCalls
<1>6. CASE refreshServed
  <2>1. /\ UNCHANGED <<setting, server, shown, draft, saving, wanted, lost, name, avatar, crossed>>
        /\ refresh.at = "sent" /\ refresh' = [at |-> "served", config |-> server]
    BY <1>6 DEF refreshServed, otherThanCommon
  <2>2. refresh' \in Refreshes /\ refresh'.config = server /\ setting # "desktop common"
    BY <2>1, <1>a, <1>c, <1>g DEF Refreshes
  <2> QED BY <2>1, <2>2, <1>a, <1>b, <1>d DEF CommonInv
<1>7. CASE configRefreshed
  <2>1. refresh \in [at : {"served"}, config : Drafts] /\ refresh.config \in {shown, server}
    BY <1>7, <1>c, <1>f, <1>g DEF configRefreshed
  <2>2. /\ UNCHANGED <<setting, server, wanted, saving, lost, name, avatar, crossed>> /\ refresh' = NoCall
        /\ shown' = refresh.config
        /\ draft' = IF refresh.config = shown THEN draft ELSE refresh.config
    BY <1>7 DEF configRefreshed, otherThanCommon, Stores, Drafted
  <2>3. shown' \in Drafts /\ draft' \in Drafts /\ refresh' \in Refreshes /\ refresh'.at = "idle"
    BY <2>1, <2>2, <1>a, <1>g DEF Refreshes
  <2>4. CASE saving.at = "served"
    <3>1. saving.to = server /\ saving # NoCall /\ draft' \in {draft, saving.to}
      BY <2>1, <2>2, <2>4, <1>b, <1>g
    <3> QED BY <2>2, <2>3, <2>4, <3>1, <1>a, <1>d DEF CommonInv
  <2>5. CASE saving.at # "served"
    <3>1. shown' = shown /\ draft' = draft
      BY <2>1, <2>2, <2>5, <1>b
    <3> QED BY <2>2, <2>3, <2>5, <3>1, <1>a, <1>b, <1>d DEF CommonInv
  <2> QED BY <2>4, <2>5
<1>8. CASE nameFails \/ avatarFails \/ saveFails \/ switchFails
  BY <1>8 DEF nameFails, avatarFails, saveFails, switchFails
<1>9. ~saveName /\ ~nameServed /\ ~nameSaved /\ ~changeAvatar /\ ~avatarServed /\ ~avatarChanged
      /\ ~nativeSet /\ ~preferencesSet /\ \A f \in Fields : ~setSwitch(f)
  <2>1. ~Profile /\ setting # "runtime"
    BY <1>1 DEF Profile
  <2>2. name.at = "idle" /\ avatar.at = "idle"
    BY <1>a, <1>g
  <2>3. saving.at \in {"idle", "sent", "served"}
    <3>1. CASE saving = NoCall
      BY <3>1, <1>g
    <3>2. CASE saving \in [at : {"sent", "served"}, to : Drafts]
      BY <3>2
    <3> QED BY <3>1, <3>2, <1>e
  <2> QED BY <2>1, <2>2, <2>3 DEF saveName, nameServed, nameSaved, changeAvatar, avatarServed, avatarChanged,
       nativeSet, preferencesSet, setSwitch
<1> QED BY <1>2, <1>3, <1>4, <1>5, <1>6, <1>7, <1>8, <1>9 DEF SettingsNext

LEMMA RuntimeStep ==
  ASSUME setting = "runtime", RuntimeInv, SettingsNext, ~troubled'
  PROVE  RuntimeInv' /\ UNCHANGED setting
<1> USE DEF RuntimeInv, SwitchCalls, NoCall
<1>1. ASSUME NEW f \in Fields, setSwitch(f) PROVE RuntimeInv' /\ UNCHANGED setting
  BY <1>1 DEF setSwitch, otherThanRuntime, Drafts
<1>2. CASE nativeSet
  <2>1. saving \in [at : {"native", "preferences"}, field : Fields, to : {0, 1}] /\ saving.at = "native"
    BY <1>2 DEF nativeSet
  <2>2. /\ saving' \in SwitchCalls /\ saving' # NoCall /\ saving'.at = "preferences"
        /\ saving'.field = saving.field /\ saving'.to = saving.to
    BY <2>1, <1>2 DEF nativeSet
  <2>3. /\ native' = [native EXCEPT ![saving.field] = saving.to]
        /\ UNCHANGED <<setting, server, shown, wanted, name, avatar, refresh, crossed>>
    BY <1>2 DEF nativeSet, otherThanRuntime
  <2>4. /\ native = shown /\ wanted = [shown EXCEPT ![saving.field] = saving.to] /\ native' = wanted
        /\ saving # NoCall
    <3>1. saving # NoCall
      BY <2>1
    <3>2. native = shown /\ wanted = [shown EXCEPT ![saving.field] = saving.to]
      BY <2>1, <3>1
    <3> QED BY <3>1, <3>2, <2>3
  <2> QED BY <2>2, <2>3, <2>4
<1>3. CASE preferencesSet
  BY <1>3 DEF preferencesSet, otherThanRuntime, Drafts
<1>4. CASE nameFails \/ avatarFails \/ saveFails \/ switchFails
  BY <1>4 DEF nameFails, avatarFails, saveFails, switchFails
<1>5. ~saveName /\ ~nameServed /\ ~nameSaved /\ ~changeAvatar /\ ~avatarServed /\ ~avatarChanged
      /\ ~save /\ ~saveServed /\ ~saved /\ ~refreshServed /\ ~configRefreshed /\ \A f \in Fields : ~edit(f)
  BY DEF saveName, nameServed, nameSaved, changeAvatar, avatarServed, avatarChanged, save, saveServed,
     saved, refreshServed, configRefreshed, edit, Profile, Common
<1> QED BY <1>1, <1>2, <1>3, <1>4, <1>5 DEF SettingsNext

LEMMA TroubleStays == SettingsNext /\ troubled => troubled'
  BY DEF SettingsNext, saveName, nameServed, nameSaved, nameFails, changeAvatar, avatarServed,
     avatarChanged, avatarFails, save, saveServed, saved, saveFails, refreshServed, configRefreshed,
     edit, setSwitch, nativeSet, preferencesSet, switchFails

LEMMA SettingsInvNext == SettingsInv /\ [SettingsNext]_settingVars => SettingsInv'
<1> SUFFICES ASSUME SettingsInv, [SettingsNext]_settingVars, ~troubled' PROVE SettingsInv'
  BY DEF SettingsInv
<1>1. CASE UNCHANGED settingVars
  BY <1>1 DEF settingVars, SettingsInv, ProfileInv, CommonInv, RuntimeInv, Profile, Common
<1>2. CASE SettingsNext
  <2>1. ~troubled /\ setting \in Settings
    BY <1>2, TroubleStays DEF SettingsInv
  <2>2. CASE Profile
    BY <2>1, <2>2, <1>2, ProfileStep DEF SettingsInv, Profile, Common
  <2>3. CASE Common
    BY <2>1, <2>3, <1>2, CommonStep DEF SettingsInv, Profile, Common
  <2>4. CASE setting = "runtime"
    BY <2>1, <2>4, <1>2, RuntimeStep DEF SettingsInv, Profile, Common
  <2> QED BY <2>1, <2>2, <2>3, <2>4 DEF Settings, Profile, Common
<1> QED BY <1>1, <1>2

LEMMA SettingsInvIsTrue == SettingsInv => SettingsAreTrue
<1> SUFFICES ASSUME SettingsInv, ~troubled, name = NoCall, avatar = NoCall, saving = NoCall, refresh = NoCall
    PROVE  /\ crossed => (setting = "profile" => shown.name = server.name)
           /\ ~crossed => shown = server
           /\ Common => \A f \in Fields \ lost : draft[f] = wanted[f]
           /\ setting = "runtime" => native = shown /\ wanted = shown
  BY DEF SettingsAreTrue
<1>1. NoCall.at = "idle"
  BY DEF NoCall
<1> QED BY <1>1 DEF SettingsInv, ProfileInv, CommonInv, RuntimeInv, Profile, Common, Settings

\* However saves, edits, changes of the picture, refreshes and failures of a settings
\* form interleave: once they are over and none failed, what is shown is what the
\* server or the native side has, and a field holds what the user last chose.
THEOREM SettingsAreAlwaysTrue == SettingsSpec => []SettingsAreTrue
<1>1. SettingsInit => SettingsInv
  BY SettingsInvInit
<1>2. SettingsInv /\ [SettingsNext]_settingVars => SettingsInv'
  BY SettingsInvNext
<1>3. SettingsInv => SettingsAreTrue
  BY SettingsInvIsTrue
<1> QED BY <1>1, <1>2, <1>3, PTL DEF SettingsSpec

-------------------------------------------------------------------------------
(* WebUploads.                                                                *)

\* The stages of a run, those with a session, and the server's sessions.
Stages == {"none", "waiting", "opening", "opened", "parts", "finalizing"}
WithSession == {"opened", "parts", "finalizing"}
ServerSessions == [Sessions -> [state : {"none", "open", "cancelled", "completed"}, parts : SUBSET Parts]]

\* A run, whatever the state of its parts, and what the server knows of it.
IsRun(x) == x = [task |-> x.task, epoch |-> x.epoch, resume |-> x.resume, pc |-> x.pc,
                 aborted |-> x.aborted, session |-> x.session, found |-> x.found, part |-> x.part]
RunIsSound(x, ep, sv) ==
  /\ IsRun(x) /\ x.pc \in Stages
  /\ x.pc # "none" => /\ x.task \in Tasks /\ x.epoch \in 0..ep /\ x.resume \in Sessions \cup {0}
                      /\ x.resume # 0 => sv[x.resume].state # "none"
  /\ x.pc \in WithSession => x.session \in Sessions /\ sv[x.session].state # "none"
  /\ x.pc = "opened" => /\ x.found \in {"open", "completed", "cancelled"}
                        /\ x.found = "completed" => sv[x.session].state = "completed"

\* The runs of one epoch, and those of one task; the one session of a task.
Mine(rs, ep) == {r \in Runs : rs[r].pc # "none" /\ rs[r].epoch = ep}
MineOf(rs, ep, t) == {r \in Mine(rs, ep) : rs[r].task = t}
HasSession(x, st, se) ==
  st[x.task] # "removed" =>
    /\ x.pc \in {"waiting", "opening"} => x.resume = se[x.task]
    /\ x.pc = "opened" => se[x.task] \in {0, x.session}
    /\ x.pc \in {"parts", "finalizing"} => se[x.task] = x.session

\* Every run is sound, and those of the epoch upload to their task's session.
RunsAreSound(rs, ep, st, se, sv) ==
  /\ rs = [r \in Runs |-> rs[r]]
  /\ \A r \in Runs : RunIsSound(rs[r], ep, sv)
  /\ \A r \in Mine(rs, ep) : HasSession(rs[r], st, se)

\* The engine counts its runs, and the gate's queue has those that wait.
UploadsCounted(rs, ep, n) == IsFiniteSet(Mine(rs, ep)) /\ n = Cardinality(Mine(rs, ep)) /\ n <= FileSlots
GateHas(gq, rs) ==
  /\ gq \in Seq(Runs)
  /\ \A i \in 1..Len(gq) : rs[gq[i]].pc = "waiting"
  /\ \A i, j \in 1..Len(gq) : gq[i] = gq[j] => i = j

\* What is shown of a task is attended, and it is uploaded by one run.
At(q, i, t) == i \in 1..Len(q) /\ q[i] = t
Listed(q, t) == \E i \in 1..Len(q) : q[i] = t
Attended(t, rs, ep, st, q, cs) ==
  /\ st[t] = "queued" => Listed(q, t) \/ \E r \in MineOf(rs, ep, t) : rs[r].pc = "waiting"
  /\ st[t] \in {"preparing", "uploading", "finalizing"} => MineOf(rs, ep, t) # {}
  /\ st[t] = "cancelling" => \E c \in cs : c.task = t /\ c.epoch = ep
OneRun(t, rs, ep, st, q) ==
  /\ \A r, s \in MineOf(rs, ep, t) : r = s
  /\ Listed(q, t) => MineOf(rs, ep, t) = {} /\ st[t] \in {"queued", "cancelled", "removed"}
  /\ \A i, j \in 1..Len(q) : q[i] = t /\ q[j] = t => i = j
  /\ st[t] \in {"none", "error", "skipped", "completed"} => MineOf(rs, ep, t) = {}
Remembered(t, st, se, cs, cf, sv) ==
  /\ st[t] = "completed" => se[t] # 0 /\ sv[se[t]].state = "completed"
  /\ se[t] # 0 => sv[se[t]].state # "none"
  /\ se[t] = 0 /\ st[t] # "removed" => t \notin cf /\ \A c \in cs : c.task # t
  /\ st[t] = "none" => se[t] = 0

\* All of it, of the engine's state given piece by piece.
Typed(st, se, q, sv) ==
  /\ st \in [Tasks -> Statuses] /\ se \in [Tasks -> Sessions \cup {0}]
  /\ q \in Seq(Tasks) /\ sv \in ServerSessions

Good(st, se, q, n, rs, gq, ep, cs, cf, sv) ==
  /\ Typed(st, se, q, sv) /\ RunsAreSound(rs, ep, st, se, sv) /\ UploadsCounted(rs, ep, n) /\ GateHas(gq, rs)
  /\ \A t \in Tasks : /\ Attended(t, rs, ep, st, q, cs)
                      /\ t \notin cf => OneRun(t, rs, ep, st, q)
                      /\ Remembered(t, st, se, cs, cf, sv)

\* A task waits only behind a full set of runs; a plan goes on in an epoch in
\* which its task is new; a disabled engine has no runs and shows no tasks.
QueueIsFull(q, n) == q # <<>> => n = FileSlots
Cancels == [task : Tasks, session : Sessions, epoch : 0..MaxEpoch]
PlansAreSound(pl, st, ep) ==
  /\ pl \subseteq [task : Tasks, epoch : 0..MaxEpoch]
  /\ \A p \in pl : p.epoch <= ep /\ (p.epoch = ep => st[p.task] = "none")
  /\ \A p, q \in pl : p.task = q.task => p = q
NothingWhileDisabled(en, rs, ep, st) ==
  ~en => Mine(rs, ep) = {} /\ \A t \in Tasks : st[t] \in {"none", "removed"}

EngineTypeOK ==
  /\ enabled \in BOOLEAN /\ epoch \in 0..MaxEpoch /\ faults \in 0..MaxFaults
  /\ controller \in [Tasks -> Runs \cup {0}] /\ cancels \subseteq Cancels
\* The inductive invariant.
UploadsInv ==
  /\ EngineTypeOK
  /\ Good(status, session, queue, activeFiles, runs, gateQueue, epoch, cancels, cancelFailed, sessions)
  /\ QueueIsFull(queue, activeFiles) /\ PlansAreSound(plans, status, epoch)
  /\ NothingWhileDisabled(enabled, runs, epoch, status)

\* The server forgets no session and reopens no completed one.
Grows(sv, sv2) ==
  /\ sv2 \in ServerSessions
  /\ \A s \in Sessions : /\ sv[s].state # "none" => sv2[s].state # "none"
                         /\ sv[s].state = "completed" => sv2[s].state = "completed"

-----------------------------------------------------------------------------
\* Lowest finds the least element: the naturals are well-founded.
LEMMA LowestIsLeast ==
  ASSUME NEW S \in SUBSET Nat, S # {}
  PROVE  Lowest(S) \in S /\ \A y \in S : Lowest(S) <= y
<1> DEFINE R == {ss \in Nat \X Nat : ss[1] < ss[2]}
<1>1. OpToRel(<, Nat) = R
  BY DEF OpToRel
<1>2. IsWellFoundedOn(R, Nat)
  BY <1>1, NatLessThanWellFounded, Zenon
<1> HIDE DEF R
<1>3. PICK x \in S : \A y \in S : ~ (<<y, x>> \in R)
  BY <1>2, WFMin
<1>4. \A y \in S : x <= y
  <2> TAKE y \in S
  <2>1. <<y, x>> \in Nat \X Nat /\ <<y, x>>[1] = y /\ <<y, x>>[2] = x
    OBVIOUS
  <2>2. ~(y < x)
    BY <1>3, <2>1 DEF R
  <2> QED BY <2>2
<1> QED BY <1>4 DEF Lowest

\* A run that changes leaves the others alone.
LEMMA RunChanges ==
  ASSUME NEW rs, rs = [r \in Runs |-> rs[r]], NEW r \in Runs, NEW x
  PROVE  LET rs2 == [rs EXCEPT ![r] = x]
         IN rs2 = [q \in Runs |-> rs2[q]] /\ rs2[r] = x /\ \A q \in Runs : q # r => rs2[q] = rs[q]
  OBVIOUS

\* What the server does on its own: sessions are opened, closed and completed.
LEMMA GoodWhenServed ==
  ASSUME NEW st, NEW se, NEW q, NEW n, NEW rs, NEW gq, NEW ep, NEW cs, NEW cf, NEW sv, NEW sv2,
         Good(st, se, q, n, rs, gq, ep, cs, cf, sv), Grows(sv, sv2)
  PROVE  Good(st, se, q, n, rs, gq, ep, cs, cf, sv2)
<1>1. Typed(st, se, q, sv2)
  BY DEF Good, Typed, Grows
<1>2. \A r \in Runs : RunIsSound(rs[r], ep, sv2)
  <2> TAKE r \in Runs
  <2>1. RunIsSound(rs[r], ep, sv)
    BY DEF Good, RunsAreSound
  <2> QED BY <2>1, Zenon DEF RunIsSound, Grows, WithSession
<1>3. \A t \in Tasks : Remembered(t, st, se, cs, cf, sv2)
  <2> TAKE t \in Tasks
  <2>1. Remembered(t, st, se, cs, cf, sv) /\ se[t] \in Sessions \cup {0}
    BY DEF Good, Typed
  <2> QED BY <2>1 DEF Remembered, Grows
<1> QED BY <1>1, <1>2, <1>3 DEF Good, RunsAreSound

\* Which runs are an epoch's, and a task's, once run r has become x.
LEMMA MineChanges ==
  ASSUME NEW rs, rs = [s \in Runs |-> rs[s]], NEW r \in Runs, NEW x, NEW ep,
         NEW rs2, rs2 = [rs EXCEPT ![r] = x]
  PROVE  /\ \A s \in Runs : s \in Mine(rs2, ep) <=>
              IF s = r THEN x.pc # "none" /\ x.epoch = ep ELSE s \in Mine(rs, ep)
         /\ \A u, s : s \in MineOf(rs2, ep, u) <=>
              IF s = r THEN x.pc # "none" /\ x.epoch = ep /\ x.task = u
              ELSE s \in MineOf(rs, ep, u)
<1>1. rs2 = [s \in Runs |-> rs2[s]] /\ rs2[r] = x /\ \A s \in Runs : s # r => rs2[s] = rs[s]
  BY RunChanges
<1>2. \A s : s \in Mine(rs2, ep) <=>
              IF s = r THEN x.pc # "none" /\ x.epoch = ep ELSE s \in Mine(rs, ep)
  BY <1>1 DEF Mine
<1>3. \A u, s : s \in MineOf(rs2, ep, u) <=>
              IF s = r THEN x.pc # "none" /\ x.epoch = ep /\ x.task = u
              ELSE s \in MineOf(rs, ep, u)
  BY <1>1, <1>2 DEF MineOf
<1> QED BY <1>2, <1>3

\* The gate's queue does not have a run that does not wait.
LEMMA GateKeeps ==
  ASSUME NEW rs, rs = [s \in Runs |-> rs[s]], NEW r \in Runs, NEW x, NEW gq, GateHas(gq, rs),
         rs[r].pc # "waiting"
  PROVE  GateHas(gq, [rs EXCEPT ![r] = x])
<1> DEFINE rs2 == [rs EXCEPT ![r] = x]
<1>1. \A s \in Runs : s # r => rs2[s] = rs[s]
  BY RunChanges
<1> HIDE DEF rs2
<1>2. \A i \in 1..Len(gq) : gq[i] \in Runs /\ gq[i] # r
  BY DEF GateHas
<1> QED BY <1>1, <1>2 DEF GateHas, rs2

\* The first run of the gate's queue leaves it.
LEMMA GateLets ==
  ASSUME NEW rs, rs = [s \in Runs |-> rs[s]], NEW x, NEW gq, GateHas(gq, rs), gq # <<>>
  PROVE  /\ Head(gq) \in Runs /\ rs[Head(gq)].pc = "waiting"
         /\ GateHas(Tail(gq), [rs EXCEPT ![Head(gq)] = x])
<1> DEFINE r == Head(gq) rs2 == [rs EXCEPT ![r] = x]
<1>1. gq \in Seq(Runs) /\ Len(gq) \in Nat \ {0} /\ r = gq[1]
  BY DEF GateHas
<1>2. r \in Runs /\ rs[r].pc = "waiting"
  BY <1>1 DEF GateHas
<1>3. /\ Tail(gq) \in Seq(Runs) /\ Len(Tail(gq)) = Len(gq) - 1
      /\ \A i \in 1..Len(Tail(gq)) : i + 1 \in 1..Len(gq) /\ Tail(gq)[i] = gq[i + 1]
  BY <1>1
<1> HIDE DEF r
<1>4. \A s \in Runs : s # r => rs2[s] = rs[s]
  BY <1>2, RunChanges
<1>5. \A i \in 1..Len(gq) : i # 1 => gq[i] \in Runs /\ gq[i] # r
  BY <1>1 DEF GateHas
<1>6. \A i \in 1..Len(Tail(gq)) : rs2[Tail(gq)[i]].pc = "waiting"
  <2> HIDE DEF rs2
  <2> TAKE i \in 1..Len(Tail(gq))
  <2>1. i + 1 \in 1..Len(gq) /\ i + 1 # 1 /\ Tail(gq)[i] = gq[i + 1]
    BY <1>3, <1>1
  <2>2. gq[i + 1] \in Runs /\ gq[i + 1] # r
    BY <2>1, <1>5
  <2>3. rs[gq[i + 1]].pc = "waiting"
    BY <2>1 DEF GateHas
  <2> QED BY <2>1, <2>2, <2>3, <1>4
<1>7. \A i, j \in 1..Len(Tail(gq)) : Tail(gq)[i] = Tail(gq)[j] => i = j
  <2> TAKE i, j \in 1..Len(Tail(gq))
  <2>1. i + 1 \in 1..Len(gq) /\ j + 1 \in 1..Len(gq) /\ Tail(gq)[i] = gq[i + 1] /\ Tail(gq)[j] = gq[j + 1]
    BY <1>3
  <2>2. gq[i + 1] = gq[j + 1] => i + 1 = j + 1
    BY <2>1 DEF GateHas
  <2>3. i \in Int /\ j \in Int
    BY <1>3, <1>1
  <2> QED BY <2>1, <2>2, <2>3
<1> QED BY <1>2, <1>3, <1>6, <1>7 DEF GateHas, r

\* One run changes, and what the page knows of the tasks may.
LEMMA SoundChanges ==
  ASSUME NEW rs, NEW r \in Runs, NEW x, NEW ep, NEW st, NEW st2, NEW se, NEW se2, NEW sv, NEW rs2,
         RunsAreSound(rs, ep, st, se, sv), rs2 = [rs EXCEPT ![r] = x], RunIsSound(x, ep, sv),
         x.pc # "none" /\ x.epoch = ep => HasSession(x, st2, se2),
         \A s \in Mine(rs, ep) : s # r => HasSession(rs[s], st2, se2)
  PROVE  RunsAreSound(rs2, ep, st2, se2, sv)
<1>0. rs = [s \in Runs |-> rs[s]]
  BY DEF RunsAreSound
<1>1. rs2 = [s \in Runs |-> rs2[s]] /\ rs2[r] = x /\ \A s \in Runs : s # r => rs2[s] = rs[s]
  BY <1>0, RunChanges
<1>2. \A s \in Runs : RunIsSound(rs2[s], ep, sv)
  BY <1>1 DEF RunsAreSound
<1>3. \A s \in Mine(rs2, ep) : HasSession(rs2[s], st2, se2)
  <2> TAKE s \in Mine(rs2, ep)
  <2>0. s \in Runs
    BY DEF Mine
  <2>1. CASE s = r
    BY <2>1, <1>1 DEF Mine
  <2>2. CASE s # r
    <3>1. s \in Mine(rs, ep)
      BY <2>0, <2>2, <1>1 DEF Mine
    <3> QED BY <3>1, <2>0, <2>2, <1>1
  <2> QED BY <2>1, <2>2
<1> QED BY <1>1, <1>2, <1>3 DEF RunsAreSound

\* The session of a run's task is kept where the task's is.
LEMMA SessionKept ==
  ASSUME NEW x, NEW st, NEW st2, NEW se, NEW se2, HasSession(x, st, se),
         se2[x.task] = se[x.task], st2[x.task] # "removed" => st[x.task] # "removed"
  PROVE  HasSession(x, st2, se2)
  BY DEF HasSession

\* The count of the epoch's runs, as one of them goes on, comes or goes.
LEMMA CountKeeps ==
  ASSUME NEW rs, NEW rs2, NEW ep, NEW n, UploadsCounted(rs, ep, n), Mine(rs2, ep) = Mine(rs, ep)
  PROVE  UploadsCounted(rs2, ep, n)
  BY DEF UploadsCounted
\* One run more.
LEMMA CountGrows ==
  ASSUME NEW rs, NEW rs2, NEW ep, NEW n, NEW r, UploadsCounted(rs, ep, n), n < FileSlots,
         r \notin Mine(rs, ep), Mine(rs2, ep) = Mine(rs, ep) \cup {r}
  PROVE  UploadsCounted(rs2, ep, n + 1)
<1>1. IsFiniteSet(Mine(rs, ep)) /\ n = Cardinality(Mine(rs, ep)) /\ FileSlots \in Nat
  BY UploadsAssumption DEF UploadsCounted
<1>2. n \in Nat /\ IsFiniteSet(Mine(rs2, ep)) /\ Cardinality(Mine(rs2, ep)) = n + 1
  BY <1>1, FS_AddElement, FS_CardinalityType
<1> QED BY <1>1, <1>2 DEF UploadsCounted
\* One run less: the count was not zero.
LEMMA CountShrinks ==
  ASSUME NEW rs, NEW rs2, NEW ep, NEW n, NEW r, UploadsCounted(rs, ep, n),
         r \in Mine(rs, ep), Mine(rs2, ep) = Mine(rs, ep) \ {r}
  PROVE  n \in Nat /\ n > 0 /\ UploadsCounted(rs2, ep, n - 1)
<1>1. IsFiniteSet(Mine(rs, ep)) /\ n = Cardinality(Mine(rs, ep)) /\ n <= FileSlots /\ FileSlots \in Nat
  BY UploadsAssumption DEF UploadsCounted
<1>2. n \in Nat /\ IsFiniteSet(Mine(rs2, ep)) /\ Cardinality(Mine(rs2, ep)) = n - 1
  BY <1>1, FS_RemoveElement, FS_CardinalityType
<1>3. n - 1 \in Nat
  BY <1>2, FS_CardinalityType
<1> QED BY <1>1, <1>2, <1>3 DEF UploadsCounted
\* An epoch with a run counts at least one.
LEMMA HasSome ==
  ASSUME NEW rs, NEW ep, NEW n, NEW r, UploadsCounted(rs, ep, n), r \in Mine(rs, ep)
  PROVE  n \in Nat /\ n > 0
<1>1. IsFiniteSet(Mine(rs, ep)) /\ n = Cardinality(Mine(rs, ep))
  BY DEF UploadsCounted
<1> QED BY <1>1, FS_EmptySet, FS_CardinalityType

\* What holds of a task does as long as its status and its runs stay.
LEMMA AttendedKeeps ==
  ASSUME NEW u, NEW rs, NEW rs2, NEW ep, NEW st, NEW st2, NEW q, NEW cs,
         Attended(u, rs, ep, st, q, cs), st2[u] = st[u], MineOf(rs2, ep, u) = MineOf(rs, ep, u),
         \A s \in MineOf(rs, ep, u) : rs[s].pc = "waiting" => rs2[s].pc = "waiting"
  PROVE  Attended(u, rs2, ep, st2, q, cs)
  BY DEF Attended
\* The same of the one run of a task.
LEMMA OneRunKeeps ==
  ASSUME NEW u, NEW rs, NEW rs2, NEW ep, NEW st, NEW st2, NEW q,
         OneRun(u, rs, ep, st, q), st2[u] = st[u], MineOf(rs2, ep, u) = MineOf(rs, ep, u)
  PROVE  OneRun(u, rs2, ep, st2, q)
  BY DEF OneRun

\* A task with a run of its own may be shown as under way.
LEMMA AttendedByRun ==
  ASSUME NEW u, NEW rs, NEW ep, NEW st, NEW q, NEW cs, MineOf(rs, ep, u) # {},
         st[u] \in {"preparing", "uploading", "finalizing"}
  PROVE  Attended(u, rs, ep, st, q, cs)
  BY DEF Attended
\* The task of a run that goes on is not in the queue.
LEMMA OneRunByRun ==
  ASSUME NEW u, NEW rs, NEW rs2, NEW ep, NEW st, NEW st2, NEW q,
         OneRun(u, rs, ep, st, q), MineOf(rs2, ep, u) = MineOf(rs, ep, u),
         MineOf(rs, ep, u) # {}, st2[u] \in {"preparing", "uploading", "finalizing"}
  PROVE  OneRun(u, rs2, ep, st2, q)
  BY DEF OneRun

-----------------------------------------------------------------------------
\* A run of this epoch goes on: its task is shown to be under way, and the
\* session of the task may become known.
Shows(st, st2, t) ==
  /\ st2 \in [Tasks -> Statuses] /\ \A u \in Tasks : u # t => st2[u] = st[u]
  /\ IF st[t] = "removed" THEN st2[t] = "removed"
     ELSE st2[t] = st[t] \/ st2[t] \in {"preparing", "uploading", "finalizing"}
UploadsLearns(se, se2, st, sv, t) ==
  /\ se2 \in [Tasks -> Sessions \cup {0}] /\ \A u \in Tasks : u # t => se2[u] = se[u]
  /\ se2[t] = se[t] \/ (se[t] = 0 /\ st[t] # "removed" /\ sv[se2[t]].state # "none")
\* The invariant is kept by a run that goes on so.
LEMMA GoodGoesOn ==
  ASSUME NEW st, NEW se, NEW q, NEW n, NEW rs, NEW gq, NEW ep, NEW cs, NEW cf, NEW sv,
         Good(st, se, q, n, rs, gq, ep, cs, cf, sv),
         NEW r, r \in Mine(rs, ep), NEW x, NEW t, t = rs[r].task,
         x.task = t, x.epoch = ep, x.pc # "none", RunIsSound(x, ep, sv),
         NEW st2, Shows(st, st2, t), rs[r].pc = "waiting" => st2[t] # "queued",
         NEW se2, UploadsLearns(se, se2, st, sv, t), HasSession(x, st2, se2),
         NEW gq2, NEW rs3, rs3 = [rs EXCEPT ![r] = x], GateHas(gq2, rs3)
  PROVE  Good(st2, se2, q, n, rs3, gq2, ep, cs, cf, sv)
<1>u. /\ st2 \in [Tasks -> Statuses] /\ \A u \in Tasks : u # t => st2[u] = st[u]
      /\ IF st[t] = "removed" THEN st2[t] = "removed"
         ELSE st2[t] = st[t] \/ st2[t] \in {"preparing", "uploading", "finalizing"}
      /\ se2 \in [Tasks -> Sessions \cup {0}] /\ \A u \in Tasks : u # t => se2[u] = se[u]
      /\ se2[t] = se[t] \/ (se[t] = 0 /\ st[t] # "removed" /\ sv[se2[t]].state # "none")
  BY DEF Shows, UploadsLearns
<1>0. /\ rs = [s \in Runs |-> rs[s]] /\ r \in Runs /\ t \in Tasks
      /\ st \in [Tasks -> Statuses] /\ se \in [Tasks -> Sessions \cup {0}]
      /\ RunsAreSound(rs, ep, st, se, sv)
  BY DEF Good, RunsAreSound, Mine, Typed, RunIsSound
<1>2. /\ \A s \in Runs : s \in Mine(rs3, ep) <=> s \in Mine(rs, ep)
      /\ \A u, s : s \in MineOf(rs3, ep, u) <=> s \in MineOf(rs, ep, u)
      /\ rs3[r] = x /\ \A s \in Runs : s # r => rs3[s] = rs[s]
  <2>1. r \in MineOf(rs, ep, t) /\ \A u : r \in MineOf(rs, ep, u) => u = t
    BY DEF MineOf
  <2> QED BY <1>0, <2>1, MineChanges, RunChanges
<1>3. \A u : MineOf(rs3, ep, u) = MineOf(rs, ep, u)
  <2> TAKE u
  <2>1. \A s : s \in MineOf(rs3, ep, u) <=> s \in MineOf(rs, ep, u)
    BY <1>2
  <2> QED BY <2>1 DEF MineOf
<1>4. Mine(rs3, ep) = Mine(rs, ep)
  BY <1>2 DEF Mine
<1>5. UploadsCounted(rs3, ep, n)
  BY <1>4, CountKeeps DEF Good
<1>6. RunsAreSound(rs3, ep, st2, se2, sv)
  <2>1. ASSUME NEW s \in Mine(rs, ep), s # r
        PROVE  HasSession(rs[s], st2, se2)
    <3>1. HasSession(rs[s], st, se) /\ s \in Runs /\ rs[s].task \in Tasks
      BY <1>0 DEF RunsAreSound, Mine, RunIsSound
    <3>2. CASE rs[s].task # t
      BY <1>u, <3>1, <3>2, SessionKept
    <3>3. CASE rs[s].task = t /\ se2[t] = se[t]
      BY <1>u, <3>1, <3>3, SessionKept
    <3>4. CASE rs[s].task = t /\ se2[t] # se[t]
      <4>1. t \notin cf
        BY <1>u, <1>0, <3>4 DEF Good, Remembered
      <4>2. r \in MineOf(rs, ep, t) /\ s \in MineOf(rs, ep, t)
        BY <3>4 DEF MineOf
      <4> QED BY <4>1, <4>2, <2>1, <1>0 DEF Good, OneRun
    <3> QED BY <3>2, <3>3, <3>4
  <2> QED BY <2>1, <1>0, SoundChanges
<1>7. ASSUME NEW u \in Tasks
      PROVE  /\ Attended(u, rs3, ep, st2, q, cs)
             /\ u \notin cf => OneRun(u, rs3, ep, st2, q)
             /\ Remembered(u, st2, se2, cs, cf, sv)
  <2>1. /\ Attended(u, rs, ep, st, q, cs)
        /\ u \notin cf => OneRun(u, rs, ep, st, q)
        /\ Remembered(u, st, se, cs, cf, sv)
    BY DEF Good
  <2>2. /\ u # t => st2[u] = st[u] /\ se2[u] = se[u]
        /\ u = t => \/ st2[u] = st[u] /\ (rs[r].pc = "waiting" => st2[u] # "queued")
                    \/ st2[u] \in {"preparing", "uploading", "finalizing"}
        /\ u = t => r \in MineOf(rs, ep, u)
    BY <1>u DEF MineOf
  <2>3. \A s \in MineOf(rs, ep, u) : s \in Runs /\ (s # r => rs3[s].pc = rs[s].pc)
    BY <1>2 DEF MineOf, Mine
  <2>7. Remembered(u, st2, se2, cs, cf, sv)
    <3>1. /\ st2[u] # "completed" \/ st2[u] = st[u]
          /\ st2[u] = "none" => st[u] = "none"
          /\ st[u] # st2[u] => st[u] # "removed" /\ st2[u] # "removed"
      BY <1>u, <2>1, <2>2
    <3>2. CASE se2[u] = se[u]
      BY <2>1, <3>1, <3>2 DEF Remembered
    <3>3. CASE se2[u] # se[u]
      <4>1. /\ u = t /\ se[u] = 0 /\ st[u] # "removed" /\ sv[se2[u]].state # "none"
            /\ st[u] # "completed"
        BY <1>u, <3>3, <2>2, <2>1 DEF Remembered
      <4>2. u \notin cf
        BY <2>1, <4>1 DEF Remembered
      <4>3. st[u] # "none" /\ st2[u] # "none"
        BY <4>1, <4>2, <2>1, <2>2, <3>1 DEF OneRun
      <4>4. se2[u] # 0 /\ st2[u] # "completed"
        BY <4>1, <3>1, <3>3
      <4> QED BY <4>1, <4>3, <4>4 DEF Remembered
    <3> QED BY <3>2, <3>3
  <2>4. CASE st2[u] \in {"preparing", "uploading", "finalizing"} /\ u = t
    BY <2>4, <2>1, <2>2, <1>3, AttendedByRun, OneRunByRun, <2>7
  <2>5. CASE st2[u] = st[u] /\ st2[u] # "queued"
    <3>1. Attended(u, rs3, ep, st2, q, cs)
      BY <2>5, <2>1, <1>3 DEF Attended
    <3>2. u \notin cf => OneRun(u, rs3, ep, st2, q)
      BY <2>5, <2>1, <1>3, OneRunKeeps
    <3> QED BY <3>1, <3>2, <2>7
  <2>6. CASE st2[u] = st[u] /\ (u = t => rs[r].pc # "waiting")
    <3>1. \A s \in MineOf(rs, ep, u) : rs[s].pc = "waiting" => rs3[s].pc = "waiting"
      <4> TAKE s \in MineOf(rs, ep, u)
      <4>1. s = r => u = t
        BY DEF MineOf
      <4> QED BY <4>1, <2>3, <2>6
    <3>2. Attended(u, rs3, ep, st2, q, cs)
      BY <2>6, <3>1, <2>1, <1>3, AttendedKeeps
    <3>3. u \notin cf => OneRun(u, rs3, ep, st2, q)
      BY <2>6, <2>1, <1>3, OneRunKeeps
    <3> QED BY <3>2, <3>3, <2>7
  <2> QED BY <2>2, <2>4, <2>5, <2>6
<1>8. Typed(st2, se2, q, sv)
  BY <1>u DEF Good, Typed
<1> QED BY <1>5, <1>6, <1>7, <1>8 DEF Good

\* The same, where its session was known and it did not wait.
LEMMA GoodShows ==
  ASSUME NEW st, NEW se, NEW q, NEW n, NEW rs, NEW gq, NEW ep, NEW cs, NEW cf, NEW sv,
         Good(st, se, q, n, rs, gq, ep, cs, cf, sv),
         NEW r, r \in Mine(rs, ep), rs[r].pc # "waiting", NEW x, NEW t, t = rs[r].task,
         x.task = t, x.epoch = ep, x.pc # "none", RunIsSound(x, ep, sv),
         NEW st2, Shows(st, st2, t), HasSession(x, st2, se), NEW rs2, rs2 = [rs EXCEPT ![r] = x]
  PROVE  Good(st2, se, q, n, rs2, gq, ep, cs, cf, sv)
<1>1. rs = [s \in Runs |-> rs[s]] /\ r \in Runs /\ GateHas(gq, rs) /\ se \in [Tasks -> Sessions \cup {0}]
  BY DEF Good, RunsAreSound, Mine, Typed
<1>2. GateHas(gq, [rs EXCEPT ![r] = x])
  BY <1>1, GateKeeps
<1>3. UploadsLearns(se, se, st, sv, t)
  BY <1>1 DEF UploadsLearns
<1> QED BY <1>1, <1>2, <1>3, GoodGoesOn

\* A run of an older epoch goes on or ends.
LEMMA GoodElsewhere ==
  ASSUME NEW st, NEW se, NEW q, NEW n, NEW rs, NEW gq, NEW ep, NEW cs, NEW cf, NEW sv,
         Good(st, se, q, n, rs, gq, ep, cs, cf, sv),
         NEW r \in Runs, r \notin Mine(rs, ep), NEW x, RunIsSound(x, ep, sv),
         x.pc = "none" \/ x.epoch # ep,
         NEW gq2, GateHas(gq2, [rs EXCEPT ![r] = x])
  PROVE  Good(st, se, q, n, [rs EXCEPT ![r] = x], gq2, ep, cs, cf, sv)
<1> DEFINE rs2 == [rs EXCEPT ![r] = x]
<1>0. rs = [s \in Runs |-> rs[s]] /\ RunsAreSound(rs, ep, st, se, sv)
  BY DEF Good, RunsAreSound
<1>1. PICK rs3 : rs3 = rs2
  OBVIOUS
<1> HIDE DEF rs2
<1>2. /\ \A s \in Runs : s \in Mine(rs3, ep) <=> s \in Mine(rs, ep)
      /\ \A u, s : s \in MineOf(rs3, ep, u) <=> s \in MineOf(rs, ep, u)
      /\ \A s \in Runs : s # r => rs3[s] = rs[s]
  <2>1. \A u : r \notin MineOf(rs, ep, u)
    BY DEF MineOf
  <2> QED BY <1>0, <1>1, <2>1, MineChanges, RunChanges DEF rs2
<1>3. \A u : MineOf(rs3, ep, u) = MineOf(rs, ep, u)
  <2> TAKE u
  <2>1. \A s : s \in MineOf(rs3, ep, u) <=> s \in MineOf(rs, ep, u)
    BY <1>2
  <2> QED BY <2>1 DEF MineOf
<1>4. Mine(rs3, ep) = Mine(rs, ep)
  BY <1>2 DEF Mine
<1>5. UploadsCounted(rs3, ep, n)
  BY <1>4, CountKeeps DEF Good
<1>6. RunsAreSound(rs3, ep, st, se, sv)
  <2>1. \A s \in Mine(rs, ep) : HasSession(rs[s], st, se)
    BY <1>0 DEF RunsAreSound
  <2> QED BY <2>1, <1>0, <1>1, SoundChanges DEF rs2
<1>7. ASSUME NEW u \in Tasks
      PROVE  /\ Attended(u, rs3, ep, st, q, cs)
             /\ u \notin cf => OneRun(u, rs3, ep, st, q)
             /\ Remembered(u, st, se, cs, cf, sv)
  <2>1. /\ Attended(u, rs, ep, st, q, cs)
        /\ u \notin cf => OneRun(u, rs, ep, st, q)
        /\ Remembered(u, st, se, cs, cf, sv)
    BY DEF Good
  <2>2. \A s \in MineOf(rs, ep, u) : rs[s].pc = "waiting" => rs3[s].pc = "waiting"
    BY <1>2 DEF MineOf, Mine
  <2>3. Attended(u, rs3, ep, st, q, cs)
    BY <2>1, <2>2, <1>3, AttendedKeeps
  <2>4. u \notin cf => OneRun(u, rs3, ep, st, q)
    BY <2>1, <1>3, OneRunKeeps
  <2> QED BY <2>1, <2>3, <2>4
<1> QED BY <1>1, <1>5, <1>6, <1>7 DEF Good, rs2

\* A run of this epoch ends, and its task is settled, failed or being cancelled.
LEMMA GoodEnd ==
  ASSUME NEW st, NEW se, NEW q, NEW n, NEW rs, NEW gq, NEW ep, NEW cs, NEW cf, NEW sv,
         Good(st, se, q, n, rs, gq, ep, cs, cf, sv),
         NEW r \in Mine(rs, ep), rs[r].pc # "waiting", NEW x, RunIsSound(x, ep, sv), x.pc = "none",
         NEW t, t = rs[r].task,
         NEW st2 \in [Tasks -> Statuses], \A u \in Tasks : u # t => st2[u] = st[u],
         \/ st2[t] = st[t] /\ st[t] \in {"cancelling", "cancelled", "removed"}
         \/ st[t] # "removed" /\ st2[t] \in {"error", "skipped"}
         \/ st[t] # "removed" /\ st2[t] = "completed" /\ se[t] # 0 /\ sv[se[t]].state = "completed"
  PROVE  Good(st2, se, q, n - 1, [rs EXCEPT ![r] = x], gq, ep, cs, cf, sv)
<1> DEFINE rs2 == [rs EXCEPT ![r] = x]
<1>0. /\ rs = [s \in Runs |-> rs[s]] /\ r \in Runs /\ t \in Tasks
      /\ RunsAreSound(rs, ep, st, se, sv) /\ GateHas(gq, rs)
  BY DEF Good, RunsAreSound, Mine, RunIsSound
<1>1. PICK rs3 : rs3 = rs2
  OBVIOUS
<1> HIDE DEF rs2
<1>2. /\ \A s \in Runs : s \in Mine(rs3, ep) <=> s # r /\ s \in Mine(rs, ep)
      /\ \A u, s : s \in MineOf(rs3, ep, u) <=> s # r /\ s \in MineOf(rs, ep, u)
      /\ \A s \in Runs : s # r => rs3[s] = rs[s]
  BY <1>0, <1>1, MineChanges, RunChanges DEF rs2
<1>3. Mine(rs3, ep) = Mine(rs, ep) \ {r}
  BY <1>2 DEF Mine
<1>4. UploadsCounted(rs3, ep, n - 1)
  BY <1>3, CountShrinks DEF Good
<1>5. GateHas(gq, rs3)
  BY <1>0, <1>1, GateKeeps DEF rs2
<1>6. RunsAreSound(rs3, ep, st2, se, sv)
  <2>1. ASSUME NEW s \in Mine(rs, ep)
        PROVE  HasSession(rs[s], st2, se)
    <3>1. HasSession(rs[s], st, se) /\ s \in Runs /\ rs[s].task \in Tasks
      BY <1>0 DEF RunsAreSound, Mine, RunIsSound
    <3>2. st2[rs[s].task] # "removed" => st[rs[s].task] # "removed"
      BY <3>1
    <3> QED BY <3>1, <3>2, SessionKept
  <2> QED BY <2>1, <1>0, <1>1, SoundChanges DEF rs2
<1>7. ASSUME NEW u \in Tasks
      PROVE  /\ Attended(u, rs3, ep, st2, q, cs)
             /\ u \notin cf => OneRun(u, rs3, ep, st2, q)
             /\ Remembered(u, st2, se, cs, cf, sv)
  <2>1. /\ Attended(u, rs, ep, st, q, cs)
        /\ u \notin cf => OneRun(u, rs, ep, st, q)
        /\ Remembered(u, st, se, cs, cf, sv)
    BY DEF Good
  <2>2. CASE u # t
    <3>1. MineOf(rs3, ep, u) = MineOf(rs, ep, u)
      <4>1. \A s : s \in MineOf(rs3, ep, u) <=> s \in MineOf(rs, ep, u)
        BY <1>2, <2>2 DEF MineOf
      <4> QED BY <4>1 DEF MineOf
    <3>2. \A s \in MineOf(rs, ep, u) : rs[s].pc = "waiting" => rs3[s].pc = "waiting"
      BY <1>2, <2>2 DEF MineOf, Mine
    <3>3. st2[u] = st[u]
      BY <2>2
    <3>4. Attended(u, rs3, ep, st2, q, cs)
      BY <2>1, <3>1, <3>2, <3>3, AttendedKeeps
    <3>5. u \notin cf => OneRun(u, rs3, ep, st2, q)
      BY <2>1, <3>1, <3>3, OneRunKeeps
    <3> QED BY <2>1, <3>3, <3>4, <3>5 DEF Remembered
  <2>3. CASE u = t
    <3>1. r \in MineOf(rs, ep, u)
      BY <2>3 DEF MineOf
    <3>2. Attended(u, rs3, ep, st2, q, cs)
      BY <2>1, <2>3 DEF Attended
    <3>3. ASSUME u \notin cf
          PROVE  OneRun(u, rs3, ep, st2, q)
      <4>1. OneRun(u, rs, ep, st, q)
        BY <2>1, <3>3
      <4>2. \A s : s \notin MineOf(rs3, ep, u)
        BY <4>1, <3>1, <1>2 DEF OneRun
      <4> QED BY <4>1, <4>2, <3>1 DEF OneRun
    <3>4. Remembered(u, st2, se, cs, cf, sv)
      BY <2>1, <2>3 DEF Remembered
    <3> QED BY <3>2, <3>3, <3>4
  <2> QED BY <2>2, <2>3
<1>8. Typed(st2, se, q, sv)
  BY DEF Good, Typed
<1> QED BY <1>1, <1>4, <1>5, <1>6, <1>7, <1>8 DEF Good, rs2

\* What is left of the queue behind entry i.
LEMMA RestOfQueue ==
  ASSUME NEW q \in Seq(Tasks), NEW i \in 1..Len(q)
  PROVE  LET q2 == SubSeq(q, i + 1, Len(q))
         IN /\ q2 \in Seq(Tasks) /\ Len(q2) = Len(q) - i
            /\ \A j \in 1..Len(q2) : i + j \in 1..Len(q) /\ q2[j] = q[i + j]
            /\ \A j \in 1..Len(q) : j > i => j - i \in 1..Len(q2) /\ q2[j - i] = q[j]
<1> DEFINE q2 == SubSeq(q, i + 1, Len(q))
<1>1. i \in Nat /\ i >= 1 /\ i <= Len(q) /\ Len(q) \in Nat
  OBVIOUS
<1>2. q2 \in Seq(Tasks) /\ Len(q2) = Len(q) - i /\ Len(q2) \in Nat
  BY <1>1
<1>3. \A j \in 1..(Len(q) - i) : q2[j] = q[i + j]
  <2> TAKE j \in 1..(Len(q) - i)
  <2>1. q2[j] = q[(i + 1) + j - 1]
    BY <1>1
  <2>2. (i + 1) + j - 1 = i + j
    BY <1>1
  <2> QED BY <2>1, <2>2
<1> HIDE DEF q2
<1>4. \A j \in 1..Len(q2) : i + j \in 1..Len(q) /\ q2[j] = q[i + j]
  BY <1>1, <1>2, <1>3
<1>5. \A j \in 1..Len(q) : j > i => j - i \in 1..Len(q2) /\ q2[j - i] = q[j]
  <2> TAKE j \in 1..Len(q)
  <2> HAVE j > i
  <2>1. j - i \in 1..(Len(q) - i) /\ i + (j - i) = j
    BY <1>1
  <2> QED BY <2>1, <1>2, <1>3
<1> QED BY <1>2, <1>4, <1>5 DEF q2

\* A run that waits comes last in the gate's queue.
LEMMA GateTakes ==
  ASSUME NEW rs, rs = [s \in Runs |-> rs[s]], NEW r \in Runs, NEW x, NEW gq, GateHas(gq, rs),
         rs[r].pc # "waiting", x.pc = "waiting"
  PROVE  GateHas(Append(gq, r), [rs EXCEPT ![r] = x])
<1> DEFINE rs2 == [rs EXCEPT ![r] = x] gq2 == Append(gq, r)
<1>1. rs2[r] = x /\ \A s \in Runs : s # r => rs2[s] = rs[s]
  BY RunChanges
<1> HIDE DEF rs2
<1>2. gq \in Seq(Runs) /\ Len(gq) \in Nat /\ \A i \in 1..Len(gq) : gq[i] \in Runs /\ gq[i] # r
  BY DEF GateHas
<1>3. /\ gq2 \in Seq(Runs) /\ Len(gq2) = Len(gq) + 1 /\ gq2[Len(gq) + 1] = r
      /\ \A i \in 1..Len(gq) : gq2[i] = gq[i]
  BY <1>2
<1> HIDE DEF gq2
<1>4. \A i \in 1..Len(gq2) : i = Len(gq) + 1 \/ i \in 1..Len(gq)
  BY <1>2, <1>3
<1>5. \A i \in 1..Len(gq2) : rs2[gq2[i]].pc = "waiting"
  BY <1>1, <1>2, <1>3, <1>4 DEF GateHas
<1>6. \A i, j \in 1..Len(gq2) : gq2[i] = gq2[j] => i = j
  <2> TAKE i, j \in 1..Len(gq2)
  <2>1. CASE i \in 1..Len(gq) /\ j \in 1..Len(gq)
    BY <2>1, <1>3 DEF GateHas
  <2>2. CASE ~(i \in 1..Len(gq) /\ j \in 1..Len(gq))
    BY <2>2, <1>2, <1>3, <1>4
  <2> QED BY <2>1, <2>2
<1> QED BY <1>3, <1>5, <1>6 DEF GateHas, rs2, gq2

\* The first task of the queue that is still queued gets a run.
LEMMA GoodNewRun ==
  ASSUME NEW st, NEW se, NEW q, NEW n, NEW rs, NEW gq, NEW ep, NEW cs, NEW cf, NEW sv,
         Good(st, se, q, n, rs, gq, ep, cs, cf, sv), n < FileSlots,
         NEW i \in 1..Len(q), NEW t, t = q[i], st[t] = "queued",
         \A j \in 1..Len(q) : j < i => st[q[j]] # "queued",
         NEW r \in Runs, rs[r].pc = "none",
         NEW x, RunIsSound(x, ep, sv), x.task = t, x.epoch = ep, x.resume = se[t],
         NEW st2 \in [Tasks -> Statuses], \A u \in Tasks : u # t => st2[u] = st[u],
         NEW gq2,
         \/ x.pc = "opening" /\ st2[t] = "preparing" /\ gq2 = gq
         \/ x.pc = "waiting" /\ st2[t] = st[t] /\ gq2 = Append(gq, r)
  PROVE  Good(st2, se, SubSeq(q, i + 1, Len(q)), n + 1, [rs EXCEPT ![r] = x], gq2, ep, cs, cf, sv)
<1> DEFINE rs2 == [rs EXCEPT ![r] = x]
<1>0. /\ rs = [s \in Runs |-> rs[s]] /\ q \in Seq(Tasks) /\ t \in Tasks
      /\ RunsAreSound(rs, ep, st, se, sv) /\ GateHas(gq, rs) /\ r \notin Mine(rs, ep)
  BY DEF Good, RunsAreSound, Mine, Typed
<1>1. PICK rs3 : rs3 = rs2
  OBVIOUS
<1>q. PICK q2 : q2 = SubSeq(q, i + 1, Len(q))
  OBVIOUS
<1> HIDE DEF rs2
<1>2. /\ \A s \in Runs : s \in Mine(rs3, ep) <=> s = r \/ s \in Mine(rs, ep)
      /\ \A u, s : s \in MineOf(rs3, ep, u) <=> (s = r /\ u = t) \/ s \in MineOf(rs, ep, u)
      /\ rs3[r] = x /\ \A s \in Runs : s # r => rs3[s] = rs[s]
  <2>1. \A u : r \notin MineOf(rs, ep, u)
    BY <1>0 DEF MineOf
  <2>2. x.pc # "none"
    OBVIOUS
  <2> QED BY <1>0, <1>1, <2>1, <2>2, MineChanges, RunChanges DEF rs2
<1>3. Mine(rs3, ep) = Mine(rs, ep) \cup {r}
  BY <1>2 DEF Mine
<1>4. UploadsCounted(rs3, ep, n + 1)
  BY <1>0, <1>3, CountGrows DEF Good
<1>5. GateHas(gq2, rs3)
  <2>1. rs[r].pc # "waiting"
    OBVIOUS
  <2>2. CASE gq2 = gq
    BY <2>1, <2>2, <1>0, <1>1, GateKeeps DEF rs2
  <2>3. CASE x.pc = "waiting" /\ gq2 = Append(gq, r)
    BY <2>1, <2>3, <1>0, <1>1, GateTakes DEF rs2
  <2> QED BY <2>2, <2>3
<1>6. RunsAreSound(rs3, ep, st2, se, sv)
  <2>1. ASSUME NEW s \in Mine(rs, ep)
        PROVE  HasSession(rs[s], st2, se)
    <3>1. HasSession(rs[s], st, se) /\ s \in Runs /\ rs[s].task \in Tasks
      BY <1>0 DEF RunsAreSound, Mine, RunIsSound
    <3>2. st2[rs[s].task] # "removed" => st[rs[s].task] # "removed"
      BY <3>1
    <3> QED BY <3>1, <3>2, SessionKept
  <2>2. HasSession(x, st2, se)
    BY DEF HasSession
  <2> QED BY <2>1, <2>2, <1>0, <1>1, SoundChanges DEF rs2
<1>8. /\ q2 \in Seq(Tasks) /\ Len(q2) = Len(q) - i /\ i \in Nat
      /\ \A j \in 1..Len(q2) : i + j \in 1..Len(q) /\ q2[j] = q[i + j] /\ j \in Nat /\ j > 0
      /\ \A j \in 1..Len(q) : j > i => j - i \in 1..Len(q2) /\ q2[j - i] = q[j]
  <2>1. /\ q2 \in Seq(Tasks) /\ Len(q2) = Len(q) - i
        /\ \A j \in 1..Len(q2) : i + j \in 1..Len(q) /\ q2[j] = q[i + j]
        /\ \A j \in 1..Len(q) : j > i => j - i \in 1..Len(q2) /\ q2[j - i] = q[j]
    BY <1>0, <1>q, RestOfQueue, Zenon
  <2>2. i \in Nat /\ \A j \in 1..Len(q2) : j \in Nat /\ j > 0
    BY <1>0, <2>1
  <2> QED BY <2>1, <2>2
<1>7. ASSUME NEW u \in Tasks
      PROVE  /\ Attended(u, rs3, ep, st2, q2, cs)
             /\ u \notin cf => OneRun(u, rs3, ep, st2, q2)
             /\ Remembered(u, st2, se, cs, cf, sv)
  <2>1. /\ Attended(u, rs, ep, st, q, cs)
        /\ u \notin cf => OneRun(u, rs, ep, st, q)
        /\ Remembered(u, st, se, cs, cf, sv)
    BY DEF Good
  <2>2. Listed(q2, u) => Listed(q, u)
    BY <1>8 DEF Listed
  <2>3. CASE u # t
    <3>1. \A s : s \in MineOf(rs3, ep, u) <=> s \in MineOf(rs, ep, u)
      BY <1>2, <2>3
    <3>2. MineOf(rs3, ep, u) = MineOf(rs, ep, u)
      BY <3>1 DEF MineOf
    <3>3. \A s \in MineOf(rs, ep, u) : rs[s].pc = "waiting" => rs3[s].pc = "waiting"
      BY <1>2 DEF MineOf, Mine
    <3>4. st2[u] = st[u]
      BY <2>3
    <3>5. st[u] = "queued" /\ Listed(q, u) => Listed(q2, u)
      <4> SUFFICES ASSUME st[u] = "queued", NEW j \in 1..Len(q), q[j] = u
                   PROVE  Listed(q2, u)
        BY DEF Listed
      <4>1. j > i
        BY <1>8, <2>3
      <4> QED BY <4>1, <1>8 DEF Listed
    <3>6. Attended(u, rs3, ep, st2, q2, cs)
      BY <2>1, <3>2, <3>3, <3>4, <3>5 DEF Attended
    <3>7. ASSUME u \notin cf
          PROVE  OneRun(u, rs3, ep, st2, q2)
      <4>1. OneRun(u, rs, ep, st, q)
        BY <2>1, <3>7
      <4>2. \A j, k \in 1..Len(q2) : q2[j] = u /\ q2[k] = u => j = k
        <5> TAKE j, k \in 1..Len(q2)
        <5> HAVE q2[j] = u /\ q2[k] = u
        <5>1. i + j \in 1..Len(q) /\ i + k \in 1..Len(q) /\ q[i + j] = u /\ q[i + k] = u
          BY <1>8
        <5>2. i + j = i + k
          BY <4>1, <5>1 DEF OneRun
        <5> QED BY <5>2, <1>8
      <4> QED BY <4>1, <4>2, <2>2, <3>2, <3>4 DEF OneRun
    <3> QED BY <2>1, <3>4, <3>6, <3>7 DEF Remembered
  <2>4. CASE u = t
    <3>1. r \in MineOf(rs3, ep, u) /\ rs3[r] = x
      BY <2>4, <1>2
    <3>2. Attended(u, rs3, ep, st2, q2, cs)
      <4>1. CASE x.pc = "opening"
        BY <4>1, <2>4, <3>1 DEF Attended
      <4>2. CASE x.pc = "waiting"
        BY <4>2, <2>4, <3>1 DEF Attended
      <4> QED BY <4>1, <4>2
    <3>3. ASSUME u \notin cf
          PROVE  OneRun(u, rs3, ep, st2, q2)
      <4>1. OneRun(u, rs, ep, st, q) /\ Listed(q, u)
        BY <2>1, <2>4, <3>3 DEF Listed
      <4>2. \A s : s \in MineOf(rs3, ep, u) => s = r
        BY <1>2, <4>1 DEF OneRun
      <4>3. ~Listed(q2, u)
        <5> SUFFICES ASSUME NEW j \in 1..Len(q2), q2[j] = u
                     PROVE  FALSE
          BY DEF Listed
        <5>1. i + j \in 1..Len(q) /\ q[i + j] = u /\ q[i] = u
          BY <1>8, <2>4
        <5>2. i + j = i
          BY <4>1, <5>1 DEF OneRun
        <5> QED BY <5>2, <1>8
      <4>4. st2[u] \in {"preparing", "queued"}
        BY <2>4
      <4> QED BY <4>2, <4>3, <4>4 DEF OneRun, Listed
    <3>4. Remembered(u, st2, se, cs, cf, sv)
      BY <2>1, <2>4 DEF Remembered
    <3> QED BY <3>2, <3>3, <3>4
  <2> QED BY <2>3, <2>4
<1>9. Typed(st2, se, q2, sv)
  BY <1>8 DEF Good, Typed
<1> QED BY <1>1, <1>q, <1>4, <1>5, <1>6, <1>7, <1>9 DEF Good, rs2

\* Entries whose tasks are no longer queued may be dropped.
LEMMA GoodNoneQueued ==
  ASSUME NEW st, NEW se, NEW q, NEW n, NEW rs, NEW gq, NEW ep, NEW cs, NEW cf, NEW sv,
         Good(st, se, q, n, rs, gq, ep, cs, cf, sv),
         \A j \in 1..Len(q) : st[q[j]] # "queued"
  PROVE  Good(st, se, <<>>, n, rs, gq, ep, cs, cf, sv)
<1>0. <<>> \in Seq(Tasks) /\ Len(<<>>) = 0
  OBVIOUS
<1>1. ASSUME NEW u \in Tasks
      PROVE  /\ Attended(u, rs, ep, st, <<>>, cs)
             /\ u \notin cf => OneRun(u, rs, ep, st, <<>>)
  <2>1. /\ Attended(u, rs, ep, st, q, cs)
        /\ u \notin cf => OneRun(u, rs, ep, st, q)
    BY DEF Good
  <2>2. ~Listed(<<>>, u)
    BY <1>0 DEF Listed
  <2>3. st[u] = "queued" => ~Listed(q, u)
    BY DEF Listed
  <2>4. Attended(u, rs, ep, st, <<>>, cs)
    BY <2>1, <2>3 DEF Attended
  <2>5. u \notin cf => OneRun(u, rs, ep, st, <<>>)
    BY <2>1, <2>2, <1>0 DEF OneRun
  <2> QED BY <2>4, <2>5
<1> QED BY <1>0, <1>1 DEF Good, Typed

\* One field of a run is set.
LEMMA SetsTask ==
  ASSUME NEW x, IsRun(x), NEW v
  PROVE  LET y == [x EXCEPT !.task = v]
         IN /\ IsRun(y) /\ y.task = v
            /\ y.epoch = x.epoch /\ y.resume = x.resume /\ y.pc = x.pc /\ y.aborted = x.aborted
            /\ y.session = x.session /\ y.found = x.found /\ y.part = x.part
  BY DEF IsRun
\* The same, of the epoch.
LEMMA SetsEpoch ==
  ASSUME NEW x, IsRun(x), NEW v
  PROVE  LET y == [x EXCEPT !.epoch = v]
         IN /\ IsRun(y) /\ y.epoch = v
            /\ y.task = x.task /\ y.resume = x.resume /\ y.pc = x.pc /\ y.aborted = x.aborted
            /\ y.session = x.session /\ y.found = x.found /\ y.part = x.part
  BY DEF IsRun
\* The same, of the session to be resumed.
LEMMA SetsResume ==
  ASSUME NEW x, IsRun(x), NEW v
  PROVE  LET y == [x EXCEPT !.resume = v]
         IN /\ IsRun(y) /\ y.resume = v
            /\ y.task = x.task /\ y.epoch = x.epoch /\ y.pc = x.pc /\ y.aborted = x.aborted
            /\ y.session = x.session /\ y.found = x.found /\ y.part = x.part
  BY DEF IsRun
\* The same, of the stage.
LEMMA SetsPc ==
  ASSUME NEW x, IsRun(x), NEW v
  PROVE  LET y == [x EXCEPT !.pc = v]
         IN /\ IsRun(y) /\ y.pc = v
            /\ y.task = x.task /\ y.epoch = x.epoch /\ y.resume = x.resume /\ y.aborted = x.aborted
            /\ y.session = x.session /\ y.found = x.found /\ y.part = x.part
  BY DEF IsRun
\* The same, of the abort.
LEMMA SetsAborted ==
  ASSUME NEW x, IsRun(x), NEW v
  PROVE  LET y == [x EXCEPT !.aborted = v]
         IN /\ IsRun(y) /\ y.aborted = v
            /\ y.task = x.task /\ y.epoch = x.epoch /\ y.resume = x.resume /\ y.pc = x.pc
            /\ y.session = x.session /\ y.found = x.found /\ y.part = x.part
  BY DEF IsRun
\* The same, of the session.
LEMMA SetsSession ==
  ASSUME NEW x, IsRun(x), NEW v
  PROVE  LET y == [x EXCEPT !.session = v]
         IN /\ IsRun(y) /\ y.session = v
            /\ y.task = x.task /\ y.epoch = x.epoch /\ y.resume = x.resume /\ y.pc = x.pc
            /\ y.aborted = x.aborted /\ y.found = x.found /\ y.part = x.part
  BY DEF IsRun
\* The same, of what the server answered.
LEMMA SetsFound ==
  ASSUME NEW x, IsRun(x), NEW v
  PROVE  LET y == [x EXCEPT !.found = v]
         IN /\ IsRun(y) /\ y.found = v
            /\ y.task = x.task /\ y.epoch = x.epoch /\ y.resume = x.resume /\ y.pc = x.pc
            /\ y.aborted = x.aborted /\ y.session = x.session /\ y.part = x.part
  BY DEF IsRun
\* The same, of the parts.
LEMMA SetsPart ==
  ASSUME NEW x, IsRun(x), NEW v
  PROVE  LET y == [x EXCEPT !.part = v]
         IN /\ IsRun(y) /\ y.part = v
            /\ y.task = x.task /\ y.epoch = x.epoch /\ y.resume = x.resume /\ y.pc = x.pc
            /\ y.aborted = x.aborted /\ y.session = x.session /\ y.found = x.found
  BY DEF IsRun
\* NoRun is a run, of no task.
LEMMA NoRunIs ==
  /\ IsRun(NoRun) /\ NoRun.pc = "none"
  /\ NoRun.part = [p \in Parts |-> "todo"]
<1>1. IsRun(NoRun)
  BY DEF NoRun, IsRun
<1>2. NoRun.pc = "none" /\ NoRun.part = [p \in Parts |-> "todo"]
  BY DEF NoRun
<1> QED BY <1>1, <1>2
\* NoRun is sound in every epoch.
LEMMA NoRunIsSound ==
  ASSUME NEW ep, NEW sv
  PROVE  RunIsSound(NoRun, ep, sv)
  BY NoRunIs DEF RunIsSound, Stages, WithSession

\* What the pump makes of a task: a run that opens its session, or waits.
NewRun(t, pc) == [NoRun EXCEPT !.task = t, !.epoch = epoch, !.resume = session[t], !.pc = pc]
\* What the pump makes of NoRun for a task.
LEMMA NewRunIs ==
  ASSUME NEW t, NEW pc
  PROVE  LET x == NewRun(t, pc)
         IN IsRun(x) /\ x.task = t /\ x.epoch = epoch /\ x.resume = session[t] /\ x.pc = pc
<1>1. NewRun(t, pc) = [[[[NoRun EXCEPT !.task = t] EXCEPT !.epoch = epoch]
                         EXCEPT !.resume = session[t]] EXCEPT !.pc = pc]
  BY DEF NewRun
<1>2. PICK y1 : y1 = [NoRun EXCEPT !.task = t]
  OBVIOUS
<1>3. PICK y2 : y2 = [y1 EXCEPT !.epoch = epoch]
  OBVIOUS
<1>4. PICK y3 : y3 = [y2 EXCEPT !.resume = session[t]]
  OBVIOUS
<1>5. PICK y4 : y4 = [y3 EXCEPT !.pc = pc]
  OBVIOUS
<1>6. IsRun(y1) /\ y1.task = t
  BY <1>2, NoRunIs, SetsTask
<1>7. IsRun(y2) /\ y2.task = t /\ y2.epoch = epoch
  BY <1>3, <1>6, SetsEpoch
<1>8. IsRun(y3) /\ y3.task = t /\ y3.epoch = epoch /\ y3.resume = session[t]
  BY <1>4, <1>7, SetsResume
<1>9. IsRun(y4) /\ y4.task = t /\ y4.epoch = epoch /\ y4.resume = session[t] /\ y4.pc = pc
  BY <1>5, <1>8, SetsPc
<1> QED BY <1>1, <1>2, <1>3, <1>4, <1>5, <1>9

\* What the pump of an enabled engine needs, and what it leaves.
Ready(se) ==
  /\ enabled = TRUE /\ epoch \in Nat /\ controller \in [Tasks -> Runs \cup {0}]
  /\ queue \in Seq(Tasks) /\ QueueIsFull(queue, activeFiles)
  /\ \A u \in Tasks : Listed(queue, u) => se[u] = session[u]
Pumped(st, se, cs, cf, sv) ==
  /\ Good(status', se, queue', activeFiles', runs', gateQueue', epoch, cs, cf, sv)
  /\ QueueIsFull(queue', activeFiles') /\ controller' \in [Tasks -> Runs \cup {0}]
  /\ \A u \in Tasks : st[u] = "none" => status'[u] = "none"

\* Of a queue of at most one entry the first is the last.
LEMMA OnlyOne ==
  ASSUME NEW i \in Nat, NEW n \in Nat, i >= 1, i <= n, n <= 1
  PROVE  i = n /\ n = 1
  OBVIOUS

\* The pump keeps it all, where one task was added or one slot freed.
LEMMA PumpKeeps ==
  ASSUME NEW st, NEW q, NEW n, NEW rs, NEW ctl, pump(st, q, n, rs, ctl),
         NEW se, NEW cs, NEW cf, NEW sv, Good(st, se, q, n, rs, gateQueue, epoch, cs, cf, sv),
         \A u \in Tasks : Listed(q, u) => se[u] = session[u],
         enabled = TRUE, epoch \in Nat, n < FileSlots => n = FileSlots - 1 \/ Len(q) <= 1,
         ctl \in [Tasks -> Runs \cup {0}]
  PROVE  Pumped(st, se, cs, cf, sv)
<1> DEFINE live == {j \in DOMAIN q : st[q[j]] = "queued"}
           starts == gateQueue = <<>> /\ SlotFree(rs)
<1>0. /\ q \in Seq(Tasks) /\ DOMAIN q = 1..Len(q) /\ Len(q) \in Nat
      /\ n \in Nat /\ n <= FileSlots /\ FileSlots \in Nat
      /\ st \in [Tasks -> Statuses] /\ se \in [Tasks -> Sessions \cup {0}]
  <2>1. q \in Seq(Tasks) /\ st \in [Tasks -> Statuses] /\ se \in [Tasks -> Sessions \cup {0}]
    BY DEF Good, Typed
  <2>2. n = Cardinality(Mine(rs, epoch)) /\ IsFiniteSet(Mine(rs, epoch)) /\ n <= FileSlots
    BY DEF Good, UploadsCounted
  <2> QED BY <2>1, <2>2, FS_CardinalityType, UploadsAssumption
<1>1. CASE n >= FileSlots
  <2>1. /\ status' = st /\ queue' = q /\ activeFiles' = n /\ runs' = rs
        /\ controller' = ctl /\ gateQueue' = gateQueue
    BY <1>1 DEF pump
  <2>2. n = FileSlots
    BY <1>0, <1>1
  <2> QED BY <2>1, <2>2 DEF QueueIsFull, Pumped
<1>2. CASE n < FileSlots /\ live = {}
  <2>1. /\ status' = st /\ queue' = <<>> /\ activeFiles' = n /\ runs' = rs
        /\ controller' = ctl /\ gateQueue' = gateQueue
    BY <1>0, <1>2 DEF pump
  <2>2. \A j \in 1..Len(q) : st[q[j]] # "queued"
    BY <1>0, <1>2
  <2>3. Good(st, se, <<>>, n, rs, gateQueue, epoch, cs, cf, sv)
    BY <2>2, GoodNoneQueued
  <2> QED BY <2>1, <2>3 DEF QueueIsFull, Pumped
<1>3. CASE n < FileSlots /\ live # {}
  <2> DEFINE lowest == Lowest(live) free == Lowest(Runs \ AliveRuns(rs))
  <2>1. /\ AliveRuns(rs) # Runs
        /\ queue' = SubSeq(q, lowest + 1, Len(q)) /\ activeFiles' = n + 1
        /\ runs' = [rs EXCEPT ![free] =
             [NoRun EXCEPT !.task = q[lowest], !.epoch = epoch, !.resume = session[q[lowest]],
                           !.pc = IF starts THEN "opening" ELSE "waiting"]]
        /\ status' = IF starts THEN [st EXCEPT ![q[lowest]] = "preparing"] ELSE st
        /\ controller' = IF starts THEN [ctl EXCEPT ![q[lowest]] = free] ELSE ctl
        /\ gateQueue' = IF starts THEN gateQueue ELSE Append(gateQueue, free)
    <3>1. ~(~enabled \/ n >= FileSlots) /\ ~(live = {})
      BY <1>0, <1>3
    <3> QED BY <3>1, Zenon DEF pump
  <2>2. live \in SUBSET Nat /\ live # {}
    BY <1>0, <1>3
  <2>3. PICK i \in live : i = lowest /\ \A j \in live : i <= j
    BY <2>2, LowestIsLeast
  <2>4. Runs \ AliveRuns(rs) \in SUBSET Nat /\ Runs \ AliveRuns(rs) # {}
    BY <2>1, UploadsAssumption DEF AliveRuns
  <2>5. PICK r \in Runs \ AliveRuns(rs) : r = free
    BY <2>4, LowestIsLeast
  <2>6. i \in 1..Len(q) /\ st[q[i]] = "queued" /\ \A j \in 1..Len(q) : j < i => st[q[j]] # "queued"
    <3>1. i \in 1..Len(q) /\ st[q[i]] = "queued"
      BY <1>0, <2>3
    <3>2. ASSUME NEW j \in 1..Len(q), j < i
          PROVE  st[q[j]] # "queued"
      <4>1. j \in live => i <= j
        BY <2>3
      <4>2. j \notin live
        BY <4>1, <3>1, <3>2, <1>0
      <4> QED BY <4>2, <1>0
    <3> QED BY <3>1, <3>2
  <2>7. PICK t \in Tasks : t = q[i] /\ st[t] = "queued"
    BY <2>6, <1>0
  <2>r. r \in Runs /\ rs[r].pc = "none"
    BY <2>5 DEF AliveRuns
  <2>n. PICK x : x = NewRun(t, IF starts THEN "opening" ELSE "waiting")
    OBVIOUS
  <2>w. /\ queue' = SubSeq(q, i + 1, Len(q)) /\ activeFiles' = n + 1
        /\ runs' = [rs EXCEPT ![r] = x]
        /\ status' = IF starts THEN [st EXCEPT ![t] = "preparing"] ELSE st
        /\ controller' = IF starts THEN [ctl EXCEPT ![t] = r] ELSE ctl
        /\ gateQueue' = IF starts THEN gateQueue ELSE Append(gateQueue, r)
    BY <2>1, <2>3, <2>5, <2>7, <2>n, Zenon DEF NewRun
  <2> HIDE DEF lowest, free, live
  <2>s. se[t] = session[t]
    BY <2>6, <2>7 DEF Listed
  <2>8. /\ x.task = t /\ x.epoch = epoch /\ x.resume = se[t]
        /\ x.pc = IF starts THEN "opening" ELSE "waiting"
        /\ RunIsSound(x, epoch, sv)
    <3>1. Remembered(t, st, se, cs, cf, sv)
      BY <2>7 DEF Good
    <3>2. /\ IsRun(x) /\ x.task = t /\ x.epoch = epoch /\ x.resume = se[t]
          /\ x.pc = IF starts THEN "opening" ELSE "waiting"
      <4>1. PICK pc : pc = IF starts THEN "opening" ELSE "waiting"
        OBVIOUS
      <4>2. x = NewRun(t, pc)
        BY <4>1, <2>n
      <4> QED BY <4>1, <4>2, <2>s, NewRunIs
    <3>3. x.task \in Tasks /\ x.epoch \in 0..epoch /\ x.resume \in Sessions \cup {0}
      BY <3>2, <2>7, <1>0
    <3>4. x.resume # 0 => sv[x.resume].state # "none"
      BY <3>1, <3>2 DEF Remembered
    <3>5. x.pc \in {"opening", "waiting"}
      BY <3>2
    <3> QED BY <3>2, <3>3, <3>4, <3>5 DEF RunIsSound, Stages, WithSession
  <2>9. /\ status' \in [Tasks -> Statuses] /\ \A u \in Tasks : u # t => status'[u] = st[u]
        /\ \/ x.pc = "opening" /\ status'[t] = "preparing" /\ gateQueue' = gateQueue
           \/ x.pc = "waiting" /\ status'[t] = st[t] /\ gateQueue' = Append(gateQueue, r)
    <3>1. "preparing" \in Statuses
      BY DEF Statuses, Active
    <3>2. CASE starts
      BY <3>1, <3>2, <2>w, <2>7, <2>8, <1>0
    <3>3. CASE ~starts
      BY <3>3, <2>w, <2>7, <2>8, <1>0
    <3> QED BY <3>2, <3>3
  <2>10. Good(status', se, SubSeq(q, i + 1, Len(q)), n + 1, [rs EXCEPT ![r] = x], gateQueue',
              epoch, cs, cf, sv)
    <3>1. t = q[i] /\ st[t] = "queued" /\ \A j \in 1..Len(q) : j < i => st[q[j]] # "queued"
      BY <2>6, <2>7
    <3>2. i \in 1..Len(q) /\ n < FileSlots
      BY <2>6, <1>3
    <3> QED BY <3>1, <3>2, <2>r, <2>8, <2>9, GoodNewRun, SMTT(30)
  <2>11. QueueIsFull(queue', activeFiles')
    <3>1. CASE n = FileSlots - 1
      BY <3>1, <2>w, <1>0 DEF QueueIsFull
    <3>2. CASE Len(q) <= 1
      <4>0. i \in Nat /\ i >= 1 /\ i <= Len(q) /\ Len(q) \in Nat
        BY <2>6, <1>0
      <4>1. i = Len(q) /\ Len(q) = 1
        BY <4>0, <3>2, OnlyOne, Zenon
      <4>2. queue' \in Seq(Tasks) /\ Len(queue') = Len(q) - i
        <5>1. PICK q2 : q2 = SubSeq(q, i + 1, Len(q))
          OBVIOUS
        <5>2. q2 \in Seq(Tasks) /\ Len(q2) = Len(q) - i
          BY <5>1, <1>0, <2>6, RestOfQueue, Zenon
        <5> QED BY <5>1, <5>2, <2>w
      <4>3. queue' = <<>>
        BY <4>1, <4>2
      <4> QED BY <4>3 DEF QueueIsFull
    <3> QED BY <3>1, <3>2, <1>3
  <2>12. controller' \in [Tasks -> Runs \cup {0}]
    BY <2>w, <2>7, <2>r
  <2>13. \A u \in Tasks : st[u] = "none" => status'[u] = "none"
    <3> HIDE DEF starts
    <3> TAKE u \in Tasks
    <3>1. st[u] = "none" => u # t
      BY <2>7
    <3> QED BY <3>1, <2>9
  <2> QED BY <2>w, <2>10, <2>11, <2>12, <2>13 DEF Pumped
<1> QED BY <1>0, <1>1, <1>2, <1>3

\* A run of this epoch comes to its end, and the pump goes on.
LEMMA EndKeeps ==
  ASSUME NEW r \in Runs, runs[r].epoch = epoch, NEW st, end(r, st), NEW se, NEW cs, NEW cf, NEW sv,
         NEW rs, rs = [runs EXCEPT ![r] = NoRun], NEW n, n = activeFiles - 1,
         Good(st, se, queue, n, rs, gateQueue, epoch, cs, cf, sv),
         activeFiles \in Nat, activeFiles > 0, Ready(se)
  PROVE  Pumped(st, se, cs, cf, sv)
<1> DEFINE t == runs[r].task
           c == IF controller[t] = r THEN [controller EXCEPT ![t] = 0] ELSE controller
<1>1. PICK ctl \in [Tasks -> Runs \cup {0}] : ctl = c
  BY DEF Ready
<1>2. pump(st, queue, IF activeFiles > 0 THEN activeFiles - 1 ELSE 0, [runs EXCEPT ![r] = NoRun], c)
  BY Zenon DEF end, Current
<1>3. (IF activeFiles > 0 THEN activeFiles - 1 ELSE 0) = n
  OBVIOUS
<1> HIDE DEF c, t
<1>4. pump(st, queue, n, rs, ctl)
  BY <1>1, <1>2, <1>3
<1>5. n < FileSlots => n = FileSlots - 1 \/ Len(queue) <= 1
  <2>1. CASE queue = <<>>
    BY <2>1
  <2>2. CASE queue # <<>>
    BY <2>2, UploadsAssumption DEF QueueIsFull, Ready
  <2> QED BY <2>1, <2>2
<1> QED BY <1>4, <1>5, PumpKeeps DEF Ready

\* A run of this epoch fails: its task fails with it, unless it is being
\* cancelled, or gone.
LEMMA ThrowsKeeps ==
  ASSUME NEW r \in Runs, runs[r].epoch = epoch, NEW t \in Tasks, t = runs[r].task,
         NEW st, NEW exists, throws(r, st, exists), NEW se, NEW cs, NEW cf, NEW sv, NEW rs,
         Good(st, se, queue, activeFiles, rs, gateQueue, epoch, cs, cf, sv),
         [rs EXCEPT ![r] = NoRun] = [runs EXCEPT ![r] = NoRun],
         r \in Mine(rs, epoch), rs[r].task = t, rs[r].pc # "waiting", st[t] # "none", Ready(se)
  PROVE  Pumped(st, se, cs, cf, sv)
<1>1. PICK to \in {"skipped", "error"} : to = IF exists /\ t \in SkipExisting THEN "skipped" ELSE "error"
  OBVIOUS
<1>2. PICK st2 : st2 = IF st[t] \in {"cancelling", "cancelled", "removed"}
                       THEN st ELSE [st EXCEPT ![t] = to]
  OBVIOUS
<1>3. end(r, st2)
  <2>1. end(r, IF ~Current(r) \/ st[t] \in {"cancelling", "cancelled", "removed"}
               THEN st ELSE [st EXCEPT ![t] = to])
    BY <1>1, Zenon DEF throws
  <2>2. Current(r)
    BY DEF Current
  <2>3. st2 = IF ~Current(r) \/ st[t] \in {"cancelling", "cancelled", "removed"}
              THEN st ELSE [st EXCEPT ![t] = to]
    BY <1>2, <2>2
  <2> QED BY <2>1, <2>3
<1>4. st \in [Tasks -> Statuses] /\ to \in Statuses
  BY DEF Good, Typed, Statuses, Settled
<1>5. /\ st2 \in [Tasks -> Statuses] /\ \A u \in Tasks : u # t => st2[u] = st[u]
      /\ \/ st2[t] = st[t] /\ st[t] \in {"cancelling", "cancelled", "removed"}
         \/ st[t] # "removed" /\ st2[t] \in {"error", "skipped"}
  BY <1>2, <1>4
<1>6. PICK n : n = activeFiles - 1
  OBVIOUS
<1>7. PICK rs2 : rs2 = [runs EXCEPT ![r] = NoRun]
  OBVIOUS
<1>8. Good(st2, se, queue, n, rs2, gateQueue, epoch, cs, cf, sv)
  <2>1. RunIsSound(NoRun, epoch, sv) /\ NoRun.pc = "none"
    BY NoRunIsSound, NoRunIs
  <2>2. Good(st2, se, queue, activeFiles - 1, [rs EXCEPT ![r] = NoRun], gateQueue, epoch, cs, cf, sv)
    BY <1>5, <2>1, GoodEnd
  <2> QED BY <2>2, <1>6, <1>7
<1>9. activeFiles \in Nat /\ activeFiles > 0
  BY HasSome DEF Good
<1>10. Pumped(st2, se, cs, cf, sv)
  BY <1>3, <1>6, <1>7, <1>8, <1>9, EndKeeps
<1> QED BY <1>5, <1>10 DEF Pumped

\* A run of this epoch succeeds: its task is complete, unless it is gone.
LEMMA SucceedsKeeps ==
  ASSUME NEW r \in Runs, runs[r].epoch = epoch, NEW t \in Tasks, t = runs[r].task,
         NEW st, succeeds(r), NEW se, NEW cs, NEW cf, NEW sv, NEW rs,
         Good(st, se, queue, activeFiles, rs, gateQueue, epoch, cs, cf, sv),
         [rs EXCEPT ![r] = NoRun] = [runs EXCEPT ![r] = NoRun],
         r \in Mine(rs, epoch), rs[r].task = t, rs[r].pc # "waiting", st[t] # "none", Ready(se),
         status \in [Tasks -> Statuses], \A u \in Tasks : u # t => status[u] = st[u],
         status[t] = "removed" <=> st[t] = "removed",
         st[t] # "removed" => se[t] # 0 /\ sv[se[t]].state = "completed"
  PROVE  Pumped(st, se, cs, cf, sv)
<1>1. PICK st2 : st2 = patchTask(t, "completed")
  OBVIOUS
<1>2. end(r, st2)
  BY <1>1 DEF succeeds, Current
<1>3. "completed" \in Statuses
  BY DEF Statuses, Settled
<1>4. /\ st2 \in [Tasks -> Statuses] /\ \A u \in Tasks : u # t => st2[u] = st[u]
      /\ \/ st2[t] = st[t] /\ st[t] \in {"cancelling", "cancelled", "removed"}
         \/ st[t] # "removed" /\ st2[t] = "completed" /\ se[t] # 0 /\ sv[se[t]].state = "completed"
  BY <1>1, <1>3 DEF patchTask
<1>6. PICK n : n = activeFiles - 1
  OBVIOUS
<1>7. PICK rs2 : rs2 = [runs EXCEPT ![r] = NoRun]
  OBVIOUS
<1>8. Good(st2, se, queue, n, rs2, gateQueue, epoch, cs, cf, sv)
  <2>1. RunIsSound(NoRun, epoch, sv) /\ NoRun.pc = "none"
    BY NoRunIsSound, NoRunIs
  <2>2. Good(st2, se, queue, activeFiles - 1, [rs EXCEPT ![r] = NoRun], gateQueue, epoch, cs, cf, sv)
    BY <1>4, <2>1, GoodEnd
  <2> QED BY <2>2, <1>6, <1>7
<1>9. activeFiles \in Nat /\ activeFiles > 0
  BY HasSome DEF Good
<1>10. Pumped(st2, se, cs, cf, sv)
  BY <1>2, <1>6, <1>7, <1>8, <1>9, EndKeeps
<1> QED BY <1>4, <1>10 DEF Pumped

\* A run moves to another stage, with its parts as given.
Moved(x, pc, part) == [x EXCEPT !.pc = pc, !.found = "none", !.part = part]
\* A run that moves to the next stage with the state of its parts is a run.
LEMMA MovedIs ==
  ASSUME NEW x, IsRun(x), NEW pc, NEW part
  PROVE  LET y == Moved(x, pc, part)
         IN /\ IsRun(y) /\ y.pc = pc
            /\ y.task = x.task /\ y.epoch = x.epoch /\ y.resume = x.resume /\ y.session = x.session
<1>1. Moved(x, pc, part) = [[[x EXCEPT !.pc = pc] EXCEPT !.found = "none"] EXCEPT !.part = part]
  BY DEF Moved
<1>2. PICK y1 : y1 = [x EXCEPT !.pc = pc]
  OBVIOUS
<1>3. PICK y2 : y2 = [y1 EXCEPT !.found = "none"]
  OBVIOUS
<1>4. PICK y3 : y3 = [y2 EXCEPT !.part = part]
  OBVIOUS
<1>5. /\ IsRun(y1) /\ y1.pc = pc
      /\ y1.task = x.task /\ y1.epoch = x.epoch /\ y1.resume = x.resume /\ y1.session = x.session
  BY <1>2, SetsPc
<1>6. /\ IsRun(y2) /\ y2.pc = pc
      /\ y2.task = x.task /\ y2.epoch = x.epoch /\ y2.resume = x.resume /\ y2.session = x.session
  BY <1>3, <1>5, SetsFound
<1>7. /\ IsRun(y3) /\ y3.pc = pc
      /\ y3.task = x.task /\ y3.epoch = x.epoch /\ y3.resume = x.resume /\ y3.session = x.session
  BY <1>4, <1>6, SetsPart
<1> QED BY <1>1, <1>2, <1>3, <1>4, <1>7

\* Such a run is as sound as it was, if it had its session.
LEMMA MovedIsSound ==
  ASSUME NEW x, NEW ep, NEW sv, RunIsSound(x, ep, sv), x.pc \in WithSession,
         NEW pc \in {"parts", "finalizing"}, NEW part
  PROVE  RunIsSound(Moved(x, pc, part), ep, sv)
<1>1. PICK y : y = Moved(x, pc, part)
  OBVIOUS
<1>2. /\ IsRun(y) /\ y.pc = pc
      /\ y.task = x.task /\ y.epoch = x.epoch /\ y.resume = x.resume /\ y.session = x.session
  BY <1>1, MovedIs DEF RunIsSound
<1> QED BY <1>1, <1>2 DEF RunIsSound, WithSession, Stages

\* A run of this epoch looks at its parts: it waits for them, fails or finalizes.
LEMMA AllSettledKeeps ==
  ASSUME NEW r \in Runs, runs = [s \in Runs |-> runs[s]], runs[r].epoch = epoch,
         NEW t \in Tasks, t = runs[r].task, RunIsSound(runs[r], epoch, sessions),
         NEW st, NEW part, allSettled(r, part, st), NEW se, NEW cs, NEW cf, NEW sv, Grows(sessions, sv),
         NEW rs, NEW x, rs = [runs EXCEPT ![r] = x],
         Good(st, se, queue, activeFiles, rs, gateQueue, epoch, cs, cf, sv),
         runs[r].pc \in WithSession, x.pc = "parts", x.task = t, x.epoch = epoch, x.session = runs[r].session,
         st[t] # "none", Ready(se)
  PROVE  Pumped(st, se, cs, cf, sv)
<1>1. /\ rs[r] = x /\ r \in Mine(rs, epoch)
      /\ \A y : [rs EXCEPT ![r] = y] = [runs EXCEPT ![r] = y]
  BY DEF Mine
<1>2. RunIsSound(runs[r], epoch, sv)
  BY Zenon DEF RunIsSound, Grows, WithSession
<1>3. st \in [Tasks -> Statuses] /\ se \in [Tasks -> Sessions \cup {0}] /\ GateHas(gateQueue, rs)
  BY DEF Good, Typed
<1>4. HasSession(x, st, se)
  BY <1>1 DEF Good, RunsAreSound
<1>5. ASSUME NEW pc \in {"parts", "finalizing"}, NEW part2, NEW st2 \in [Tasks -> Statuses],
             \A u \in Tasks : u # t => st2[u] = st[u],
             IF st[t] = "removed" THEN st2[t] = "removed" ELSE st2[t] = st[t] \/ st2[t] = "finalizing"
      PROVE  Good(st2, se, queue, activeFiles, [runs EXCEPT ![r] = Moved(runs[r], pc, part2)],
                  gateQueue, epoch, cs, cf, sv)
  <2>1. PICK y : y = Moved(runs[r], pc, part2)
    OBVIOUS
  <2>2. y.task = t /\ y.epoch = epoch /\ y.pc = pc /\ y.session = runs[r].session /\ RunIsSound(y, epoch, sv)
    <3>1. IsRun(runs[r])
      BY <1>2 DEF RunIsSound
    <3>2. RunIsSound(y, epoch, sv)
      BY <2>1, <1>2, MovedIsSound
    <3> QED BY <3>1, <3>2, <2>1, MovedIs
  <2>3. y.pc # "none" /\ HasSession(y, st2, se)
    BY <2>2, <1>4, <1>5 DEF HasSession
  <2>5. Good(st2, se, queue, activeFiles, [rs EXCEPT ![r] = y], gateQueue, epoch, cs, cf, sv)
    <3>1. rs[r].pc # "waiting" /\ t = rs[r].task /\ r \in Mine(rs, epoch)
      BY <1>1
    <3>2. Shows(st, st2, t)
      BY <1>5 DEF Shows
    <3>3. PICK rs2 : rs2 = [rs EXCEPT ![r] = y]
      OBVIOUS
    <3>4. Good(st2, se, queue, activeFiles, rs2, gateQueue, epoch, cs, cf, sv)
      BY <3>1, <3>2, <3>3, <2>2, <2>3, GoodShows
    <3> QED BY <3>3, <3>4
  <2> QED BY <2>1, <2>5, <1>1
<1>6. ASSUME UNCHANGED <<queue, activeFiles, gateQueue, controller>>
      PROVE  /\ queue' = queue /\ activeFiles' = activeFiles /\ gateQueue' = gateQueue
             /\ QueueIsFull(queue', activeFiles') /\ controller' \in [Tasks -> Runs \cup {0}]
  BY <1>6 DEF Ready
<1>7. CASE \E p \in Parts : part[p] \in {"todo", "sending"}
  <2>1. /\ runs' = [runs EXCEPT ![r] = Moved(runs[r], "parts", part)] /\ status' = st
        /\ UNCHANGED <<queue, activeFiles, gateQueue, controller>>
    BY <1>7, Zenon DEF allSettled, Moved
  <2>2. Good(status', se, queue, activeFiles, runs', gateQueue, epoch, cs, cf, sv)
    BY <2>1, <1>3, <1>5
  <2> QED BY <2>1, <2>2, <1>6 DEF Pumped
<1>8. CASE /\ ~(\E p \in Parts : part[p] \in {"todo", "sending"})
           /\ \E p \in Parts : part[p] = "failed"
  <2>1. throws(r, st, FALSE)
    BY <1>8, Zenon DEF allSettled
  <2>2. [rs EXCEPT ![r] = NoRun] = [runs EXCEPT ![r] = NoRun]
    BY <1>1
  <2> QED BY <2>1, <2>2, <1>1, ThrowsKeeps
<1>9. CASE /\ ~(\E p \in Parts : part[p] \in {"todo", "sending"})
           /\ ~(\E p \in Parts : part[p] = "failed")
  <2>1. /\ runs' = [runs EXCEPT ![r] = Moved(runs[r], "finalizing", NoRun.part)]
        /\ status' = IF Current(r) /\ st[runs[r].task] # "removed"
                     THEN [st EXCEPT ![runs[r].task] = "finalizing"] ELSE st
        /\ UNCHANGED <<queue, activeFiles, gateQueue, controller>>
    BY <1>9, Zenon DEF allSettled, Moved
  <2>2. /\ status' \in [Tasks -> Statuses] /\ \A u \in Tasks : u # t => status'[u] = st[u]
        /\ IF st[t] = "removed" THEN status'[t] = "removed"
           ELSE status'[t] = st[t] \/ status'[t] = "finalizing"
    BY <2>1, <1>3 DEF Statuses, Active
  <2>3. Good(status', se, queue, activeFiles, runs', gateQueue, epoch, cs, cf, sv)
    BY <2>1, <2>2, <1>5
  <2>4. \A u \in Tasks : st[u] = "none" => status'[u] = "none"
    BY <2>2
  <2> QED BY <2>1, <2>3, <2>4, <1>6 DEF Pumped
<1> QED BY <1>7, <1>8, <1>9

-----------------------------------------------------------------------------
\* What the invariant says, in pieces.
LEMMA InvSays ==
  ASSUME UploadsInv
  PROVE  /\ enabled \in BOOLEAN /\ epoch \in Nat /\ epoch \in 0..MaxEpoch /\ faults \in 0..MaxFaults
         /\ controller \in [Tasks -> Runs \cup {0}] /\ cancels \subseteq Cancels
         /\ status \in [Tasks -> Statuses] /\ session \in [Tasks -> Sessions \cup {0}]
         /\ queue \in Seq(Tasks) /\ sessions \in ServerSessions
         /\ runs = [r \in Runs |-> runs[r]] /\ \A r \in Runs : RunIsSound(runs[r], epoch, sessions)
         /\ \A r \in Mine(runs, epoch) : HasSession(runs[r], status, session)
         /\ GateHas(gateQueue, runs) /\ QueueIsFull(queue, activeFiles)
         /\ Good(status, session, queue, activeFiles, runs, gateQueue, epoch, cancels, cancelFailed, sessions)
         /\ PlansAreSound(plans, status, epoch) /\ NothingWhileDisabled(enabled, runs, epoch, status)
<1>1. /\ EngineTypeOK /\ QueueIsFull(queue, activeFiles)
      /\ Good(status, session, queue, activeFiles, runs, gateQueue, epoch, cancels, cancelFailed, sessions)
      /\ PlansAreSound(plans, status, epoch) /\ NothingWhileDisabled(enabled, runs, epoch, status)
  BY DEF UploadsInv
<1>2. /\ enabled \in BOOLEAN /\ epoch \in 0..MaxEpoch /\ faults \in 0..MaxFaults
      /\ controller \in [Tasks -> Runs \cup {0}] /\ cancels \subseteq Cancels
  BY <1>1 DEF EngineTypeOK
<1>3. epoch \in Nat
  BY <1>2, UploadsAssumption
<1>4. /\ Typed(status, session, queue, sessions) /\ GateHas(gateQueue, runs)
      /\ RunsAreSound(runs, epoch, status, session, sessions)
  BY <1>1 DEF Good
<1> QED BY <1>1, <1>2, <1>3, <1>4 DEF Typed, RunsAreSound

\* A run of this epoch that is alive.
Here(r, t) ==
  /\ r \in Runs /\ runs[r].epoch = epoch /\ runs[r].pc # "none"
  /\ t \in Tasks /\ t = runs[r].task
\* What the invariant says of a run of this epoch and its task.
LEMMA HereSays ==
  ASSUME UploadsInv, NEW r, NEW t, Here(r, t)
  PROVE  /\ r \in Mine(runs, epoch) /\ r \in MineOf(runs, epoch, t)
         /\ RunIsSound(runs[r], epoch, sessions) /\ HasSession(runs[r], status, session)
         /\ enabled = TRUE /\ Ready(session) /\ status[t] # "none"
<1>1. r \in Mine(runs, epoch) /\ r \in MineOf(runs, epoch, t)
  BY DEF Here, Mine, MineOf
<1>2. RunIsSound(runs[r], epoch, sessions) /\ HasSession(runs[r], status, session)
  BY <1>1, InvSays DEF Here
<1>3. enabled = TRUE
  BY <1>1, InvSays DEF NothingWhileDisabled
<1>4. Ready(session)
  BY <1>3, InvSays DEF Ready
<1>5. status[t] # "none"
  <2>1. /\ t \notin cancelFailed => OneRun(t, runs, epoch, status, queue)
        /\ Remembered(t, status, session, cancels, cancelFailed, sessions)
    BY InvSays DEF Here, Good
  <2> QED BY <2>1, <1>1 DEF OneRun, Remembered
<1> QED BY <1>1, <1>2, <1>3, <1>4, <1>5

\* A run is of this epoch, or an earlier one left it behind.
LEMMA EveryRunIsHereOrNot ==
  ASSUME UploadsInv, NEW r \in Runs, runs[r].pc # "none"
  PROVE  Here(r, runs[r].task) \/ (runs[r].epoch # epoch /\ r \notin Mine(runs, epoch))
<1>1. runs[r].task \in Tasks
  BY InvSays DEF RunIsSound
<1> QED BY <1>1 DEF Here, Mine

\* Around a step of a run.
Around ==
  /\ UNCHANGED <<enabled, epoch, plans, cancels, cancelFailed>>
  /\ faults' \in 0..MaxFaults /\ Grows(sessions, sessions')

\* Plans that are dropped, and tasks that stay as they were, keep the plans sound.
LEMMA PlansKept ==
  ASSUME NEW pl, NEW pl2, NEW st, NEW st2, NEW ep, PlansAreSound(pl, st, ep), pl2 \subseteq pl,
         \A u \in Tasks : st[u] = "none" => st2[u] = "none"
  PROVE  PlansAreSound(pl2, st2, ep)
  BY DEF PlansAreSound

\* The step of a run of this epoch leaves the invariant, once the pump is done.
LEMMA InvPumped ==
  ASSUME UploadsInv, Around, enabled = TRUE, NEW st, \A u \in Tasks : status[u] = "none" => st[u] = "none",
         Pumped(st, session', cancels, cancelFailed, sessions')
  PROVE  UploadsInv'
<1>1. /\ enabled' = enabled /\ epoch' = epoch /\ plans' = plans /\ cancels' = cancels
      /\ cancelFailed' = cancelFailed /\ faults' \in 0..MaxFaults
  BY DEF Around
<1>2. /\ Good(status', session', queue', activeFiles', runs', gateQueue', epoch', cancels', cancelFailed', sessions')
      /\ QueueIsFull(queue', activeFiles') /\ controller' \in [Tasks -> Runs \cup {0}]
      /\ \A u \in Tasks : status[u] = "none" => status'[u] = "none"
  BY <1>1 DEF Pumped
<1>3. PlansAreSound(plans', status', epoch')
  BY <1>1, <1>2, InvSays, PlansKept
<1>4. NothingWhileDisabled(enabled', runs', epoch', status')
  BY <1>1 DEF NothingWhileDisabled
<1>5. EngineTypeOK'
  BY <1>1, <1>2, InvSays DEF EngineTypeOK
<1> QED BY <1>2, <1>3, <1>4, <1>5 DEF UploadsInv

\* So does the step of a run of an older epoch.
LEMMA InvElsewhere ==
  ASSUME UploadsInv, Around, NEW r \in Runs, r \notin Mine(runs, epoch), NEW x,
         runs' = [runs EXCEPT ![r] = x],
         RunIsSound(x, epoch, sessions'), x.pc = "none" \/ x.epoch # epoch, GateHas(gateQueue', runs'),
         UNCHANGED <<status, session, queue, activeFiles>>, controller' \in [Tasks -> Runs \cup {0}]
  PROVE  UploadsInv'
<1>1. /\ enabled' = enabled /\ epoch' = epoch /\ plans' = plans /\ cancels' = cancels
      /\ cancelFailed' = cancelFailed /\ faults' \in 0..MaxFaults /\ Grows(sessions, sessions')
      /\ status' = status /\ session' = session /\ queue' = queue /\ activeFiles' = activeFiles
  BY DEF Around
<1>2. Good(status, session, queue, activeFiles, runs, gateQueue, epoch, cancels, cancelFailed, sessions')
  BY <1>1, InvSays, GoodWhenServed
<1>3. Good(status, session, queue, activeFiles, [runs EXCEPT ![r] = x], gateQueue', epoch, cancels,
           cancelFailed, sessions')
  BY <1>2, GoodElsewhere
<1>4. Good(status', session', queue', activeFiles', runs', gateQueue', epoch', cancels', cancelFailed', sessions')
  BY <1>1, <1>3
<1>5. Mine(runs', epoch) = Mine(runs, epoch)
  <2>1. \A s \in Runs : s \in Mine(runs', epoch) <=> s \in Mine(runs, epoch)
    <3>1. runs = [s \in Runs |-> runs[s]]
      BY InvSays
    <3>2. PICK rs2 : rs2 = [runs EXCEPT ![r] = x]
      OBVIOUS
    <3>3. \A s \in Runs : s \in Mine(rs2, epoch) <=>
            IF s = r THEN x.pc # "none" /\ x.epoch = epoch ELSE s \in Mine(runs, epoch)
      BY <3>1, <3>2, MineChanges
    <3> QED BY <3>2, <3>3
  <2> QED BY <2>1 DEF Mine
<1>6. NothingWhileDisabled(enabled', runs', epoch', status')
  BY <1>1, <1>5, InvSays DEF NothingWhileDisabled
<1>7. EngineTypeOK'
  BY <1>1, InvSays DEF EngineTypeOK
<1>8. PlansAreSound(plans', status', epoch') /\ QueueIsFull(queue', activeFiles')
  BY <1>1, InvSays
<1> QED BY <1>4, <1>6, <1>7, <1>8 DEF UploadsInv

\* A run that an earlier epoch left behind ends without a word.
LEMMA EndsElsewhere ==
  ASSUME UploadsInv, Around, NEW r \in Runs, r \notin Mine(runs, epoch), runs[r].pc \notin {"none", "waiting"},
         NEW st, end(r, st), session' = session
  PROVE  UploadsInv'
<1>1. ~Current(r)
  BY DEF Current, Mine
<1>2. /\ runs' = [runs EXCEPT ![r] = NoRun]
      /\ controller' = IF controller[runs[r].task] = r THEN [controller EXCEPT ![runs[r].task] = 0] ELSE controller
      /\ UNCHANGED <<status, queue, activeFiles, gateQueue>>
  BY <1>1, Zenon DEF end
<1>3. controller' \in [Tasks -> Runs \cup {0}] /\ gateQueue' = gateQueue
  BY <1>2, InvSays
<1>4. RunIsSound(NoRun, epoch, sessions') /\ NoRun.pc = "none"
  BY NoRunIsSound, NoRunIs
<1>5. GateHas(gateQueue', runs')
  BY <1>2, <1>3, InvSays, GateKeeps
<1>6. UNCHANGED <<status, session, queue, activeFiles>>
  BY <1>2
<1> QED BY <1>2, <1>3, <1>4, <1>5, <1>6, InvElsewhere

-----------------------------------------------------------------------------
(* The steps of a run.                                                        *)

\* Sessions only go from none to open, and from open to completed or cancelled.
LEMMA FreshIsUnused ==
  ASSUME UploadsInv, Fresh # {}
  PROVE  Lowest(Fresh) \in Sessions /\ sessions[Lowest(Fresh)].state = "none"
<1>1. Fresh \in SUBSET Nat
  BY UploadsAssumption DEF Fresh
<1>2. Lowest(Fresh) \in Fresh
  BY <1>1, LowestIsLeast
<1> QED BY <1>2 DEF Fresh
\* One session of the server changes its state.
LEMMA StateSet ==
  ASSUME NEW sv \in ServerSessions, NEW s \in Sessions, NEW to \in {"open", "completed", "cancelled"},
         sv[s].state # "completed" \/ to = "completed"
  PROVE  /\ Grows(sv, [sv EXCEPT ![s].state = to]) /\ [sv EXCEPT ![s].state = to][s].state = to
         /\ \A u \in Sessions : u # s => [sv EXCEPT ![s].state = to][u] = sv[u]
<1> DEFINE sv2 == [sv EXCEPT ![s].state = to]
<1>1. sv[s] = [state |-> sv[s].state, parts |-> sv[s].parts]
  BY DEF ServerSessions
<1>2. /\ sv2[s] = [sv[s] EXCEPT !.state = to] /\ \A u \in Sessions : u # s => sv2[u] = sv[u]
      /\ sv2 = [u \in Sessions |-> sv2[u]]
  BY DEF ServerSessions
<1>3. [sv[s] EXCEPT !.state = to] = [state |-> to, parts |-> sv[s].parts]
  BY <1>1
<1>4. sv2[s].state = to /\ sv2[s] \in [state : {"none", "open", "cancelled", "completed"}, parts : SUBSET Parts]
  BY <1>2, <1>3 DEF ServerSessions
<1> HIDE DEF sv2
<1>5. sv2 \in ServerSessions
  BY <1>2, <1>4 DEF ServerSessions
<1>6. Grows(sv, sv2)
  BY <1>2, <1>4, <1>5 DEF Grows
<1> QED BY <1>2, <1>4, <1>6 DEF sv2
\* A server that does nothing has forgotten nothing.
LEMMA GrowsToItself ==
  ASSUME NEW sv \in ServerSessions
  PROVE  Grows(sv, sv)
  BY DEF Grows

\* A run that has its session.
Opened(x, s, found, part) ==
  [x EXCEPT !.pc = "opened", !.resume = 0, !.session = s, !.found = found, !.part = part]
\* A run whose session was opened is a run.
LEMMA OpenedIs ==
  ASSUME NEW x, IsRun(x), NEW s, NEW found, NEW part
  PROVE  LET y == Opened(x, s, found, part)
         IN /\ IsRun(y) /\ y.pc = "opened" /\ y.resume = 0 /\ y.session = s /\ y.found = found
            /\ y.task = x.task /\ y.epoch = x.epoch
<1>1. Opened(x, s, found, part) = [[[[[x EXCEPT !.pc = "opened"] EXCEPT !.resume = 0] EXCEPT !.session = s]
                                     EXCEPT !.found = found] EXCEPT !.part = part]
  BY DEF Opened
<1>2. PICK y1 : y1 = [x EXCEPT !.pc = "opened"]
  OBVIOUS
<1>3. PICK y2 : y2 = [y1 EXCEPT !.resume = 0]
  OBVIOUS
<1>4. PICK y3 : y3 = [y2 EXCEPT !.session = s]
  OBVIOUS
<1>5. PICK y4 : y4 = [y3 EXCEPT !.found = found]
  OBVIOUS
<1>6. PICK y5 : y5 = [y4 EXCEPT !.part = part]
  OBVIOUS
<1>7. IsRun(y1) /\ y1.pc = "opened" /\ y1.task = x.task /\ y1.epoch = x.epoch
  <2>1. PICK pc : pc = "opened"
    OBVIOUS
  <2>2. IsRun(y1) /\ y1.pc = pc /\ y1.task = x.task /\ y1.epoch = x.epoch
    BY <1>2, <2>1, SetsPc
  <2> QED BY <2>1, <2>2
<1>8. IsRun(y2) /\ y2.pc = "opened" /\ y2.resume = 0 /\ y2.task = x.task /\ y2.epoch = x.epoch
  BY <1>3, <1>7, SetsResume
<1>9. /\ IsRun(y3) /\ y3.pc = "opened" /\ y3.resume = 0 /\ y3.session = s
      /\ y3.task = x.task /\ y3.epoch = x.epoch
  BY <1>4, <1>8, SetsSession
<1>10. /\ IsRun(y4) /\ y4.pc = "opened" /\ y4.resume = 0 /\ y4.session = s /\ y4.found = found
       /\ y4.task = x.task /\ y4.epoch = x.epoch
  BY <1>5, <1>9, SetsFound
<1>11. /\ IsRun(y5) /\ y5.pc = "opened" /\ y5.resume = 0 /\ y5.session = s /\ y5.found = found
       /\ y5.task = x.task /\ y5.epoch = x.epoch
  BY <1>6, <1>10, SetsPart
<1> QED BY <1>1, <1>2, <1>3, <1>4, <1>5, <1>6, <1>11

\* The server's answer reaches the run, of this epoch or not.
LEMMA OpenSessionKeepsInv ==
  ASSUME UploadsInv, NEW r \in Runs, openSession(r)
  PROVE  UploadsInv'
<1> DEFINE resumed == runs[r].resume # 0
<1>1. PICK s : s = IF runs[r].resume = 0 THEN Lowest(Fresh) ELSE runs[r].resume
  OBVIOUS
<1>2. PICK now : now = IF runs[r].resume = 0 THEN [state |-> "open", parts |-> {}] ELSE sessions[s]
  OBVIOUS
<1>3. PICK part : part = [p \in Parts |-> IF p \in now.parts THEN "done" ELSE "todo"]
  OBVIOUS
<1>4. /\ runs[r].pc = "opening" /\ (runs[r].resume = 0 => Fresh # {})
      /\ sessions' = [sessions EXCEPT ![s] = now]
      /\ runs' = [runs EXCEPT ![r] = Opened(runs[r], s, now.state, part)]
      /\ UNCHANGED <<enabled, epoch, plans, status, session, queue, activeFiles, gateQueue, controller,
                     cancels, faults, cancelFailed>>
  BY <1>1, <1>2, <1>3, Zenon DEF openSession, Opened
<1>5. PICK x : x = Opened(runs[r], s, now.state, part)
  OBVIOUS
<1>6. RunIsSound(runs[r], epoch, sessions)
  BY InvSays
<1>7. /\ s \in Sessions /\ now \in [state : {"none", "open", "cancelled", "completed"}, parts : SUBSET Parts]
      /\ now.state # "none" /\ (sessions[s].state = "completed" => now.state = "completed")
      /\ sessions \in ServerSessions
  <2>1. CASE runs[r].resume = 0
    <3>1. s \in Sessions /\ sessions[s].state = "none"
      BY <2>1, <1>1, <1>4, FreshIsUnused
    <3>2. now = [state |-> "open", parts |-> {}]
      BY <2>1, <1>2
    <3> QED BY <3>1, <3>2, InvSays
  <2>2. CASE runs[r].resume # 0
    <3>1. s \in Sessions /\ sessions[s].state # "none" /\ now = sessions[s]
      BY <2>2, <1>1, <1>2, <1>4, <1>6 DEF RunIsSound
    <3> QED BY <3>1, InvSays DEF ServerSessions
  <2> QED BY <2>1, <2>2
<1>8. Grows(sessions, sessions') /\ sessions'[s] = now
  BY <1>4, <1>7 DEF Grows, ServerSessions
<1>9. /\ IsRun(x) /\ x.pc = "opened" /\ x.resume = 0 /\ x.session = s /\ x.found = now.state
      /\ x.task = runs[r].task /\ x.epoch = runs[r].epoch
  BY <1>5, <1>6, OpenedIs DEF RunIsSound
<1>10. RunIsSound(x, epoch, sessions')
  <2>1. x.found \in {"open", "completed", "cancelled"}
    BY <1>7, <1>9
  <2>2. x.task \in Tasks /\ x.epoch \in 0..epoch
    BY <1>4, <1>6, <1>9 DEF RunIsSound
  <2> QED BY <2>1, <2>2, <1>7, <1>8, <1>9 DEF RunIsSound, Stages, WithSession
<1>11. Around
  BY <1>4, <1>8, InvSays DEF Around
<1>12. CASE Here(r, runs[r].task)
  <2>1. PICK t : t = runs[r].task
    OBVIOUS
  <2>2. Here(r, t)
    BY <1>12, <2>1
  <2>3. /\ r \in Mine(runs, epoch) /\ HasSession(runs[r], status, session) /\ enabled = TRUE /\ Ready(session)
        /\ t \in Tasks
    <3>1. t \in Tasks /\ runs[r].epoch = epoch
      BY <2>2 DEF Here
    <3> QED BY <2>2, <3>1, HereSays
  <2>4. HasSession(x, status, session)
    BY <2>1, <2>3, <1>1, <1>4, <1>9 DEF HasSession
  <2>5. Good(status, session, queue, activeFiles, runs, gateQueue, epoch, cancels, cancelFailed, sessions')
    BY <1>8, InvSays, GoodWhenServed
  <2>6. Shows(status, status, t)
    BY InvSays DEF Shows
  <2>7. runs' = [runs EXCEPT ![r] = x]
    BY <1>4, <1>5
  <2>8. Good(status, session, queue, activeFiles, runs', gateQueue, epoch, cancels, cancelFailed, sessions')
    <3>1. x.task = t /\ x.epoch = epoch /\ x.pc # "none" /\ runs[r].pc # "waiting"
      BY <2>1, <2>2, <1>4, <1>9 DEF Here
    <3> QED BY <3>1, <2>1, <2>3, <2>4, <2>5, <2>6, <2>7, <1>10, GoodShows
  <2>9. Pumped(status, session', cancels, cancelFailed, sessions')
    BY <2>3, <2>8, <1>4 DEF Pumped, Ready
  <2> QED BY <2>3, <2>9, <1>11, InvPumped
<1>13. CASE runs[r].epoch # epoch /\ r \notin Mine(runs, epoch)
  <2>1. runs' = [runs EXCEPT ![r] = x] /\ x.epoch # epoch
    BY <1>4, <1>5, <1>9, <1>13
  <2>2. GateHas(gateQueue', runs')
    <3>1. runs = [q \in Runs |-> runs[q]] /\ GateHas(gateQueue, runs)
      BY InvSays
    <3>2. runs[r].pc # "waiting"
      BY <1>4
    <3>3. GateHas(gateQueue, [runs EXCEPT ![r] = x])
      BY <3>1, <3>2, GateKeeps
    <3> QED BY <3>3, <2>1, <1>4
  <2>3. controller' \in [Tasks -> Runs \cup {0}] /\ UNCHANGED <<status, session, queue, activeFiles>>
    BY <1>4, InvSays
  <2> QED BY <2>1, <2>2, <2>3, <1>10, <1>11, <1>13, InvElsewhere
<1> QED BY <1>4, <1>12, <1>13, EveryRunIsHereOrNot

\* A run that fails, where the page did not change before.
LEMMA ThrowsKeepsInv ==
  ASSUME UploadsInv, Around, NEW r \in Runs, runs[r].pc \notin {"none", "waiting"},
         NEW exists, throws(r, status, exists), session' = session
  PROVE  UploadsInv'
<1>1. CASE Here(r, runs[r].task)
  <2>1. PICK t : t = runs[r].task
    OBVIOUS
  <2>2. /\ r \in Mine(runs, epoch) /\ enabled = TRUE /\ Ready(session) /\ status[t] # "none"
        /\ t \in Tasks /\ runs[r].epoch = epoch
    BY <1>1, <2>1, HereSays DEF Here
  <2>3. Good(status, session, queue, activeFiles, runs, gateQueue, epoch, cancels, cancelFailed, sessions')
    BY InvSays, GoodWhenServed DEF Around
  <2>4. Pumped(status, session, cancels, cancelFailed, sessions')
    BY <2>1, <2>2, <2>3, ThrowsKeeps
  <2> QED BY <2>2, <2>4, InvPumped
<1>2. CASE runs[r].epoch # epoch /\ r \notin Mine(runs, epoch)
  <2>1. PICK st : end(r, st)
    BY Zenon DEF throws
  <2> QED BY <2>1, <1>2, EndsElsewhere
<1> QED BY <1>1, <1>2, EveryRunIsHereOrNot

\* One that looks at its parts.
LEMMA AllSettledElsewhere ==
  ASSUME UploadsInv, Around, NEW r \in Runs, r \notin Mine(runs, epoch), runs[r].pc \in WithSession,
         NEW part, allSettled(r, part, status), session' = session
  PROVE  UploadsInv'
<1>0. runs[r].pc \notin {"none", "waiting"} /\ runs[r].epoch # epoch
  BY DEF WithSession, Mine
<1>1. ASSUME NEW pc \in {"parts", "finalizing"}, NEW part2,
             runs' = [runs EXCEPT ![r] = Moved(runs[r], pc, part2)],
             status' = status, UNCHANGED <<queue, activeFiles, gateQueue, controller>>
      PROVE  UploadsInv'
  <2>1. PICK x : x = Moved(runs[r], pc, part2)
    OBVIOUS
  <2>2. RunIsSound(runs[r], epoch, sessions')
    <3>1. RunIsSound(runs[r], epoch, sessions) /\ Grows(sessions, sessions')
      BY InvSays DEF Around
    <3> QED BY <3>1, Zenon DEF RunIsSound, Grows, WithSession
  <2>3. IsRun(runs[r])
    BY <2>2 DEF RunIsSound
  <2>4. RunIsSound(x, epoch, sessions') /\ x.epoch # epoch
    BY <2>1, <2>2, <2>3, <1>0, MovedIsSound, MovedIs
  <2>5. runs' = [runs EXCEPT ![r] = x]
    BY <1>1, <2>1
  <2>6. runs = [q \in Runs |-> runs[q]] /\ GateHas(gateQueue, runs) /\ controller \in [Tasks -> Runs \cup {0}]
    BY InvSays
  <2>7. GateHas(gateQueue, [runs EXCEPT ![r] = x]) /\ gateQueue' = gateQueue /\ controller' = controller
    BY <2>6, <1>0, <1>1, GateKeeps
  <2>8. UNCHANGED <<status, session, queue, activeFiles>>
    BY <1>1
  <2> QED BY <2>4, <2>5, <2>6, <2>7, <2>8, InvElsewhere
<1>2. CASE \E p \in Parts : part[p] \in {"todo", "sending"}
  <2>1. /\ runs' = [runs EXCEPT ![r] = Moved(runs[r], "parts", part)] /\ status' = status
        /\ UNCHANGED <<queue, activeFiles, gateQueue, controller>>
    BY <1>2, Zenon DEF allSettled, Moved
  <2> QED BY <2>1, <1>1
<1>3. CASE /\ ~(\E p \in Parts : part[p] \in {"todo", "sending"})
           /\ \E p \in Parts : part[p] = "failed"
  <2>1. throws(r, status, FALSE)
    BY <1>3, Zenon DEF allSettled
  <2> QED BY <2>1, <1>0, ThrowsKeepsInv
<1>4. CASE /\ ~(\E p \in Parts : part[p] \in {"todo", "sending"})
           /\ ~(\E p \in Parts : part[p] = "failed")
  <2>1. /\ runs' = [runs EXCEPT ![r] = Moved(runs[r], "finalizing", NoRun.part)]
        /\ status' = IF Current(r) /\ status[runs[r].task] # "removed"
                     THEN [status EXCEPT ![runs[r].task] = "finalizing"] ELSE status
        /\ UNCHANGED <<queue, activeFiles, gateQueue, controller>>
    BY <1>4, Zenon DEF allSettled, Moved
  <2>2. status' = status
    BY <2>1, <1>0 DEF Current
  <2> QED BY <2>1, <2>2, <1>1
<1> QED BY <1>2, <1>3, <1>4
\* allSettled keeps the invariant, whichever way the parts ended.
LEMMA AllSettledKeepsInv ==
  ASSUME UploadsInv, Around, NEW r \in Runs, runs[r].pc = "parts",
         NEW part, allSettled(r, part, status), session' = session
  PROVE  UploadsInv'
<1>1. CASE Here(r, runs[r].task)
  <2>1. PICK t : t = runs[r].task
    OBVIOUS
  <2>2. /\ r \in Mine(runs, epoch) /\ enabled = TRUE /\ Ready(session) /\ status[t] # "none"
        /\ t \in Tasks /\ runs[r].epoch = epoch
    BY <1>1, <2>1, HereSays DEF Here
  <2>3. Good(status, session, queue, activeFiles, runs, gateQueue, epoch, cancels, cancelFailed, sessions')
    BY InvSays, GoodWhenServed DEF Around
  <2>4. runs = [s \in Runs |-> runs[s]] /\ RunIsSound(runs[r], epoch, sessions) /\ Grows(sessions, sessions')
    BY InvSays DEF Around
  <2>5. PICK x : x = runs[r]
    OBVIOUS
  <2>6. runs = [runs EXCEPT ![r] = x]
    BY <2>4, <2>5
  <2>7. /\ x.pc = "parts" /\ x.task = t /\ x.epoch = epoch /\ x.session = runs[r].session
        /\ runs[r].pc \in WithSession
    BY <2>1, <2>2, <2>5 DEF WithSession
  <2>8. Pumped(status, session, cancels, cancelFailed, sessions')
    BY <2>1, <2>2, <2>3, <2>4, <2>6, <2>7, AllSettledKeeps
  <2> QED BY <2>2, <2>8, InvPumped
<1>2. CASE runs[r].epoch # epoch /\ r \notin Mine(runs, epoch)
  BY <1>2, AllSettledElsewhere DEF WithSession
<1> QED BY <1>1, <1>2, EveryRunIsHereOrNot

\* A request may fail.
LEMMA FaultsStay ==
  ASSUME UploadsInv, MayFail \/ UNCHANGED faults
  PROVE  faults' \in 0..MaxFaults
  BY InvSays, UploadsAssumption DEF MayFail

\* The steps of a run: it cannot open its session,
LEMMA OpenFailsKeepsInv ==
  ASSUME UploadsInv, NEW r \in Runs, openFails(r)
  PROVE  UploadsInv'
<1>1. PICK why \in {"aborted", "failed", "exists"} :
        /\ IF why = "failed" THEN MayFail ELSE UNCHANGED faults
        /\ throws(r, status, why = "exists")
        /\ \/ UNCHANGED sessions
           \/ Fresh # {} /\ sessions' = [sessions EXCEPT ![Lowest(Fresh)].state = "open"]
  BY Zenon DEF openFails
<1>2. runs[r].pc = "opening" /\ UNCHANGED <<enabled, epoch, plans, session, cancels, cancelFailed>>
  BY DEF openFails
<1>3. Grows(sessions, sessions')
  <2>1. CASE UNCHANGED sessions
    BY <2>1, InvSays, GrowsToItself
  <2>2. CASE Fresh # {} /\ sessions' = [sessions EXCEPT ![Lowest(Fresh)].state = "open"]
    <3>1. PICK s \in Sessions : s = Lowest(Fresh) /\ sessions[s].state = "none"
      BY <2>2, FreshIsUnused
    <3>2. Grows(sessions, [sessions EXCEPT ![s].state = "open"])
      BY <3>1, InvSays, StateSet
    <3> QED BY <3>1, <3>2, <2>2
  <2> QED BY <1>1, <2>1, <2>2
<1>4. MayFail \/ UNCHANGED faults
  BY <1>1
<1>5. Around
  BY <1>2, <1>3, <1>4, FaultsStay DEF Around
<1>6. PICK exists : exists = (why = "exists")
  OBVIOUS
<1>7. throws(r, status, exists)
  BY <1>1, <1>6
<1> QED BY <1>2, <1>5, <1>7, ThrowsKeepsInv

\* sends a part,
LEMMA SendPartKeepsInv ==
  ASSUME UploadsInv, NEW r \in Runs, NEW p \in Parts, sendPart(r, p)
  PROVE  UploadsInv'
<1>1. /\ runs[r].pc = "parts" /\ runs' = [runs EXCEPT ![r].part[p] = "sending"]
      /\ UNCHANGED <<enabled, epoch, plans, status, session, queue, activeFiles, gateQueue,
                     controller, cancels, sessions, faults, cancelFailed>>
  BY DEF sendPart
<1>2. PICK part : part = [runs[r].part EXCEPT ![p] = "sending"]
  OBVIOUS
<1>3. PICK x : x = [runs[r] EXCEPT !.part = part]
  OBVIOUS
<1>4. runs' = [runs EXCEPT ![r] = x]
  BY <1>1, <1>2, <1>3
<1>5. RunIsSound(runs[r], epoch, sessions) /\ runs = [s \in Runs |-> runs[s]] /\ GateHas(gateQueue, runs)
  BY InvSays
<1>6. /\ IsRun(x) /\ x.task = runs[r].task /\ x.epoch = runs[r].epoch /\ x.resume = runs[r].resume
      /\ x.pc = runs[r].pc /\ x.session = runs[r].session /\ x.found = runs[r].found
  BY <1>3, <1>5, SetsPart DEF RunIsSound
<1>7. RunIsSound(x, epoch, sessions)
  BY <1>5, <1>6 DEF RunIsSound
<1>8. Around /\ sessions' = sessions
  BY <1>1, InvSays, GrowsToItself DEF Around
<1>9. CASE Here(r, runs[r].task)
  <2>1. PICK t : t = runs[r].task
    OBVIOUS
  <2>2. /\ r \in Mine(runs, epoch) /\ HasSession(runs[r], status, session) /\ enabled = TRUE /\ Ready(session)
        /\ t \in Tasks /\ runs[r].epoch = epoch
    <3>1. Here(r, t)
      BY <1>9, <2>1
    <3>2. t \in Tasks /\ runs[r].epoch = epoch
      BY <3>1 DEF Here
    <3> QED BY <3>1, <3>2, HereSays
  <2>3. HasSession(x, status, session) /\ Shows(status, status, t)
    BY <1>6, <2>2, InvSays DEF HasSession, Shows
  <2>4. Good(status, session, queue, activeFiles, runs, gateQueue, epoch, cancels, cancelFailed, sessions)
    BY InvSays
  <2>5. x.task = t /\ x.epoch = epoch /\ x.pc # "none" /\ runs[r].pc # "waiting"
    BY <1>1, <1>6, <2>1, <2>2
  <2>6. Good(status, session, queue, activeFiles, runs', gateQueue, epoch, cancels, cancelFailed, sessions)
    BY <1>4, <1>7, <2>1, <2>2, <2>3, <2>4, <2>5, GoodShows
  <2>7. Pumped(status, session', cancels, cancelFailed, sessions')
    BY <2>2, <2>6, <1>1 DEF Pumped, Ready
  <2> QED BY <2>2, <2>7, <1>8, InvPumped
<1>10. CASE runs[r].epoch # epoch /\ r \notin Mine(runs, epoch)
  <2>1. GateHas(gateQueue', runs')
    <3>1. GateHas(gateQueue, [runs EXCEPT ![r] = x])
      BY <1>1, <1>5, GateKeeps
    <3> QED BY <3>1, <1>1, <1>4
  <2>2. controller' \in [Tasks -> Runs \cup {0}] /\ UNCHANGED <<status, session, queue, activeFiles>>
    BY <1>1, InvSays
  <2>3. RunIsSound(x, epoch, sessions') /\ x.epoch # epoch
    BY <1>6, <1>7, <1>8, <1>10
  <2> QED BY <2>1, <2>2, <2>3, <1>4, <1>8, <1>10, InvElsewhere
<1> QED BY <1>1, <1>9, <1>10, EveryRunIsHereOrNot

\* The server stores a part.
LEMMA StoredGrows ==
  ASSUME UploadsInv, NEW r \in Runs, runs[r].pc = "parts", NEW p \in Parts
  PROVE  Grows(sessions, Stored(r, p))
<1>1. RunIsSound(runs[r], epoch, sessions) /\ sessions \in ServerSessions
  BY InvSays
<1>2. PICK s \in Sessions : s = runs[r].session
  BY <1>1 DEF RunIsSound, WithSession
<1>3. PICK v : v = sessions[s].parts \cup {p}
  OBVIOUS
<1>4. sessions[s] = [state |-> sessions[s].state, parts |-> sessions[s].parts]
  BY <1>1 DEF ServerSessions
<1>5. PICK z : z = [sessions[s] EXCEPT !.parts = v]
  OBVIOUS
<1>6. z = [state |-> sessions[s].state, parts |-> v]
  BY <1>4, <1>5
<1>7. z \in [state : {"none", "open", "cancelled", "completed"}, parts : SUBSET Parts] /\ z.state = sessions[s].state
  BY <1>1, <1>3, <1>6 DEF ServerSessions
<1>8. Stored(r, p) = [sessions EXCEPT ![s] = z]
  BY <1>2, <1>3, <1>5 DEF Stored
<1> QED BY <1>1, <1>7, <1>8 DEF Grows, ServerSessions

\* has stored a part,
LEMMA PutPartKeepsInv ==
  ASSUME UploadsInv, NEW r \in Runs, NEW p \in Parts, putPart(r, p)
  PROVE  UploadsInv'
<1>1. /\ runs[r].pc = "parts" /\ sessions' = Stored(r, p)
      /\ allSettled(r, [runs[r].part EXCEPT ![p] = "done"], status)
      /\ UNCHANGED <<enabled, epoch, plans, session, cancels, faults, cancelFailed>>
  BY Zenon DEF putPart
<1>2. PICK part : part = [runs[r].part EXCEPT ![p] = "done"]
  OBVIOUS
<1>3. Around
  BY <1>1, StoredGrows, InvSays DEF Around
<1>4. allSettled(r, part, status) /\ session' = session
  BY <1>1, <1>2
<1> QED BY <1>1, <1>3, <1>4, AllSettledKeepsInv

\* gives a part up,
LEMMA PartFailsKeepsInv ==
  ASSUME UploadsInv, NEW r \in Runs, NEW p \in Parts, partFails(r, p)
  PROVE  UploadsInv'
<1>1. /\ runs[r].pc = "parts" /\ sessions' \in {sessions, Stored(r, p)}
      /\ allSettled(r, [runs[r].part EXCEPT ![p] = "failed"], status)
      /\ MayFail \/ UNCHANGED faults
      /\ UNCHANGED <<enabled, epoch, plans, session, cancels, cancelFailed>>
  BY DEF partFails
<1>2. PICK part : part = [runs[r].part EXCEPT ![p] = "failed"]
  OBVIOUS
<1>3. Grows(sessions, sessions')
  BY <1>1, StoredGrows, GrowsToItself, InvSays
<1>4. Around
  BY <1>1, <1>3, FaultsStay DEF Around
<1>5. allSettled(r, part, status) /\ session' = session
  BY <1>1, <1>2
<1> QED BY <1>1, <1>4, <1>5, AllSettledKeepsInv

\* finalizes,
LEMMA CompleteKeepsInv ==
  ASSUME UploadsInv, NEW r \in Runs, complete(r)
  PROVE  UploadsInv'
<1>1. /\ runs[r].pc = "finalizing" /\ succeeds(r)
      /\ sessions' = [sessions EXCEPT ![runs[r].session].state = "completed"]
      /\ UNCHANGED <<enabled, epoch, plans, session, cancels, faults, cancelFailed>>
  BY Zenon DEF complete
<1>2. PICK s \in Sessions : s = runs[r].session
  BY <1>1, InvSays DEF RunIsSound, WithSession
<1>3. Grows(sessions, sessions') /\ sessions'[s].state = "completed"
  <2>1. sessions' = [sessions EXCEPT ![s].state = "completed"]
    BY <1>1, <1>2
  <2> QED BY <2>1, InvSays, StateSet
<1>4. Around
  BY <1>1, <1>3, InvSays DEF Around
<1>5. CASE Here(r, runs[r].task)
  <2>1. PICK t : t = runs[r].task
    OBVIOUS
  <2>2. /\ r \in Mine(runs, epoch) /\ enabled = TRUE /\ Ready(session) /\ status[t] # "none"
        /\ t \in Tasks /\ runs[r].epoch = epoch /\ HasSession(runs[r], status, session)
    BY <1>5, <2>1, HereSays DEF Here
  <2>3. Good(status, session, queue, activeFiles, runs, gateQueue, epoch, cancels, cancelFailed, sessions')
    BY <1>3, InvSays, GoodWhenServed
  <2>4. status[t] # "removed" => session[t] # 0 /\ sessions'[session[t]].state = "completed"
    <3>1. status[t] # "removed" => session[t] = s
      BY <1>1, <1>2, <2>1, <2>2 DEF HasSession
    <3>2. s # 0
      BY UploadsAssumption
    <3> QED BY <3>1, <3>2, <1>3
  <2>5. status \in [Tasks -> Statuses] /\ runs[r].pc # "waiting"
    BY <1>1, InvSays
  <2>6. Pumped(status, session, cancels, cancelFailed, sessions')
    BY <1>1, <2>1, <2>2, <2>3, <2>4, <2>5, SucceedsKeeps
  <2> QED BY <1>1, <1>4, <2>2, <2>6, InvPumped
<1>6. CASE runs[r].epoch # epoch /\ r \notin Mine(runs, epoch)
  <2>1. PICK st : end(r, st)
    BY <1>1, Zenon DEF succeeds
  <2> QED BY <2>1, <1>1, <1>4, <1>6, EndsElsewhere
<1> QED BY <1>1, <1>5, <1>6, EveryRunIsHereOrNot

\* fails to finalize,
LEMMA CompleteFailsKeepsInv ==
  ASSUME UploadsInv, NEW r \in Runs, completeFails(r)
  PROVE  UploadsInv'
<1>1. /\ runs[r].pc = "finalizing" /\ throws(r, status, FALSE)
      /\ MayFail \/ UNCHANGED faults
      /\ \/ UNCHANGED sessions
         \/ /\ sessions[runs[r].session].state = "open"
            /\ sessions' = [sessions EXCEPT ![runs[r].session].state = "completed"]
      /\ UNCHANGED <<enabled, epoch, plans, session, cancels, cancelFailed>>
  BY Zenon DEF completeFails
<1>2. PICK s \in Sessions : s = runs[r].session
  BY <1>1, InvSays DEF RunIsSound, WithSession
<1>3. Grows(sessions, sessions')
  <2>1. CASE UNCHANGED sessions
    BY <2>1, InvSays, GrowsToItself
  <2>2. CASE sessions' = [sessions EXCEPT ![s].state = "completed"]
    BY <2>2, InvSays, StateSet
  <2> QED BY <1>1, <1>2, <2>1, <2>2
<1>4. Around
  BY <1>1, <1>3, FaultsStay DEF Around
<1> QED BY <1>1, <1>4, ThrowsKeepsInv

\* passes the gate,
LEMMA StartKeepsInv ==
  ASSUME UploadsInv, NEW r \in Runs, start(r)
  PROVE  UploadsInv'
<1>1. /\ gateQueue # <<>> /\ r = Head(gateQueue) /\ gateQueue' = Tail(gateQueue)
      /\ UNCHANGED <<enabled, epoch, plans, session, queue, activeFiles, cancels, sessions, faults, cancelFailed>>
  BY DEF start
<1>2. runs = [s \in Runs |-> runs[s]] /\ GateHas(gateQueue, runs) /\ RunIsSound(runs[r], epoch, sessions)
  BY InvSays
<1>3. /\ runs[r].pc = "waiting"
      /\ \A x : GateHas(gateQueue', [runs EXCEPT ![r] = x])
  BY <1>1, <1>2, GateLets
<1>4. Around /\ sessions' = sessions /\ session' = session
  BY <1>1, InvSays, GrowsToItself DEF Around
<1>5. CASE Here(r, runs[r].task)
  <2>1. PICK t : t = runs[r].task
    OBVIOUS
  <2>2. Here(r, t)
    BY <1>5, <2>1
  <2>3. /\ r \in Mine(runs, epoch) /\ HasSession(runs[r], status, session) /\ enabled = TRUE /\ Ready(session)
        /\ status[t] # "none" /\ t \in Tasks /\ runs[r].epoch = epoch
    <3>1. t \in Tasks /\ runs[r].epoch = epoch
      BY <2>2 DEF Here
    <3> QED BY <2>2, <3>1, HereSays
  <2>4. /\ status' = patchTask(t, "preparing") /\ controller' = [controller EXCEPT ![t] = r]
        /\ runs' = [runs EXCEPT ![r].pc = "opening"]
    BY <2>1, <2>3 DEF start, Current
  <2>5. PICK pc : pc = "opening"
    OBVIOUS
  <2>6. PICK x : x = [runs[r] EXCEPT !.pc = pc]
    OBVIOUS
  <2>7. runs' = [runs EXCEPT ![r] = x]
    BY <2>4, <2>5, <2>6
  <2>8. /\ IsRun(x) /\ x.task = runs[r].task /\ x.epoch = runs[r].epoch /\ x.resume = runs[r].resume
        /\ x.pc = pc /\ x.session = runs[r].session /\ x.found = runs[r].found
    BY <2>6, <1>2, SetsPc DEF RunIsSound
  <2>9. RunIsSound(x, epoch, sessions) /\ x.task = t /\ x.epoch = epoch /\ x.pc # "none"
    BY <2>1, <2>3, <2>5, <2>8, <1>2, <1>3 DEF RunIsSound, Stages, WithSession
  <2>10. Shows(status, status', t) /\ status'[t] # "queued"
    BY <2>3, <2>4, InvSays DEF Shows, patchTask, Statuses, Active
  <2>11. HasSession(x, status', session)
    BY <2>1, <2>3, <2>5, <2>8, <2>10, <1>3 DEF HasSession, Shows
  <2>12. Good(status', session, queue, activeFiles, runs', gateQueue', epoch, cancels, cancelFailed, sessions)
    <3>1. Good(status, session, queue, activeFiles, runs, gateQueue, epoch, cancels, cancelFailed, sessions)
      BY InvSays
    <3>2. GateHas(gateQueue', [runs EXCEPT ![r] = x]) /\ session \in [Tasks -> Sessions \cup {0}]
      BY <1>3, InvSays
    <3>3. UploadsLearns(session, session, status, sessions, t)
      BY <3>2 DEF UploadsLearns
    <3> QED BY <3>1, <3>2, <3>3, <2>1, <2>3, <2>7, <2>9, <2>10, <2>11, GoodGoesOn
  <2>13. controller' \in [Tasks -> Runs \cup {0}]
    BY <2>3, <2>4 DEF Ready
  <2>14. \A u \in Tasks : status[u] = "none" => status'[u] = "none"
    BY <2>3, <2>10 DEF Shows
  <2>15. Pumped(status, session', cancels, cancelFailed, sessions')
    BY <2>3, <2>12, <2>13, <2>14, <1>1, <1>4 DEF Pumped, Ready
  <2> QED BY <2>3, <2>15, <1>4, InvPumped
<1>6. CASE runs[r].epoch # epoch /\ r \notin Mine(runs, epoch)
  <2>1. runs' = [runs EXCEPT ![r] = NoRun] /\ UNCHANGED <<status, controller>>
    BY <1>6 DEF start, Current
  <2>2. RunIsSound(NoRun, epoch, sessions') /\ NoRun.pc = "none"
    BY NoRunIsSound, NoRunIs
  <2>3. GateHas(gateQueue', runs')
    BY <1>3, <2>1
  <2>4. controller' \in [Tasks -> Runs \cup {0}] /\ UNCHANGED <<status, session, queue, activeFiles>>
    BY <1>1, <2>1, InvSays
  <2> QED BY <1>4, <1>6, <2>1, <2>2, <2>3, <2>4, InvElsewhere
<1> QED BY <1>3, <1>5, <1>6, EveryRunIsHereOrNot

\* and goes on with the session it was given.
LEMMA OnSessionKeepsInv ==
  ASSUME UploadsInv, NEW r \in Runs, onSession(r)
  PROVE  UploadsInv'
<1>1. PICK part : part = [p \in Parts |-> IF runs[r].aborted /\ runs[r].part[p] = "todo" THEN "failed"
                                          ELSE runs[r].part[p]]
  OBVIOUS
<1>2. PICK t : t = runs[r].task
  OBVIOUS
<1>3. PICK st : st = IF Current(r) THEN patchTask(t, "uploading") ELSE status
  OBVIOUS
<1>4. /\ runs[r].pc = "opened"
      /\ session' = IF Current(r) /\ status[t] # "removed"
                    THEN [session EXCEPT ![t] = runs[r].session] ELSE session
      /\ \/ runs[r].found = "completed" /\ succeeds(r)
         \/ runs[r].found = "cancelled" /\ throws(r, st, FALSE)
         \/ runs[r].found = "open" /\ allSettled(r, part, st)
      /\ UNCHANGED <<enabled, epoch, plans, cancels, sessions, faults, cancelFailed>>
  BY <1>1, <1>2, <1>3, Zenon DEF onSession
<1>5. runs = [s \in Runs |-> runs[s]] /\ GateHas(gateQueue, runs) /\ RunIsSound(runs[r], epoch, sessions)
  BY InvSays
<1>6. Around /\ sessions' = sessions
  BY <1>4, InvSays, GrowsToItself DEF Around
<1>7. runs[r].pc \in WithSession /\ runs[r].session \in Sessions /\ sessions[runs[r].session].state # "none"
  BY <1>4, <1>5 DEF WithSession, RunIsSound
<1>8. CASE Here(r, runs[r].task)
  <2>1. Here(r, t)
    BY <1>8, <1>2
  <2>2. /\ r \in Mine(runs, epoch) /\ r \in MineOf(runs, epoch, t) /\ HasSession(runs[r], status, session)
        /\ enabled = TRUE /\ Ready(session) /\ status[t] # "none" /\ t \in Tasks /\ runs[r].epoch = epoch
    <3>1. t \in Tasks /\ runs[r].epoch = epoch
      BY <2>1 DEF Here
    <3> QED BY <2>1, <3>1, HereSays
  <2>3. /\ status \in [Tasks -> Statuses] /\ session \in [Tasks -> Sessions \cup {0}]
        /\ t \notin cancelFailed => OneRun(t, runs, epoch, status, queue)
        /\ Remembered(t, status, session, cancels, cancelFailed, sessions)
    BY <2>2, InvSays DEF Good
  <2>4. st = patchTask(t, "uploading") /\ Current(r)
    BY <1>3, <2>2 DEF Current
  <2>5. Shows(status, st, t) /\ st[t] # "queued" /\ st[t] # "none" /\ (status[t] = "removed" <=> st[t] = "removed")
    BY <2>2, <2>3, <2>4 DEF Shows, patchTask, Statuses, Active
  <2>6. PICK se : se = session'
    OBVIOUS
  <2>7. /\ se \in [Tasks -> Sessions \cup {0}] /\ \A u \in Tasks : u # t => se[u] = session[u]
        /\ IF status[t] = "removed" THEN se[t] = session[t] ELSE se[t] = runs[r].session
    BY <1>4, <1>7, <2>2, <2>3, <2>4, <2>6
  <2>8. se[t] = session[t] \/ (session[t] = 0 /\ status[t] # "removed" /\ sessions[se[t]].state # "none")
    BY <1>2, <1>4, <1>7, <2>2, <2>7 DEF HasSession
  <2>9. PICK x : x = Moved(runs[r], "parts", part)
    OBVIOUS
  <2>10. /\ RunIsSound(x, epoch, sessions) /\ x.pc = "parts" /\ x.task = t /\ x.epoch = epoch
         /\ x.session = runs[r].session
    <3>1. IsRun(runs[r])
      BY <1>5 DEF RunIsSound
    <3>2. RunIsSound(x, epoch, sessions)
      BY <1>5, <1>7, <2>9, MovedIsSound
    <3> QED BY <3>1, <3>2, <1>2, <2>2, <2>9, MovedIs
  <2>11. HasSession(x, st, se)
    BY <2>5, <2>7, <2>10 DEF HasSession
  <2>12. PICK rs : rs = [runs EXCEPT ![r] = x]
    OBVIOUS
  <2>13. Good(st, se, queue, activeFiles, rs, gateQueue, epoch, cancels, cancelFailed, sessions)
    <3>1. Good(status, session, queue, activeFiles, runs, gateQueue, epoch, cancels, cancelFailed, sessions)
      BY InvSays
    <3>2. GateHas(gateQueue, [runs EXCEPT ![r] = x])
      BY <1>4, <1>5, GateKeeps
    <3>3. x.pc # "none" /\ st[t] # "queued"
      BY <2>5, <2>10
    <3>4. UploadsLearns(session, se, status, sessions, t)
      BY <2>7, <2>8 DEF UploadsLearns
    <3>5. GateHas(gateQueue, rs)
      BY <3>2, <2>12
    <3> QED BY <3>1, <3>3, <3>4, <3>5, <1>2, <2>2, <2>5, <2>10, <2>11, <2>12, GoodGoesOn
  <2>14. Ready(se)
    <3>1. Listed(queue, t) => se[t] = session[t]
      BY <2>2, <2>3, <2>8 DEF OneRun, Remembered
    <3> QED BY <3>1, <2>2, <2>7 DEF Ready
  <2>15. /\ rs[r] = x /\ r \in Mine(rs, epoch) /\ rs[r].task = t /\ rs[r].pc # "waiting"
         /\ [rs EXCEPT ![r] = NoRun] = [runs EXCEPT ![r] = NoRun]
    BY <1>5, <2>10, <2>12 DEF Mine
  <2>17. ASSUME Pumped(st, se, cancels, cancelFailed, sessions)
         PROVE  UploadsInv'
    <3>1. Pumped(st, session', cancels, cancelFailed, sessions')
      BY <2>17, <2>6, <1>6
    <3>2. \A u \in Tasks : status[u] = "none" => st[u] = "none"
      BY <2>2, <2>5 DEF Shows
    <3> QED BY <3>1, <3>2, <2>2, <1>6, InvPumped
  <2>16. CASE runs[r].found = "completed" /\ succeeds(r)
    <3>1. sessions[runs[r].session].state = "completed"
      BY <2>16, <1>4, <1>5 DEF RunIsSound
    <3>2. st[t] # "removed" => se[t] # 0 /\ sessions[se[t]].state = "completed"
      BY <3>1, <2>5, <2>7, <1>7, UploadsAssumption
    <3>3. \A u \in Tasks : u # t => status[u] = st[u]
      BY <2>5 DEF Shows
    <3>4. Pumped(st, se, cancels, cancelFailed, sessions)
      BY <3>2, <3>3, <2>16, <1>2, <2>2, <2>3, <2>5, <2>13, <2>14, <2>15, SucceedsKeeps
    <3> QED BY <3>4, <2>17
  <2>18. CASE runs[r].found = "cancelled" /\ throws(r, st, FALSE)
    <3>1. Pumped(st, se, cancels, cancelFailed, sessions)
      BY <2>18, <1>2, <2>2, <2>5, <2>13, <2>14, <2>15, ThrowsKeeps
    <3> QED BY <3>1, <2>17
  <2>19. CASE runs[r].found = "open" /\ allSettled(r, part, st)
    <3>1. Grows(sessions, sessions)
      BY InvSays, GrowsToItself
    <3>2. Pumped(st, se, cancels, cancelFailed, sessions)
      BY <3>1, <2>19, <1>2, <1>5, <1>7, <2>2, <2>5, <2>10, <2>12, <2>13, <2>14, AllSettledKeeps
    <3> QED BY <3>2, <2>17
  <2> QED BY <1>4, <2>16, <2>18, <2>19
<1>9. CASE runs[r].epoch # epoch /\ r \notin Mine(runs, epoch)
  <2>1. st = status /\ session' = session /\ runs[r].pc \notin {"none", "waiting"}
    BY <1>3, <1>4, <1>9 DEF Current
  <2>2. CASE succeeds(r)
    <3>1. PICK st2 : end(r, st2)
      BY <2>2, Zenon DEF succeeds
    <3> QED BY <3>1, <2>1, <1>6, <1>9, EndsElsewhere
  <2>3. CASE throws(r, st, FALSE)
    BY <2>1, <2>3, <1>6, ThrowsKeepsInv
  <2>4. CASE allSettled(r, part, st)
    BY <2>1, <2>4, <1>6, <1>7, <1>9, AllSettledElsewhere
  <2> QED BY <1>4, <2>2, <2>3, <2>4
<1> QED BY <1>4, <1>8, <1>9, EveryRunIsHereOrNot

-----------------------------------------------------------------------------
(* What the user does.                                                        *)

\* What the page says of one task changes.
LEMMA GoodPage ==
  ASSUME NEW st, NEW se, NEW q, NEW n, NEW rs, NEW gq, NEW ep, NEW cs, NEW cf, NEW sv,
         Good(st, se, q, n, rs, gq, ep, cs, cf, sv), NEW t \in Tasks,
         NEW st2, st2 \in [Tasks -> Statuses], \A u \in Tasks : u # t => st2[u] = st[u],
         NEW se2, se2 \in [Tasks -> Sessions \cup {0}], \A u \in Tasks : u # t => se2[u] = se[u],
         st2[t] = "removed" \/ (st[t] # "removed" /\ se2[t] = se[t]),
         NEW cs2, \A c : c.task # t => (c \in cs2 <=> c \in cs),
         NEW cf2, \A u : u # t => (u \in cf2 <=> u \in cf),
         Attended(t, rs, ep, st2, q, cs2), t \notin cf2 => OneRun(t, rs, ep, st2, q),
         Remembered(t, st2, se2, cs2, cf2, sv)
  PROVE  Good(st2, se2, q, n, rs, gq, ep, cs2, cf2, sv)
<1>1. RunsAreSound(rs, ep, st2, se2, sv)
  <2>1. ASSUME NEW r \in Mine(rs, ep)
        PROVE  HasSession(rs[r], st2, se2)
    <3>1. HasSession(rs[r], st, se) /\ rs[r].task \in Tasks
      BY DEF Good, RunsAreSound, Mine, RunIsSound
    <3> QED BY <3>1 DEF HasSession
  <2> QED BY <2>1 DEF Good, RunsAreSound
<1>2. ASSUME NEW u \in Tasks, u # t
      PROVE  /\ Attended(u, rs, ep, st2, q, cs2)
             /\ u \notin cf2 => OneRun(u, rs, ep, st2, q)
             /\ Remembered(u, st2, se2, cs2, cf2, sv)
  <2>1. /\ Attended(u, rs, ep, st, q, cs)
        /\ u \notin cf => OneRun(u, rs, ep, st, q)
        /\ Remembered(u, st, se, cs, cf, sv)
    BY DEF Good
  <2>2. st2[u] = st[u] /\ se2[u] = se[u] /\ (u \in cf2 <=> u \in cf)
    BY <1>2
  <2>3. \A c : c.task = u => (c \in cs2 <=> c \in cs)
    BY <1>2
  <2>4. Attended(u, rs, ep, st2, q, cs2)
    BY <2>1, <2>2, <2>3 DEF Attended
  <2>5. u \notin cf2 => OneRun(u, rs, ep, st2, q)
    BY <2>1, <2>2, OneRunKeeps
  <2>6. Remembered(u, st2, se2, cs2, cf2, sv)
    BY <2>1, <2>2, <2>3 DEF Remembered
  <2> QED BY <2>4, <2>5, <2>6
<1>3. Typed(st2, se2, q, sv)
  BY DEF Good, Typed
<1> QED BY <1>1, <1>2, <1>3 DEF Good

\* The invariant after such a change.
LEMMA InvPage ==
  ASSUME UploadsInv,
         Good(status', session', queue, activeFiles, runs, gateQueue, epoch, cancels', cancelFailed', sessions),
         UNCHANGED <<enabled, epoch, plans, queue, activeFiles, runs, gateQueue, sessions>>,
         controller' \in [Tasks -> Runs \cup {0}], faults' \in 0..MaxFaults, cancels' \subseteq Cancels,
         \A u \in Tasks : status[u] = "none" => status'[u] = "none",
         enabled = FALSE => \A u \in Tasks : status'[u] \in {"none", "removed"}
  PROVE  UploadsInv'
<1>1. Good(status', session', queue', activeFiles', runs', gateQueue', epoch', cancels', cancelFailed', sessions')
  OBVIOUS
<1>2. PlansAreSound(plans', status', epoch')
  BY InvSays, PlansKept
<1>3. NothingWhileDisabled(enabled', runs', epoch', status')
  BY InvSays DEF NothingWhileDisabled
<1>4. EngineTypeOK' /\ QueueIsFull(queue', activeFiles')
  BY InvSays DEF EngineTypeOK
<1> QED BY <1>1, <1>2, <1>3, <1>4 DEF UploadsInv

\* What the invariant says of a task.
LEMMA TaskSays ==
  ASSUME UploadsInv, NEW t \in Tasks
  PROVE  /\ Attended(t, runs, epoch, status, queue, cancels)
         /\ t \notin cancelFailed => OneRun(t, runs, epoch, status, queue)
         /\ Remembered(t, status, session, cancels, cancelFailed, sessions)
  BY InvSays DEF Good

\* The user cancels a task that waits,
LEMMA CancelQueuedKeepsInv ==
  ASSUME UploadsInv, NEW t \in Tasks, cancelQueued(t)
  PROVE  UploadsInv'
<1>1. /\ enabled /\ status[t] = "queued" /\ status' = [status EXCEPT ![t] = "cancelled"]
      /\ UNCHANGED <<enabled, epoch, plans, session, queue, activeFiles, runs, gateQueue,
                     controller, cancels, sessions, faults, cancelFailed>>
  BY DEF cancelQueued
<1>2. PICK st2 : st2 = status'
  OBVIOUS
<1>3. /\ st2 \in [Tasks -> Statuses] /\ st2[t] = "cancelled"
      /\ \A u \in Tasks : u # t => st2[u] = status[u]
  BY <1>1, <1>2, InvSays DEF Statuses, Settled
<1>4. /\ Attended(t, runs, epoch, st2, queue, cancels)
      /\ t \notin cancelFailed => OneRun(t, runs, epoch, st2, queue)
      /\ Remembered(t, st2, session, cancels, cancelFailed, sessions)
  BY <1>1, <1>3, TaskSays DEF Attended, OneRun, Remembered
<1>5. Good(st2, session, queue, activeFiles, runs, gateQueue, epoch, cancels, cancelFailed, sessions)
  BY <1>1, <1>3, <1>4, InvSays, GoodPage
<1> QED BY <1>1, <1>2, <1>3, <1>5, InvSays, InvPage

\* removes one that is settled,
LEMMA RemoveKeepsInv ==
  ASSUME UploadsInv, NEW t \in Tasks, remove(t)
  PROVE  UploadsInv'
<1>1. /\ status[t] \in Settled \/ (status[t] = "error" /\ session[t] = 0)
      /\ status' = [status EXCEPT ![t] = "removed"] /\ session' = [session EXCEPT ![t] = 0]
      /\ UNCHANGED <<enabled, epoch, plans, queue, activeFiles, runs, gateQueue,
                     controller, cancels, sessions, faults, cancelFailed>>
  BY DEF remove
<1>2. PICK st2 : st2 = status'
  OBVIOUS
<1>3. PICK se2 : se2 = session'
  OBVIOUS
<1>4. /\ st2 \in [Tasks -> Statuses] /\ st2[t] = "removed"
      /\ \A u \in Tasks : u # t => st2[u] = status[u]
      /\ se2 \in [Tasks -> Sessions \cup {0}] /\ se2[t] = 0
      /\ \A u \in Tasks : u # t => se2[u] = session[u]
  BY <1>1, <1>2, <1>3, InvSays DEF Statuses
<1>5. /\ Attended(t, runs, epoch, st2, queue, cancels)
      /\ t \notin cancelFailed => OneRun(t, runs, epoch, st2, queue)
      /\ Remembered(t, st2, se2, cancels, cancelFailed, sessions)
  BY <1>4, TaskSays DEF Attended, OneRun, Remembered
<1>6. Good(st2, se2, queue, activeFiles, runs, gateQueue, epoch, cancels, cancelFailed, sessions)
  BY <1>4, <1>5, InvSays, GoodPage
<1>7. /\ \A u \in Tasks : status[u] = "none" => status'[u] = "none"
      /\ enabled = FALSE => \A u \in Tasks : status'[u] \in {"none", "removed"}
  <2>1. status[t] # "none"
    BY <1>1 DEF Settled
  <2> QED BY <2>1, <1>2, <1>4, InvSays DEF NothingWhileDisabled
<1>8. controller' \in [Tasks -> Runs \cup {0}] /\ faults' \in 0..MaxFaults /\ cancels' \subseteq Cancels
  BY <1>1, InvSays
<1> QED BY <1>1, <1>2, <1>3, <1>6, <1>7, <1>8, InvPage

\* Runs are aborted: nothing else of them changes.
LEMMA AbortedIs ==
  ASSUME NEW x, IsRun(x), NEW y, y = x \/ y = [x EXCEPT !.aborted = TRUE]
  PROVE  /\ IsRun(y) /\ y.task = x.task /\ y.epoch = x.epoch /\ y.resume = x.resume
         /\ y.pc = x.pc /\ y.session = x.session /\ y.found = x.found
<1>1. PICK v : v = TRUE
  OBVIOUS
<1>2. CASE y = x
  BY <1>2
<1>3. CASE y = [x EXCEPT !.aborted = v]
  BY <1>3, SetsAborted
<1> QED BY <1>1, <1>2, <1>3
\* Some runs have been aborted.
Aborts(rs, rs2) ==
  /\ rs2 = [r \in Runs |-> rs2[r]]
  /\ \A r \in Runs : rs2[r] = rs[r] \/ rs2[r] = [rs[r] EXCEPT !.aborted = TRUE]
\* An aborted run is still the run it was.
LEMMA AbortsKeepRun ==
  ASSUME NEW rs, NEW rs2, NEW ep, NEW st, NEW se, NEW sv, RunsAreSound(rs, ep, st, se, sv),
         Aborts(rs, rs2), NEW r \in Runs
  PROVE  /\ RunIsSound(rs2[r], ep, sv) /\ IsRun(rs2[r]) /\ rs2[r].task = rs[r].task
         /\ rs2[r].epoch = rs[r].epoch /\ rs2[r].pc = rs[r].pc
         /\ rs2[r].resume = rs[r].resume /\ rs2[r].session = rs[r].session
<1>1. RunIsSound(rs[r], ep, sv) /\ IsRun(rs[r])
  BY DEF RunsAreSound, RunIsSound
<1>2. /\ IsRun(rs2[r]) /\ rs2[r].task = rs[r].task /\ rs2[r].epoch = rs[r].epoch
      /\ rs2[r].resume = rs[r].resume /\ rs2[r].pc = rs[r].pc /\ rs2[r].session = rs[r].session
      /\ rs2[r].found = rs[r].found
  BY <1>1, AbortedIs DEF Aborts
<1> QED BY <1>1, <1>2 DEF RunIsSound
\* The runs stay sound, and those of an epoch the same.
LEMMA AbortsKeep ==
  ASSUME NEW rs, NEW rs2, NEW ep, NEW st, NEW se, NEW sv, RunsAreSound(rs, ep, st, se, sv),
         Aborts(rs, rs2)
  PROVE  /\ \A r \in Runs : rs2[r].pc = rs[r].pc
         /\ Mine(rs2, ep) = Mine(rs, ep)
         /\ RunsAreSound(rs2, ep, st, se, sv)
<1>1. \A r \in Runs : /\ RunIsSound(rs2[r], ep, sv) /\ IsRun(rs2[r]) /\ rs2[r].task = rs[r].task
                      /\ rs2[r].epoch = rs[r].epoch /\ rs2[r].pc = rs[r].pc
                      /\ rs2[r].resume = rs[r].resume /\ rs2[r].session = rs[r].session
  BY AbortsKeepRun
<1>2. Mine(rs2, ep) = Mine(rs, ep)
  BY <1>1 DEF Mine
<1>4. \A r \in Mine(rs2, ep) : HasSession(rs2[r], st, se)
  <2> TAKE r \in Mine(rs2, ep)
  <2>1. r \in Runs /\ HasSession(rs[r], st, se)
    BY <1>2 DEF Mine, RunsAreSound
  <2> QED BY <1>1, <2>1 DEF HasSession
<1> QED BY <1>1, <1>2, <1>4 DEF RunsAreSound, Aborts
\* So do the runs of a task.
LEMMA AbortsKeepMineOf ==
  ASSUME NEW rs, NEW rs2, NEW ep, NEW st, NEW se, NEW sv, RunsAreSound(rs, ep, st, se, sv),
         Aborts(rs, rs2), NEW t
  PROVE  MineOf(rs2, ep, t) = MineOf(rs, ep, t)
  BY AbortsKeepRun DEF MineOf, Mine
\* The gate's queue has an aborted run as before.
LEMMA GateKeepsAborts ==
  ASSUME NEW rs, NEW rs2, NEW gq, GateHas(gq, rs), \A r \in Runs : rs2[r].pc = rs[r].pc
  PROVE  GateHas(gq, rs2)
<1>1. \A i \in 1..Len(gq) : gq[i] \in Runs
  BY DEF GateHas
<1> QED BY <1>1 DEF GateHas
\* Aborting runs keeps the invariant: they end in their own time.
LEMMA GoodAborts ==
  ASSUME NEW st, NEW se, NEW q, NEW n, NEW rs, NEW gq, NEW ep, NEW cs, NEW cf, NEW sv,
         Good(st, se, q, n, rs, gq, ep, cs, cf, sv), NEW rs2, Aborts(rs, rs2)
  PROVE  Good(st, se, q, n, rs2, gq, ep, cs, cf, sv)
<1>1. RunsAreSound(rs, ep, st, se, sv) /\ GateHas(gq, rs) /\ UploadsCounted(rs, ep, n)
  BY DEF Good
<1>2. /\ \A r \in Runs : rs2[r].pc = rs[r].pc
      /\ Mine(rs2, ep) = Mine(rs, ep) /\ \A t : MineOf(rs2, ep, t) = MineOf(rs, ep, t)
      /\ RunsAreSound(rs2, ep, st, se, sv)
  <2>1. RunsAreSound(rs2, ep, st, se, sv)
    BY <1>1, AbortsKeep
  <2>2. Mine(rs2, ep) = Mine(rs, ep)
    BY <1>1, AbortsKeep
  <2>3. \A t : MineOf(rs2, ep, t) = MineOf(rs, ep, t)
    BY <1>1, AbortsKeepMineOf
  <2>4. \A r \in Runs : rs2[r].pc = rs[r].pc
    BY <1>1, AbortsKeepRun
  <2> QED BY <2>1, <2>2, <2>3, <2>4
<1>3. GateHas(gq, rs2) /\ UploadsCounted(rs2, ep, n)
  BY <1>1, <1>2, GateKeepsAborts, CountKeeps
<1>4. ASSUME NEW u \in Tasks
      PROVE  /\ Attended(u, rs2, ep, st, q, cs)
             /\ u \notin cf => OneRun(u, rs2, ep, st, q)
             /\ Remembered(u, st, se, cs, cf, sv)
  <2>1. /\ Attended(u, rs, ep, st, q, cs)
        /\ u \notin cf => OneRun(u, rs, ep, st, q)
        /\ Remembered(u, st, se, cs, cf, sv)
    BY DEF Good
  <2>2. \A s \in MineOf(rs, ep, u) : rs[s].pc = "waiting" => rs2[s].pc = "waiting"
    BY <1>2 DEF MineOf, Mine
  <2>3. Attended(u, rs2, ep, st, q, cs)
    BY <2>1, <2>2, <1>2, AttendedKeeps
  <2>4. u \notin cf => OneRun(u, rs2, ep, st, q)
    BY <2>1, <1>2, OneRunKeeps
  <2> QED BY <2>1, <2>3, <2>4
<1> QED BY <1>2, <1>3, <1>4 DEF Good

\* The user cancels a task with a session: its run is aborted, a DELETE sent.
LEMMA CancelKeepsInv ==
  ASSUME UploadsInv, NEW t \in Tasks, cancel(t)
  PROVE  UploadsInv'
<1>1. /\ enabled = TRUE /\ session[t] # 0 /\ status[t] \in {"preparing", "uploading", "error"}
      /\ status' = [status EXCEPT ![t] = "cancelling"]
      /\ runs' = [r \in Runs |->
                    IF r = controller[t] THEN [runs[r] EXCEPT !.aborted = TRUE] ELSE runs[r]]
      /\ cancels' = cancels \cup {[task |-> t, session |-> session[t], epoch |-> epoch]}
      /\ UNCHANGED <<enabled, epoch, plans, session, queue, activeFiles, gateQueue, controller,
                     sessions, faults, cancelFailed>>
  BY InvSays DEF cancel
<1>2. PICK st2 : st2 = status'
  OBVIOUS
<1>3. PICK rs2 : rs2 = runs'
  OBVIOUS
<1>4. PICK c : c = [task |-> t, session |-> session[t], epoch |-> epoch]
  OBVIOUS
<1>5. PICK cs2 : cs2 = cancels \cup {c}
  OBVIOUS
<1>6. c.task = t /\ c.epoch = epoch /\ c \in Cancels
  BY <1>1, <1>4, InvSays DEF Cancels
<1>7. /\ st2 \in [Tasks -> Statuses] /\ st2[t] = "cancelling"
      /\ \A u \in Tasks : u # t => st2[u] = status[u]
  BY <1>1, <1>2, InvSays DEF Statuses, Active
<1>8. Aborts(runs, rs2)
  BY <1>1, <1>3 DEF Aborts
<1>9. Good(status, session, queue, activeFiles, rs2, gateQueue, epoch, cancels, cancelFailed, sessions)
  BY <1>8, InvSays, GoodAborts
<1>10. /\ Attended(t, rs2, epoch, st2, queue, cs2)
       /\ t \notin cancelFailed => OneRun(t, rs2, epoch, st2, queue)
       /\ Remembered(t, st2, session, cs2, cancelFailed, sessions)
  <2>1. /\ t \notin cancelFailed => OneRun(t, rs2, epoch, status, queue)
        /\ Remembered(t, status, session, cancels, cancelFailed, sessions)
    BY <1>9 DEF Good
  <2>2. Attended(t, rs2, epoch, st2, queue, cs2)
    BY <1>5, <1>6, <1>7 DEF Attended
  <2>3. t \notin cancelFailed => OneRun(t, rs2, epoch, st2, queue)
    BY <2>1, <1>1, <1>7 DEF OneRun
  <2>4. Remembered(t, st2, session, cs2, cancelFailed, sessions)
    BY <2>1, <1>1, <1>7 DEF Remembered
  <2> QED BY <2>2, <2>3, <2>4
<1>11. Good(st2, session, queue, activeFiles, rs2, gateQueue, epoch, cs2, cancelFailed, sessions)
  <2>1. \A d : d.task # t => (d \in cs2 <=> d \in cancels)
    BY <1>5, <1>6
  <2>2. session \in [Tasks -> Sessions \cup {0}] /\ status[t] # "removed"
    BY <1>1, InvSays
  <2> QED BY <2>1, <2>2, <1>7, <1>9, <1>10, GoodPage
<1>12. Good(status', session', queue', activeFiles', runs', gateQueue', epoch', cancels', cancelFailed', sessions')
  BY <1>1, <1>2, <1>3, <1>4, <1>5, <1>11
<1>13. PlansAreSound(plans', status', epoch')
  <2>1. \A u \in Tasks : status[u] = "none" => status'[u] = "none"
    BY <1>1, <1>2, <1>7
  <2> QED BY <2>1, <1>1, InvSays, PlansKept
<1>14. NothingWhileDisabled(enabled', runs', epoch', status') /\ QueueIsFull(queue', activeFiles')
  BY <1>1, InvSays DEF NothingWhileDisabled
<1>15. EngineTypeOK'
  BY <1>1, <1>4, <1>6, InvSays DEF EngineTypeOK
<1> QED BY <1>12, <1>13, <1>14, <1>15 DEF UploadsInv

\* The server closes the session of a cancelled task.
LEMMA DeleteSessionKeepsInv ==
  ASSUME UploadsInv, NEW c, deleteSession(c)
  PROVE  UploadsInv'
<1>1. /\ c \in cancels /\ sessions[c.session].state = "open"
      /\ sessions' = [sessions EXCEPT ![c.session].state = "cancelled"]
      /\ UNCHANGED <<enabled, epoch, plans, session, pumpVars, cancels, faults, cancelFailed>>
  BY DEF deleteSession
<1>2. /\ UNCHANGED <<enabled, epoch, plans, session, cancels, faults, cancelFailed>>
      /\ UNCHANGED <<status, queue, activeFiles, runs, gateQueue, controller>>
  BY <1>1 DEF pumpVars
<1>3. PICK s \in Sessions : s = c.session
  BY <1>1, InvSays DEF Cancels
<1>4. Grows(sessions, sessions')
  BY <1>1, <1>3, InvSays, StateSet
<1>5. Good(status, session, queue, activeFiles, runs, gateQueue, epoch, cancels, cancelFailed, sessions')
  BY <1>4, InvSays, GoodWhenServed
<1>6. Good(status', session', queue', activeFiles', runs', gateQueue', epoch', cancels', cancelFailed', sessions')
  BY <1>2, <1>5
<1>7. /\ PlansAreSound(plans', status', epoch') /\ QueueIsFull(queue', activeFiles')
      /\ NothingWhileDisabled(enabled', runs', epoch', status')
  BY <1>2, InvSays
<1>8. EngineTypeOK'
  BY <1>2, InvSays DEF EngineTypeOK
<1> QED BY <1>6, <1>7, <1>8 DEF UploadsInv

\* A cancel comes back: the task is cancelled, or its cancel failed.
LEMMA CancelledKeepsInv ==
  ASSUME UploadsInv, NEW c, cancelled(c)
  PROVE  UploadsInv'
<1>1. PICK answer \in {"cancelled", "completed", "lost"} :
        /\ IF answer = "lost" THEN MayFail ELSE sessions[c.session].state = answer /\ UNCHANGED faults
        /\ status' = IF c.epoch # epoch THEN status
                     ELSE patchTask(c.task, IF answer = "cancelled" THEN "cancelled" ELSE "error")
        /\ cancelFailed' = IF answer = "cancelled" THEN cancelFailed ELSE cancelFailed \cup {c.task}
  BY DEF cancelled
<1>2. /\ c \in cancels /\ cancels' = cancels \ {c}
      /\ UNCHANGED <<enabled, epoch, plans, session, queue, activeFiles, runs, gateQueue, controller, sessions>>
  BY DEF cancelled
<1>3. PICK t \in Tasks : t = c.task
  BY <1>2, InvSays DEF Cancels
<1>4. PICK cf2 : cf2 = cancelFailed'
  OBVIOUS
<1>5. PICK st2 : st2 = status'
  OBVIOUS
<1>6. PICK cs2 : cs2 = cancels'
  OBVIOUS
<1>7. /\ Attended(t, runs, epoch, status, queue, cancels)
      /\ t \notin cancelFailed => OneRun(t, runs, epoch, status, queue)
      /\ Remembered(t, status, session, cancels, cancelFailed, sessions)
  BY TaskSays
<1>8. /\ st2 \in [Tasks -> Statuses] /\ \A u \in Tasks : u # t => st2[u] = status[u]
      /\ \/ st2[t] = status[t] /\ (c.epoch # epoch \/ status[t] = "removed")
         \/ status[t] # "removed" /\ st2[t] \in {"cancelled", "error"} /\ (st2[t] = "error" => t \in cf2)
  <2>1. PICK to \in {"cancelled", "error"} : to = IF answer = "cancelled" THEN "cancelled" ELSE "error"
    OBVIOUS
  <2>2. st2 = IF c.epoch # epoch THEN status ELSE patchTask(t, to)
    BY <2>1, <1>1, <1>3, <1>5
  <2>3. to = "error" => t \in cf2
    BY <2>1, <1>1, <1>3, <1>4
  <2>4. to \in Statuses
    BY DEF Statuses, Settled
  <2> QED BY <2>2, <2>3, <2>4, InvSays DEF patchTask
<1>9. /\ \A d : d.task # t => (d \in cs2 <=> d \in cancels)
      /\ \A d : d \in cs2 <=> d \in cancels /\ d # c
      /\ \A u : u # t => (u \in cf2 <=> u \in cancelFailed)
      /\ t \in cancelFailed => t \in cf2
  BY <1>1, <1>2, <1>3, <1>4, <1>6
<1>10. /\ Attended(t, runs, epoch, st2, queue, cs2)
       /\ t \notin cf2 => OneRun(t, runs, epoch, st2, queue)
       /\ Remembered(t, st2, session, cs2, cf2, sessions)
  <2>1. Attended(t, runs, epoch, st2, queue, cs2)
    <3>1. CASE st2[t] = status[t] /\ (c.epoch # epoch \/ status[t] = "removed")
      BY <3>1, <1>7, <1>9 DEF Attended
    <3>2. CASE st2[t] \in {"cancelled", "error"}
      BY <3>2 DEF Attended
    <3> QED BY <3>1, <3>2, <1>8
  <2>2. t \notin cf2 => OneRun(t, runs, epoch, st2, queue)
    BY <1>7, <1>8, <1>9 DEF OneRun
  <2>3. Remembered(t, st2, session, cs2, cf2, sessions)
    <3>1. session[t] = 0 => status[t] = "removed"
      BY <1>2, <1>3, <1>7 DEF Remembered
    <3>2. session[t] = 0 => st2[t] = "removed"
      BY <3>1, <1>8
    <3> QED BY <3>1, <3>2, <1>7, <1>8 DEF Remembered
  <2> QED BY <2>1, <2>2, <2>3
<1>11. Good(st2, session, queue, activeFiles, runs, gateQueue, epoch, cs2, cf2, sessions)
  <2>1. session \in [Tasks -> Sessions \cup {0}] /\ (st2[t] = "removed" \/ status[t] # "removed")
    BY <1>8, InvSays
  <2> QED BY <2>1, <1>8, <1>9, <1>10, InvSays, GoodPage
<1>12. \A u \in Tasks : status[u] = "none" => status'[u] = "none"
  <2>1. status[t] # "none"
    BY <1>2, <1>3, <1>7 DEF Remembered
  <2> QED BY <2>1, <1>5, <1>8
<1>13. enabled = FALSE => \A u \in Tasks : status'[u] \in {"none", "removed"}
  <2> SUFFICES ASSUME enabled = FALSE
               PROVE  \A u \in Tasks : status'[u] \in {"none", "removed"}
    OBVIOUS
  <2>1. \A u \in Tasks : status[u] \in {"none", "removed"}
    BY InvSays DEF NothingWhileDisabled
  <2>2. status[t] = "removed"
    BY <2>1, <1>2, <1>3, <1>7 DEF Remembered
  <2> QED BY <2>1, <2>2, <1>5, <1>8
<1>14. faults' \in 0..MaxFaults /\ cancels' \subseteq Cancels /\ controller' \in [Tasks -> Runs \cup {0}]
  <2>1. MayFail \/ UNCHANGED faults
    BY <1>1
  <2> QED BY <2>1, <1>2, FaultsStay, InvSays
<1> QED BY <1>2, <1>4, <1>5, <1>6, <1>11, <1>12, <1>13, <1>14, InvPage

\* A plan is made,
LEMMA AddFilesKeepsInv ==
  ASSUME UploadsInv, NEW t \in Tasks, addFiles(t)
  PROVE  UploadsInv'
<1>1. /\ enabled /\ status[t] = "none" /\ \A p \in plans : p.task # t
      /\ plans' = plans \cup {[task |-> t, epoch |-> epoch]}
      /\ UNCHANGED <<enabled, epoch, session, cancels, sessions, faults, cancelFailed>>
      /\ UNCHANGED <<status, queue, activeFiles, runs, gateQueue, controller>>
  BY DEF addFiles, pumpVars
<1>2. PICK p : p = [task |-> t, epoch |-> epoch]
  OBVIOUS
<1>3. p.task = t /\ p.epoch = epoch /\ p \in [task : Tasks, epoch : 0..MaxEpoch]
  BY <1>2, InvSays
<1>4. PlansAreSound(plans \cup {p}, status, epoch)
  BY <1>1, <1>3, InvSays DEF PlansAreSound
<1>5. PlansAreSound(plans', status', epoch')
  BY <1>1, <1>2, <1>4
<1>6. Good(status', session', queue', activeFiles', runs', gateQueue', epoch', cancels', cancelFailed', sessions')
  BY <1>1, InvSays
<1>7. QueueIsFull(queue', activeFiles') /\ NothingWhileDisabled(enabled', runs', epoch', status')
  BY <1>1, InvSays
<1>8. EngineTypeOK'
  BY <1>1, InvSays DEF EngineTypeOK
<1> QED BY <1>5, <1>6, <1>7, <1>8 DEF UploadsInv

\* or fails.
LEMMA PlanFailsKeepsInv ==
  ASSUME UploadsInv, NEW p, planFails(p)
  PROVE  UploadsInv'
<1>1. /\ plans' = plans \ {p} /\ MayFail
      /\ UNCHANGED <<enabled, epoch, session, cancels, sessions, cancelFailed>>
      /\ UNCHANGED <<status, queue, activeFiles, runs, gateQueue, controller>>
  BY DEF planFails, pumpVars
<1>2. PlansAreSound(plans \ {p}, status, epoch)
  BY InvSays, PlansKept
<1>3. PlansAreSound(plans', status', epoch')
  BY <1>1, <1>2
<1>6. Good(status', session', queue', activeFiles', runs', gateQueue', epoch', cancels', cancelFailed', sessions')
  BY <1>1, InvSays
<1>7. QueueIsFull(queue', activeFiles') /\ NothingWhileDisabled(enabled', runs', epoch', status')
  BY <1>1, InvSays
<1>8. EngineTypeOK'
  BY <1>1, InvSays, FaultsStay DEF EngineTypeOK
<1> QED BY <1>3, <1>6, <1>7, <1>8 DEF UploadsInv

\* The engine is enabled again: its epoch has no run and shows no task.
LEMMA ConfigureKeepsInv ==
  ASSUME UploadsInv, configure
  PROVE  UploadsInv'
<1>1. /\ enabled' = TRUE
      /\ UNCHANGED <<epoch, plans, session, cancels, sessions, faults, cancelFailed>>
      /\ UNCHANGED <<status, queue, activeFiles, runs, gateQueue, controller>>
  BY DEF configure, pumpVars
<1>6. Good(status', session', queue', activeFiles', runs', gateQueue', epoch', cancels', cancelFailed', sessions')
  BY <1>1, InvSays
<1>7. /\ QueueIsFull(queue', activeFiles') /\ NothingWhileDisabled(enabled', runs', epoch', status')
      /\ PlansAreSound(plans', status', epoch')
  BY <1>1, InvSays DEF NothingWhileDisabled
<1>8. EngineTypeOK'
  BY <1>1, InvSays DEF EngineTypeOK
<1> QED BY <1>6, <1>7, <1>8 DEF UploadsInv

\* A task comes last in the queue.
LEMMA GoodQueued ==
  ASSUME NEW st, NEW se, NEW q, NEW n, NEW rs, NEW gq, NEW ep, NEW cs, NEW cf, NEW sv,
         Good(st, se, q, n, rs, gq, ep, cs, cf, sv), NEW t \in Tasks, st[t] \in {"none", "error"},
         NEW st2, st2 = [st EXCEPT ![t] = "queued"], NEW q2, q2 = Append(q, t)
  PROVE  Good(st2, se, q2, n, rs, gq, ep, cs, cf, sv)
<1>1. /\ st \in [Tasks -> Statuses] /\ q \in Seq(Tasks) /\ Len(q) \in Nat
      /\ RunsAreSound(rs, ep, st, se, sv)
  BY DEF Good, Typed
<1>2. /\ st2 \in [Tasks -> Statuses] /\ st2[t] = "queued" /\ \A u \in Tasks : u # t => st2[u] = st[u]
  BY <1>1 DEF Statuses, Active
<1>3. /\ q2 \in Seq(Tasks) /\ Len(q2) = Len(q) + 1 /\ q2[Len(q) + 1] = t
      /\ \A i \in 1..Len(q) : q2[i] = q[i]
  BY <1>1
<1>4. \A i \in 1..Len(q2) : i = Len(q) + 1 \/ i \in 1..Len(q)
  BY <1>1, <1>3
<1>5. \A u : Listed(q2, u) <=> u = t \/ Listed(q, u)
  <2>1. Len(q) + 1 \in 1..Len(q2) /\ \A i \in 1..Len(q) : i \in 1..Len(q2)
    BY <1>1, <1>3
  <2> QED BY <2>1, <1>3, <1>4 DEF Listed
<1>6. RunsAreSound(rs, ep, st2, se, sv)
  <2>1. ASSUME NEW r \in Mine(rs, ep)
        PROVE  HasSession(rs[r], st2, se)
    <3>1. HasSession(rs[r], st, se) /\ rs[r].task \in Tasks
      BY <1>1 DEF RunsAreSound, Mine, RunIsSound
    <3> QED BY <3>1, <1>2 DEF HasSession
  <2> QED BY <2>1, <1>1 DEF RunsAreSound
<1>7. ASSUME NEW u \in Tasks
      PROVE  /\ Attended(u, rs, ep, st2, q2, cs)
             /\ u \notin cf => OneRun(u, rs, ep, st2, q2)
             /\ Remembered(u, st2, se, cs, cf, sv)
  <2>1. /\ Attended(u, rs, ep, st, q, cs)
        /\ u \notin cf => OneRun(u, rs, ep, st, q)
        /\ Remembered(u, st, se, cs, cf, sv)
    BY DEF Good
  <2>2. Attended(u, rs, ep, st2, q2, cs)
    BY <2>1, <1>2, <1>5 DEF Attended
  <2>3. ASSUME u \notin cf
        PROVE  OneRun(u, rs, ep, st2, q2)
    <3>1. OneRun(u, rs, ep, st, q)
      BY <2>1, <2>3
    <3>2. CASE u = t
      <4>1. ~Listed(q, t) /\ MineOf(rs, ep, t) = {}
        BY <3>1, <3>2 DEF OneRun
      <4>2. \A i \in 1..Len(q2) : q2[i] = t => i = Len(q) + 1
        BY <4>1, <1>3, <1>4 DEF Listed
      <4> QED BY <3>2, <4>1, <4>2, <1>2 DEF OneRun
    <3>3. CASE u # t
      <4>1. \A i \in 1..Len(q2) : q2[i] = u => i \in 1..Len(q) /\ q[i] = u
        BY <3>3, <1>3, <1>4
      <4>2. \A i, j \in 1..Len(q2) : q2[i] = u /\ q2[j] = u => i = j
        BY <4>1, <3>1 DEF OneRun
      <4>3. st2[u] = st[u] /\ (Listed(q2, u) <=> Listed(q, u))
        BY <3>3, <1>2, <1>5
      <4> QED BY <3>1, <4>2, <4>3 DEF OneRun
    <3> QED BY <3>2, <3>3
  <2>4. Remembered(u, st2, se, cs, cf, sv)
    BY <2>1, <1>2 DEF Remembered
  <2> QED BY <2>2, <2>3, <2>4
<1>8. Typed(st2, se, q2, sv)
  BY <1>2, <1>3 DEF Good, Typed
<1> QED BY <1>6, <1>7, <1>8 DEF Good

\* It is queued, and the pump goes on.
LEMMA QueuesKeep ==
  ASSUME UploadsInv, enabled = TRUE, NEW t \in Tasks, status[t] \in {"none", "error"},
         pump([status EXCEPT ![t] = "queued"], Append(queue, t), activeFiles, runs, controller)
  PROVE  /\ Good(status', session, queue', activeFiles', runs', gateQueue', epoch, cancels, cancelFailed, sessions)
         /\ QueueIsFull(queue', activeFiles') /\ controller' \in [Tasks -> Runs \cup {0}]
         /\ \A u \in Tasks : u # t /\ status[u] = "none" => status'[u] = "none"
<1>1. PICK st2 : st2 = [status EXCEPT ![t] = "queued"]
  OBVIOUS
<1>2. PICK q2 : q2 = Append(queue, t)
  OBVIOUS
<1>3. Good(st2, session, q2, activeFiles, runs, gateQueue, epoch, cancels, cancelFailed, sessions)
  BY <1>1, <1>2, InvSays, GoodQueued
<1>4. activeFiles < FileSlots => activeFiles = FileSlots - 1 \/ Len(q2) <= 1
  <2> SUFFICES ASSUME activeFiles < FileSlots
               PROVE  Len(q2) <= 1
    OBVIOUS
  <2>1. FileSlots \in Nat /\ activeFiles # FileSlots
    BY UploadsAssumption
  <2>2. queue = <<>>
    BY <2>1, InvSays DEF QueueIsFull
  <2> QED BY <2>2, <1>2
<1>5. pump(st2, q2, activeFiles, runs, controller)
  BY <1>1, <1>2
<1>6. epoch \in Nat /\ controller \in [Tasks -> Runs \cup {0}] /\ status \in [Tasks -> Statuses]
  BY InvSays
<1>7. Pumped(st2, session, cancels, cancelFailed, sessions)
  <2>1. \A u \in Tasks : Listed(q2, u) => session[u] = session[u]
    OBVIOUS
  <2> QED BY <2>1, <1>3, <1>4, <1>5, <1>6, PumpKeeps
<1>8. \A u \in Tasks : u # t /\ status[u] = "none" => st2[u] = "none"
  BY <1>1, <1>6
<1> QED BY <1>7, <1>8 DEF Pumped

\* A task that failed is queued again,
LEMMA RetryKeepsInv ==
  ASSUME UploadsInv, NEW t \in Tasks, retry(t)
  PROVE  UploadsInv'
<1>1. /\ enabled /\ status[t] = "error"
      /\ pump([status EXCEPT ![t] = "queued"], Append(queue, t), activeFiles, runs, controller)
      /\ UNCHANGED <<enabled, epoch, plans, session, cancels, sessions, faults, cancelFailed>>
  BY Zenon DEF retry
<1>2. enabled = TRUE
  BY <1>1, InvSays
<1>3. /\ Good(status', session, queue', activeFiles', runs', gateQueue', epoch, cancels, cancelFailed, sessions)
      /\ QueueIsFull(queue', activeFiles') /\ controller' \in [Tasks -> Runs \cup {0}]
      /\ \A u \in Tasks : u # t /\ status[u] = "none" => status'[u] = "none"
  BY <1>1, <1>2, QueuesKeep
<1>4. Good(status', session', queue', activeFiles', runs', gateQueue', epoch', cancels', cancelFailed', sessions')
  BY <1>1, <1>3
<1>5. PlansAreSound(plans', status', epoch')
  <2>1. \A u \in Tasks : status[u] = "none" => status'[u] = "none"
    BY <1>1, <1>3
  <2> QED BY <2>1, <1>1, InvSays, PlansKept
<1>6. NothingWhileDisabled(enabled', runs', epoch', status')
  BY <1>1, <1>2 DEF NothingWhileDisabled
<1>7. EngineTypeOK'
  BY <1>1, <1>3, InvSays DEF EngineTypeOK
<1> QED BY <1>3, <1>4, <1>5, <1>6, <1>7 DEF UploadsInv

\* and a planned one for the first time, if its file is not under way.
LEMMA PrepareFilesKeepsInv ==
  ASSUME UploadsInv, NEW p, prepareFiles(p)
  PROVE  UploadsInv'
<1> DEFINE known == {File[u] : u \in {v \in Tasks : status[v] \in Active \cup {"error"}}}
           queued == p.epoch = epoch /\ enabled /\ File[p.task] \notin known
<1>1. /\ p \in plans /\ plans' = plans \ {p}
      /\ IF queued
         THEN pump([status EXCEPT ![p.task] = "queued"], Append(queue, p.task), activeFiles, runs, controller)
         ELSE UNCHANGED pumpVars
      /\ UNCHANGED <<enabled, epoch, session, cancels, sessions, faults, cancelFailed>>
  BY Zenon DEF prepareFiles
<1>2. CASE queued
  <2>1. p.epoch = epoch /\ enabled = TRUE
    BY <1>2, InvSays
  <2>2. PICK t \in Tasks : t = p.task /\ status[t] = "none"
    BY <2>1, <1>1, InvSays DEF PlansAreSound
  <2>3. pump([status EXCEPT ![t] = "queued"], Append(queue, t), activeFiles, runs, controller)
    BY <2>2, <1>1, <1>2
  <2>4. /\ Good(status', session, queue', activeFiles', runs', gateQueue', epoch, cancels, cancelFailed, sessions)
        /\ QueueIsFull(queue', activeFiles') /\ controller' \in [Tasks -> Runs \cup {0}]
        /\ \A u \in Tasks : u # t /\ status[u] = "none" => status'[u] = "none"
    BY <2>1, <2>2, <2>3, QueuesKeep
  <2>5. Good(status', session', queue', activeFiles', runs', gateQueue', epoch', cancels', cancelFailed', sessions')
    BY <1>1, <2>4
  <2>6. PlansAreSound(plans', status', epoch')
    <3>1. \A x \in plans \ {p} : x \in plans /\ x.task # t /\ x.task \in Tasks
      BY <2>2, <1>1, InvSays DEF PlansAreSound
    <3>2. PlansAreSound(plans \ {p}, status', epoch)
      BY <3>1, <2>4, InvSays DEF PlansAreSound
    <3> QED BY <3>2, <1>1
  <2>7. NothingWhileDisabled(enabled', runs', epoch', status')
    BY <1>1, <2>1 DEF NothingWhileDisabled
  <2>8. EngineTypeOK'
    BY <1>1, <2>4, InvSays DEF EngineTypeOK
  <2> QED BY <2>4, <2>5, <2>6, <2>7, <2>8 DEF UploadsInv
<1>3. CASE ~queued
  <2>1. UNCHANGED <<status, queue, activeFiles, runs, gateQueue, controller>>
    BY <1>1, <1>3 DEF pumpVars
  <2>2. PlansAreSound(plans \ {p}, status, epoch)
    BY InvSays, PlansKept
  <2>3. PlansAreSound(plans', status', epoch')
    BY <1>1, <2>1, <2>2
  <2>4. Good(status', session', queue', activeFiles', runs', gateQueue', epoch', cancels', cancelFailed', sessions')
    BY <1>1, <2>1, InvSays
  <2>5. QueueIsFull(queue', activeFiles') /\ NothingWhileDisabled(enabled', runs', epoch', status')
    BY <1>1, <2>1, InvSays
  <2>6. EngineTypeOK'
    BY <1>1, <2>1, InvSays DEF EngineTypeOK
  <2> QED BY <2>3, <2>4, <2>5, <2>6 DEF UploadsInv
<1> QED BY <1>2, <1>3

\* A new epoch has no runs, and forgets what the tasks were.
LEMMA NoneOfTheNext ==
  ASSUME NEW rs, NEW ep, ep \in Nat, NEW st, NEW se, NEW sv, RunsAreSound(rs, ep, st, se, sv)
  PROVE  Mine(rs, ep + 1) = {}
<1> SUFFICES ASSUME NEW r \in Runs, rs[r].pc # "none", rs[r].epoch = ep + 1
             PROVE  FALSE
  BY DEF Mine
<1>1. rs[r].epoch \in 0..ep
  BY DEF RunsAreSound, RunIsSound
<1> QED BY <1>1
\* A run is as sound in the next epoch.
LEMMA SoundLater ==
  ASSUME NEW x, NEW ep, ep \in Nat, NEW sv, RunIsSound(x, ep, sv)
  PROVE  RunIsSound(x, ep + 1, sv)
<1>1. 0..ep \subseteq 0..(ep + 1)
  OBVIOUS
<1> QED BY <1>1, Zenon DEF RunIsSound
\* reset: the runs are aborted and left behind, the tasks removed.
LEMMA ResetKeepsInv ==
  ASSUME UploadsInv, reset
  PROVE  UploadsInv'
<1>1. /\ epoch < MaxEpoch /\ enabled' = FALSE /\ epoch' = epoch + 1
      /\ runs' = [r \in Runs |-> IF \E t \in Tasks : controller[t] = r
                                 THEN [runs[r] EXCEPT !.aborted = TRUE] ELSE runs[r]]
      /\ controller' = [t \in Tasks |-> 0]
      /\ queue' = <<>> /\ activeFiles' = 0
      /\ status' = [t \in Tasks |-> IF status[t] = "none" THEN "none" ELSE "removed"]
      /\ session' = [t \in Tasks |-> 0]
      /\ UNCHANGED <<plans, gateQueue, cancels, sessions, faults, cancelFailed>>
  BY Zenon DEF reset
<1>2. PICK rs2 : rs2 = runs'
  OBVIOUS
<1>3. PICK st2 : st2 = status'
  OBVIOUS
<1>4. PICK se2 : se2 = session'
  OBVIOUS
<1>5. PICK ep2 : ep2 = epoch + 1
  OBVIOUS
<1>6. ep2 \in 0..MaxEpoch /\ epoch \in Nat /\ ep2 \in Nat
  BY <1>1, <1>5, InvSays, UploadsAssumption
<1>7. Aborts(runs, rs2)
  BY <1>1, <1>2, Zenon DEF Aborts
<1>8. RunsAreSound(runs, epoch, status, session, sessions) /\ GateHas(gateQueue, runs)
  BY InvSays DEF Good
<1>9. RunsAreSound(rs2, epoch, status, session, sessions)
  BY <1>7, <1>8, AbortsKeep
<1>10. Mine(rs2, ep2) = {}
  BY <1>5, <1>6, <1>9, NoneOfTheNext
<1>11. GateHas(gateQueue, rs2)
  <2>1. \A r \in Runs : rs2[r].pc = runs[r].pc
    BY <1>7, <1>8, AbortsKeep
  <2> QED BY <2>1, <1>8, GateKeepsAborts
<1>12. RunsAreSound(rs2, ep2, st2, se2, sessions)
  <2>1. \A r \in Runs : RunIsSound(rs2[r], ep2, sessions)
    BY <1>5, <1>6, <1>9, SoundLater DEF RunsAreSound
  <2> QED BY <2>1, <1>10, <1>7 DEF RunsAreSound, Aborts
<1>13. UploadsCounted(rs2, ep2, 0)
  BY <1>10, FS_EmptySet, UploadsAssumption DEF UploadsCounted
<1>14. st2 \in [Tasks -> Statuses] /\ se2 \in [Tasks -> Sessions \cup {0}]
  BY <1>1, <1>3, <1>4 DEF Statuses
<1>15. Typed(st2, se2, <<>>, sessions)
  BY <1>14, InvSays DEF Typed
<1>16. ASSUME NEW t \in Tasks
       PROVE  /\ Attended(t, rs2, ep2, st2, <<>>, cancels)
              /\ t \notin cancelFailed => OneRun(t, rs2, ep2, st2, <<>>)
              /\ Remembered(t, st2, se2, cancels, cancelFailed, sessions)
  <2>1. /\ st2[t] = IF status[t] = "none" THEN "none" ELSE "removed"
        /\ se2[t] = 0
    BY <1>1, <1>3, <1>4
  <2>2. Remembered(t, status, session, cancels, cancelFailed, sessions)
    BY InvSays DEF Good
  <2>3. MineOf(rs2, ep2, t) = {}
    BY <1>10 DEF MineOf
  <2>4. Attended(t, rs2, ep2, st2, <<>>, cancels)
    BY <2>1 DEF Attended
  <2>5. OneRun(t, rs2, ep2, st2, <<>>)
    BY <2>1, <2>3 DEF OneRun, Listed
  <2>6. Remembered(t, st2, se2, cancels, cancelFailed, sessions)
    BY <2>1, <2>2 DEF Remembered
  <2> QED BY <2>4, <2>5, <2>6
<1>17. Good(st2, se2, <<>>, 0, rs2, gateQueue, ep2, cancels, cancelFailed, sessions)
  BY <1>11, <1>12, <1>13, <1>15, <1>16 DEF Good
<1>18. Good(status', session', queue', activeFiles', runs', gateQueue', epoch', cancels', cancelFailed', sessions')
  BY <1>1, <1>2, <1>3, <1>4, <1>5, <1>17
<1>19. PlansAreSound(plans', status', epoch')
  <2>1. PlansAreSound(plans, status, epoch)
    BY InvSays
  <2>2. \A p \in plans : p.epoch \in Nat /\ p.epoch <= epoch
    BY <2>1, UploadsAssumption DEF PlansAreSound
  <2>3. \A p \in plans : p.epoch <= ep2 /\ p.epoch # ep2
    BY <2>2, <1>5, <1>6
  <2>4. PlansAreSound(plans, st2, ep2)
    BY <2>1, <2>3 DEF PlansAreSound
  <2> QED BY <2>4, <1>1, <1>3, <1>5
<1>20. QueueIsFull(queue', activeFiles')
  BY <1>1 DEF QueueIsFull
<1>21. NothingWhileDisabled(enabled', runs', epoch', status')
  <2>1. \A t \in Tasks : st2[t] \in {"none", "removed"}
    BY <1>1, <1>3
  <2> QED BY <2>1, <1>1, <1>2, <1>3, <1>5, <1>10 DEF NothingWhileDisabled
<1>22. EngineTypeOK'
  BY <1>1, <1>5, <1>6, InvSays DEF EngineTypeOK
<1> QED BY <1>18, <1>19, <1>20, <1>21, <1>22 DEF UploadsInv

\* The invariant holds at first,
LEMMA InitInv ==
  ASSUME Init
  PROVE  UploadsInv
<1>1. /\ enabled = TRUE /\ epoch = 0 /\ plans = {}
      /\ status = [t \in Tasks |-> "none"] /\ session = [t \in Tasks |-> 0]
      /\ queue = <<>> /\ activeFiles = 0
      /\ runs = [r \in Runs |-> NoRun] /\ gateQueue = <<>>
      /\ controller = [t \in Tasks |-> 0] /\ cancels = {}
      /\ sessions = [s \in Sessions |-> [state |-> "none", parts |-> {}]]
      /\ faults = 0 /\ cancelFailed = {}
  BY Zenon DEF Init
<1>2. RunIsSound(NoRun, 0, sessions) /\ NoRun.pc = "none"
  BY NoRunIs, NoRunIsSound
<1>3. Mine(runs, 0) = {} /\ \A t : MineOf(runs, 0, t) = {}
  BY <1>1, <1>2 DEF Mine, MineOf
<1>4. RunsAreSound(runs, 0, status, session, sessions)
  BY <1>1, <1>2, <1>3 DEF RunsAreSound
<1>5. UploadsCounted(runs, 0, 0)
  BY <1>3, FS_EmptySet, UploadsAssumption DEF UploadsCounted
<1>6. GateHas(<<>>, runs)
  BY DEF GateHas
<1>7. Typed(status, session, <<>>, sessions)
  BY <1>1 DEF Typed, Statuses, ServerSessions
<1>8. ASSUME NEW t \in Tasks
      PROVE  /\ Attended(t, runs, 0, status, <<>>, {})
             /\ OneRun(t, runs, 0, status, <<>>)
             /\ Remembered(t, status, session, {}, {}, sessions)
  <2>1. status[t] = "none" /\ session[t] = 0
    BY <1>1
  <2> QED BY <2>1, <1>3 DEF Attended, OneRun, Listed, Remembered
<1>9. Good(status, session, queue, activeFiles, runs, gateQueue, epoch, cancels, cancelFailed, sessions)
  BY <1>1, <1>4, <1>5, <1>6, <1>7, <1>8 DEF Good
<1>10. QueueIsFull(queue, activeFiles) /\ PlansAreSound(plans, status, epoch)
  BY <1>1 DEF QueueIsFull, PlansAreSound
<1>11. NothingWhileDisabled(enabled, runs, epoch, status)
  BY <1>1 DEF NothingWhileDisabled
<1>12. EngineTypeOK
  BY <1>1, UploadsAssumption DEF EngineTypeOK
<1> QED BY <1>9, <1>10, <1>11, <1>12 DEF UploadsInv

\* while nothing happens,
LEMMA StutterKeepsInv ==
  ASSUME UploadsInv, UNCHANGED uploadVars
  PROVE  UploadsInv'
<1>1. /\ UNCHANGED <<enabled, epoch, plans, session, cancels, sessions, faults, cancelFailed>>
      /\ UNCHANGED <<status, queue, activeFiles, runs, gateQueue, controller>>
  BY DEF uploadVars, pumpVars
<1>2. Good(status', session', queue', activeFiles', runs', gateQueue', epoch', cancels', cancelFailed', sessions')
  BY <1>1, InvSays
<1>3. /\ QueueIsFull(queue', activeFiles') /\ NothingWhileDisabled(enabled', runs', epoch', status')
      /\ PlansAreSound(plans', status', epoch')
  BY <1>1, InvSays
<1>4. EngineTypeOK'
  BY <1>1, InvSays DEF EngineTypeOK
<1> QED BY <1>2, <1>3, <1>4 DEF UploadsInv

\* Every step of a run keeps the invariant,
LEMMA RunStepKeepsInv ==
  ASSUME UploadsInv, NEW r \in Runs, runStep(r)
  PROVE  UploadsInv'
<1>1. CASE start(r)
  BY <1>1, StartKeepsInv
<1>2. CASE openSession(r)
  BY <1>2, OpenSessionKeepsInv
<1>3. CASE openFails(r)
  BY <1>3, OpenFailsKeepsInv
<1>4. CASE onSession(r)
  BY <1>4, OnSessionKeepsInv
<1>5. CASE complete(r)
  BY <1>5, CompleteKeepsInv
<1>6. CASE completeFails(r)
  BY <1>6, CompleteFailsKeepsInv
<1>7. CASE \E p \in Parts : sendPart(r, p) \/ putPart(r, p) \/ partFails(r, p)
  BY <1>7, SendPartKeepsInv, PutPartKeepsInv, PartFailsKeepsInv
<1> QED BY <1>1, <1>2, <1>3, <1>4, <1>5, <1>6, <1>7 DEF runStep
\* and so does every step.
LEMMA NextKeepsInv ==
  ASSUME UploadsInv, [Next]_uploadVars
  PROVE  UploadsInv'
<1>1. ASSUME NEW t \in Tasks, addFiles(t)
      PROVE  UploadsInv'
  BY <1>1, AddFilesKeepsInv
<1>2. ASSUME NEW t \in Tasks, planStep(t)
      PROVE  UploadsInv'
  BY <1>2, PrepareFilesKeepsInv, PlanFailsKeepsInv DEF planStep
<1>3. ASSUME NEW t \in Tasks, retry(t)
      PROVE  UploadsInv'
  BY <1>3, RetryKeepsInv
<1>4. ASSUME NEW t \in Tasks, cancelQueued(t)
      PROVE  UploadsInv'
  BY <1>4, CancelQueuedKeepsInv
<1>5. ASSUME NEW t \in Tasks, cancel(t)
      PROVE  UploadsInv'
  BY <1>5, CancelKeepsInv
<1>6. ASSUME NEW t \in Tasks, remove(t)
      PROVE  UploadsInv'
  BY <1>6, RemoveKeepsInv
<1>7. ASSUME NEW t \in Tasks, cancelStep(t)
      PROVE  UploadsInv'
  BY <1>7, DeleteSessionKeepsInv, CancelledKeepsInv DEF cancelStep
<1>8. ASSUME NEW r \in Runs, runStep(r)
      PROVE  UploadsInv'
  BY <1>8, RunStepKeepsInv
<1>9. CASE reset
  BY <1>9, ResetKeepsInv
<1>10. CASE configure
  BY <1>10, ConfigureKeepsInv
<1>11. CASE UNCHANGED uploadVars
  BY <1>11, StutterKeepsInv
<1> QED BY <1>1, <1>2, <1>3, <1>4, <1>5, <1>6, <1>7, <1>8, <1>9, <1>10, <1>11 DEF Next

\* A set without two different elements.
LEMMA AtMostOne ==
  ASSUME NEW S, \A r, s \in S : r = s
  PROVE  Cardinality(S) <= 1
<1>1. CASE S = {}
  BY <1>1, FS_EmptySet
<1>2. CASE S # {}
  <2>1. PICK r \in S : S = {r}
    BY <1>2
  <2> QED BY <2>1, FS_Singleton
<1> QED BY <1>1, <1>2
\* The invariant says of every task what TasksAreTrue does.
LEMMA InvImpliesTasksAreTrue ==
  ASSUME UploadsInv
  PROVE  TasksAreTrue
<1>1. /\ Typed(status, session, queue, sessions) /\ GateHas(gateQueue, runs)
      /\ UploadsCounted(runs, epoch, activeFiles)
      /\ \A t \in Tasks : /\ Attended(t, runs, epoch, status, queue, cancels)
                          /\ t \notin cancelFailed => OneRun(t, runs, epoch, status, queue)
                          /\ Remembered(t, status, session, cancels, cancelFailed, sessions)
  BY InvSays DEF Good
<1>2. /\ {r \in AliveRuns(runs) : Current(r)} = Mine(runs, epoch)
      /\ \A t : RunsOf(t) = MineOf(runs, epoch, t)
  BY DEF AliveRuns, Current, Mine, MineOf, RunsOf
<1>3. activeFiles = Cardinality({r \in AliveRuns(runs) : Current(r)}) /\ activeFiles \in 0..FileSlots
  <2>1. IsFiniteSet(Mine(runs, epoch)) /\ activeFiles = Cardinality(Mine(runs, epoch))
        /\ activeFiles <= FileSlots
    BY <1>1 DEF UploadsCounted
  <2>2. activeFiles \in Nat
    BY <2>1, FS_CardinalityType
  <2> QED BY <1>2, <2>1, <2>2, UploadsAssumption
<1>4. TypeOK
  <2>1. plans \subseteq [task : Tasks, epoch : 0..MaxEpoch]
    BY InvSays DEF PlansAreSound
  <2> QED BY <1>1, <1>3, <2>1, InvSays DEF TypeOK, Typed, GateHas, Cancels
<1>5. ASSUME NEW t \in Tasks
      PROVE  /\ status[t] = "queued" => \/ InQueue(t) /\ activeFiles = FileSlots
                                        \/ \E r \in RunsOf(t) : runs[r].pc = "waiting"
             /\ status[t] \in {"preparing", "uploading", "finalizing"} => RunsOf(t) # {}
             /\ status[t] = "cancelling" =>
                  RunsOf(t) # {} \/ \E c \in cancels : c.task = t /\ c.epoch = epoch
             /\ t \notin cancelFailed => Cardinality(RunsOf(t)) <= 1
             /\ status[t] = "completed" => session[t] # 0 /\ sessions[session[t]].state = "completed"
  <2>1. DOMAIN queue = 1..Len(queue) /\ (queue = <<>> => Len(queue) = 0)
    BY InvSays
  <2>2. Listed(queue, t) => InQueue(t) /\ activeFiles = FileSlots
    BY <2>1, InvSays DEF Listed, InQueue, QueueIsFull
  <2>3. t \notin cancelFailed => Cardinality(RunsOf(t)) <= 1
    BY <1>1, <1>2, AtMostOne DEF OneRun
  <2>4. /\ status[t] = "queued" => \/ InQueue(t) /\ activeFiles = FileSlots
                                   \/ \E r \in RunsOf(t) : runs[r].pc = "waiting"
        /\ status[t] \in {"preparing", "uploading", "finalizing"} => RunsOf(t) # {}
        /\ status[t] = "cancelling" =>
             RunsOf(t) # {} \/ \E c \in cancels : c.task = t /\ c.epoch = epoch
    BY <1>1, <1>2, <2>2 DEF Attended
  <2>5. status[t] = "completed" => session[t] # 0 /\ sessions[session[t]].state = "completed"
    BY <1>1 DEF Remembered
  <2> QED BY <2>3, <2>4, <2>5
<1>6. ActiveIsAttended
  BY <1>3, <1>4, <1>5 DEF ActiveIsAttended
<1>7. CompletedIsStored
  BY <1>5 DEF CompletedIsStored
<1> QED BY <1>6, <1>7 DEF TasksAreTrue

\* Whatever the upload engine shows of a task is so, for every number of tasks,
\* runs and slots: an active task has its place in a full queue, a run or a
\* DELETE, the engine counts exactly the runs of its epoch, a task no cancel of
\* which failed is uploaded by one run, and a completed one is stored
\* (web/src/lib/uploads: pump, execute, cancel, retry, reset).
THEOREM TasksAreAlwaysTrue == Spec => []TasksAreTrue
<1>1. Init => UploadsInv
  BY InitInv
<1>2. UploadsInv /\ [Next]_uploadVars => UploadsInv'
  BY NextKeepsInv
<1>3. UploadsInv => TasksAreTrue
  BY InvImpliesTasksAreTrue
<1> QED BY <1>1, <1>2, <1>3, PTL DEF Spec

-------------------------------------------------------------------------------
(* ResourceViews.                                                             *)

LiveReads ==
  [kind : {"rows", "page", "call"}, key : Keys, has : SUBSET Changes, at : {"sent", "done", "failed"},
   wanted : BOOLEAN]
LiveChanges == [kind : {"patch", "reload"}, key : Keys, at : {"sent", "done", "failed", "over"}]
ShownPages == [key : Keys, has : SUBSET Changes]

ViewsTypeOK ==
  /\ view \in Views /\ key \in view.keys
  /\ rows \in Seq(ShownPages)
  /\ loading \in BOOLEAN /\ failed \in BOOLEAN /\ excused \in BOOLEAN
  /\ reads \in [Reads -> {NoRead} \cup LiveReads]
  /\ changes \in [Changes -> {NoChange} \cup LiveChanges]
  /\ stored \in [Keys -> SUBSET Changes]

\* What the records of the views have in common.  Reloading views read again
\* after every change, Queued ones after one change at a time; Patched ones never
\* read again, Pinned ones only when they are opened.
Queued(v) ==
  /\ v.late = "shown" /\ v.hides /\ v.serial /\ ~v.early /\ v.keys = {1}
  /\ v.again = "never" /\ v.more = "none" /\ ~v.calls
Reloading(v) ==
  /\ v.edits = {"reload"} /\ ~v.calls /\ ~v.keeps /\ v.moves # "with" /\ Closed \notin v.keys
  /\ v.late = "discarded" \/ Queued(v)
Pinned(v) ==
  /\ v.edits = {"patch"} /\ ~v.calls /\ ~v.keeps /\ v.moves # "with" /\ v.keys = {Closed, 1}
  /\ v.late = "discarded" /\ v.hides /\ v.locks /\ ~v.early /\ v.again = "never" /\ v.more = "none"
Tracked(v) == Reloading(v) \/ Pinned(v)
Patched(v) ==
  v.edits = {"patch"} /\ v.keys = {1} /\ v.again = "never" /\ ~v.calls /\ ~v.keeps
Exact(v) == v.late = "discarded" /\ v.more # "any" /\ ~v.calls
ViewIsSound(v) ==
  /\ v.keys \subseteq {Closed, 1, 2} /\ 1 \in v.keys
  /\ v.late \in {"shown", "discarded", "refused"} /\ v.more \in {"none", "any", "read"}
  /\ v.edits \subseteq {"patch", "reload"}
  /\ v.keeps => v.edits = {} /\ v.more = "none" /\ ~v.calls /\ 2 \notin v.keys /\ v.late # "shown"
                /\ v.moves # "with" /\ ~v.hides /\ v.again # "always"
  /\ v.late = "refused" => ~v.hides /\ (Closed \in v.keys => v.keeps)
  /\ v.moves = "with" => v.late = "refused" /\ Closed \notin v.keys /\ ~v.hides /\ (v.calls => v.more = "none")
  /\ v.name \notin Mixed => 2 \notin v.keys \/ v.moves = "with" \/ Exact(v)
  /\ v.name \notin Outdated => v.edits = {} \/ Patched(v) \/ Tracked(v)
  /\ "reload" \in v.edits => Closed \notin v.keys

\* A read that will put rows in place of those shown.
WantsRows(r) == reads[r].wanted /\ reads[r].kind = "rows"
RowsComing == \E r \in Reads : WantsRows(r)
Underway(c) == changes[c].at \in {"sent", "done", "failed"}

\* Reads, rows and changes are of what the view can show.
AllFits ==
  /\ \A i \in 1..Len(rows) : rows[i].key \in view.keys /\ rows[i].has \subseteq stored[rows[i].key]
  /\ \A r \in Reads : reads[r] # NoRead =>
       /\ reads[r].key \in view.keys /\ reads[r].has \subseteq stored[reads[r].key]
       /\ reads[r].kind = "page" => view.more # "none"
       /\ reads[r].kind = "call" => view.calls
  /\ \A c \in Changes : changes[c] # NoChange => changes[c].key \in view.keys /\ changes[c].kind \in view.edits
  /\ \A k \in Keys : \A c \in stored[k] : changes[c] # NoChange /\ changes[c].key = k /\ changes[c].at # "sent"
  /\ \A c \in Changes : changes[c].at = "done" => c \in stored[changes[c].key]
  /\ view.serial => \A c, d \in Changes : Underway(c) /\ Underway(d) => c = d

\* A view that says it is loading has a read that ends it.
LoadingEnds ==
  loading /\ (key # Closed \/ view.late = "refused") =>
    RowsComing \/ (view.late = "refused" /\ \E r \in Reads : reads[r].wanted /\ reads[r].kind = "page")

\* Rows that are hidden come, or the view says why not.
RowsAppear ==
  /\ key # Closed /\ rows = <<>> => failed \/ RowsComing
  /\ Closed \notin view.keys /\ ~view.hides => rows # <<>>

\* What is read once is read by one read at a time.
KeptOnce ==
  view.keeps =>
    /\ \A r \in Reads : reads[r].wanted =>
         /\ reads[r].kind = "rows" /\ ~failed /\ rows = <<>> /\ (view.late = "refused" => loading)
         /\ \A q \in Reads : reads[q].wanted => q = r
    /\ rows # <<>> => ~loading /\ ~failed
OneByOne ==
  view.late = "refused" /\ ~view.calls =>
    \A r \in Reads : reads[r].wanted =>
      loading /\ \A q \in Reads : reads[q].wanted => q = r

\* The keys of the rows and of the reads.
KeysAgree ==
  /\ view.moves = "with" =>
       /\ \A i \in 1..Len(rows) : rows[i].key = key
       /\ \A r \in Reads : reads[r].wanted /\ reads[r].kind = "page" => reads[r].key = key
  /\ Exact(view) =>
       /\ \A r \in Reads : reads[r].wanted => reads[r].key = key
       /\ key # Closed => failed \/ RowsComing \/ \A i \in 1..Len(rows) : rows[i].key = key

\* The changes in the rows and in the reads.
PatchesAreShown ==
  Patched(view) =>
    /\ \A r \in Reads : reads[r].kind \in {"none", "page"}
    /\ rows # <<>>
    /\ \A c \in stored[1] : changes[c].at \in {"done", "failed"} \/ excused \/ c \in rows[1].has
ReloadsAreShown ==
  Tracked(view) =>
    /\ Pinned(view) => \A c \in Changes : Underway(c) => key # Closed
    /\ Queued(view) \/ Pinned(view) => \A r \in Reads : reads[r].wanted =>
         /\ loading /\ \A q \in Reads : reads[q].wanted => q = r
         /\ \A c \in Changes : ~Underway(c)
    /\ \A r \in Reads : WantsRows(r) /\ reads[r].at = "done" /\ ~excused =>
         \A c \in stored[reads[r].key] : changes[c].at = "over" => c \in reads[r].has
    /\ ~excused /\ ~failed /\ ~RowsComing /\ rows # <<>> /\ rows[1].key = key =>
         \A c \in stored[key] : changes[c].at = "over" => c \in rows[1].has

ViewsInv ==
  /\ ViewsTypeOK /\ AllFits /\ LoadingEnds /\ RowsAppear /\ KeptOnce /\ OneByOne /\ KeysAgree
  /\ PatchesAreShown /\ ReloadsAreShown
-----------------------------------------------------------------------------
(* The views.                                                                  *)

\* The records fit together: what the invariant needs of each is checked here.
LEMMA ViewsAreSound == \A v \in Views : ViewIsSound(v)
<1> USE DEF ViewIsSound, Queued, Reloading, Pinned, Tracked, Patched, Exact, Mixed, Outdated, Closed, Keys
<1>1. ViewIsSound(WorkspaceSwitcher)
  BY DEF WorkspaceSwitcher, Again, Dialog, Discarded, Shown
<1>2. ViewIsSound(AdminUserPicker)
  BY DEF AdminUserPicker, WorkspaceSwitcher, Again, Dialog, Discarded, Shown
<1>3. ViewIsSound(CommandPalette)
  BY DEF CommandPalette, Dialog, Discarded, Shown
<1>4. ViewIsSound(AddCollectionItemDialog)
  BY DEF AddCollectionItemDialog, CommandPalette, Dialog, Discarded, Shown
<1>5. ViewIsSound(AccessDialog)
  BY DEF AccessDialog, Edited, Dialog, Discarded, Shown
<1>6. ViewIsSound(PublicShareDialog)
  BY DEF PublicShareDialog, Edited, Dialog, Discarded, Shown
<1>7. ViewIsSound(CollectionDetail)
  BY DEF CollectionDetail, Edited, Shown
<1>8. ViewIsSound(AdminView)
  BY DEF AdminView, Edited, Filtered, Shown
<1>9. ViewIsSound(StorageOverview)
  BY DEF StorageOverview, Edited, Shown
<1>10. ViewIsSound(BotRuntime)
  BY DEF BotRuntime, Again, Edited, Discarded, Shown
<1>11. ViewIsSound(AuditDiagnostics)
  BY DEF AuditDiagnostics, Filtered, Shown
<1>12. ViewIsSound(JobDiagnostics)
  BY DEF JobDiagnostics, Filtered, Shown
<1>13. ViewIsSound(UploadDiagnostics)
  BY DEF UploadDiagnostics, Filtered, Shown
<1>14. ViewIsSound(MoveTargets)
  BY DEF MoveTargets, Again, Filtered, Shown
<1>15. ViewIsSound(SearchResults)
  BY DEF SearchResults, Again, Discarded, Shown
<1>16. ViewIsSound(FavoritesView)
  BY DEF FavoritesView, Edited, SearchResults, Again, Discarded, Shown
<1>17. ViewIsSound(ActivityView)
  BY DEF ActivityView, SearchResults, Again, Discarded, Shown
<1>18. ViewIsSound(StorageView)
  BY DEF StorageView, Again, Discarded, Shown
<1>19. ViewIsSound(TrashView)
  BY DEF TrashView, Paged, Edited, Shown
<1>20. ViewIsSound(VersionHistory)
  BY DEF VersionHistory, Edited, Discarded, Shown
<1>21. ViewIsSound(FilesPage)
  BY DEF FilesPage, Paged, Again, Edited, Discarded, Shown
<1>22. ViewIsSound(CollectionPage)
  BY DEF CollectionPage, Edited, Discarded, Shown
<1>23. ViewIsSound(SearchPage)
  BY DEF SearchPage, Paged, Again, Discarded, Shown
<1>24. ViewIsSound(FavoritesPage)
  BY DEF FavoritesPage, Edited, SearchPage, Paged, Again, Discarded, Shown
<1>25. ViewIsSound(CollectionsPage)
  BY DEF CollectionsPage, SearchPage, Paged, Again, Discarded, Shown
<1>26. ViewIsSound(TrashPage)
  BY DEF TrashPage, Paged, Edited, Discarded, Shown
<1>27. ViewIsSound(DesktopAccessDialog)
  BY DEF DesktopAccessDialog, AccessDialog, Edited, Dialog, Discarded, Shown
<1>28. ViewIsSound(DesktopPublicShareDialog)
  BY DEF DesktopPublicShareDialog, PublicShareDialog, Edited, Dialog, Discarded, Shown
<1>29. ViewIsSound(DesktopCommandPalette)
  BY DEF DesktopCommandPalette, CommandPalette, Dialog, Discarded, Shown
<1>30. ViewIsSound(DesktopWorkspaceSwitcher)
  BY DEF DesktopWorkspaceSwitcher, WorkspaceSwitcher, Again, Dialog, Discarded, Shown
<1>31. ViewIsSound(DesktopAdminPage)
  BY DEF DesktopAdminPage, AdminView, Edited, Filtered, Shown
<1>32. ViewIsSound(DesktopBotsPage)
  BY DEF DesktopBotsPage, Again, Edited, Shown
<1>33. ViewIsSound(DesktopDiagnostics)
  BY DEF DesktopDiagnostics, Filtered, Shown
<1>34. ViewIsSound(DesktopMoveTargets)
  BY DEF DesktopMoveTargets, MoveTargets, Again, Filtered, Shown
<1>35. ViewIsSound(FileVersions)
  BY DEF FileVersions, Edited, Shown
<1>36. ViewIsSound(DesktopFilePage)
  BY DEF DesktopFilePage, Again, Discarded, Shown
<1>37. ViewIsSound(DesktopCollectionFilePage)
  BY DEF DesktopCollectionFilePage, Discarded, Shown
<1> HIDE DEF ViewIsSound, Queued, Reloading, Pinned, Tracked, Patched, Exact, Mixed, Outdated, Closed, Keys
<1> QED
  BY <1>1, <1>2, <1>3, <1>4, <1>5, <1>6, <1>7, <1>8, <1>9, <1>10, <1>11, <1>12, <1>13,
     <1>14, <1>15, <1>16, <1>17, <1>18, <1>19, <1>20, <1>21, <1>22, <1>23, <1>24, <1>25,
     <1>26, <1>27, <1>28, <1>29, <1>30, <1>31, <1>32, <1>33, <1>34, <1>35, <1>36, <1>37 DEF Views
-----------------------------------------------------------------------------
(* Reads and changes.                                                          *)

\* A read, or the place of one.
LEMMA ReadIs ==
  ASSUME NEW x \in {NoRead} \cup LiveReads
  PROVE  /\ x = NoRead => x.kind = "none" /\ x.at = "none" /\ x.wanted = FALSE
         /\ x # NoRead => x \in LiveReads
         /\ x \in LiveReads => /\ x # NoRead /\ x.kind \in {"rows", "page", "call"} /\ x.key \in Keys
                               /\ x.has \in SUBSET Changes /\ x.at \in {"sent", "done", "failed"}
         /\ x.wanted \in BOOLEAN
<1>1. x = NoRead => x.kind = "none" /\ x.at = "none" /\ x.wanted = FALSE
  BY DEF NoRead
<1>2. ASSUME x \in LiveReads
      PROVE  /\ x # NoRead /\ x.kind \in {"rows", "page", "call"} /\ x.key \in Keys
             /\ x.has \in SUBSET Changes /\ x.at \in {"sent", "done", "failed"} /\ x.wanted \in BOOLEAN
  BY <1>1, <1>2 DEF LiveReads
<1> QED BY <1>1, <1>2

\* A change, or the place of one.
LEMMA ChangeIs ==
  ASSUME NEW x \in {NoChange} \cup LiveChanges
  PROVE  /\ x = NoChange => x.kind = "none" /\ x.at = "none"
         /\ x # NoChange => x \in LiveChanges
         /\ x \in LiveChanges => /\ x # NoChange /\ x.kind \in {"patch", "reload"} /\ x.key \in Keys
                                 /\ x.at \in {"sent", "done", "failed", "over"}
<1>1. x = NoChange => x.kind = "none" /\ x.at = "none"
  BY DEF NoChange
<1>2. ASSUME x \in LiveChanges
      PROVE  /\ x # NoChange /\ x.kind \in {"patch", "reload"} /\ x.key \in Keys
             /\ x.at \in {"sent", "done", "failed", "over"}
  BY <1>1, <1>2 DEF LiveChanges
<1> QED BY <1>1, <1>2

\* A read that may have been overtaken meanwhile.
Same(x, y) ==
  /\ x = NoRead <=> y = NoRead
  /\ x.kind = y.kind /\ x.key = y.key /\ x.has = y.has /\ x.at = y.at
Discards(x) == view.late = "discarded" /\ (x.kind = "rows" \/ (x.kind = "page" /\ view.more = "read"))

\* A read whose rows are not wanted any more is a read all the same.
LEMMA UnwantedIs ==
  ASSUME NEW x \in LiveReads, NEW w \in BOOLEAN
  PROVE  /\ [x EXCEPT !.wanted = w] \in LiveReads
         /\ [x EXCEPT !.wanted = w].kind = x.kind /\ [x EXCEPT !.wanted = w].key = x.key
         /\ [x EXCEPT !.wanted = w].has = x.has /\ [x EXCEPT !.wanted = w].at = x.at
         /\ [x EXCEPT !.wanted = w].wanted = w
BY DEF LiveReads

\* The reads another one overtakes are not wanted any more.
LEMMA OvertakenIs ==
  ASSUME reads \in [Reads -> {NoRead} \cup LiveReads]
  PROVE  /\ Overtaken \in [Reads -> {NoRead} \cup LiveReads]
         /\ \A q \in Reads : /\ Same(Overtaken[q], reads[q])
                             /\ Overtaken[q].wanted => reads[q].wanted /\ ~Discards(reads[q])
         /\ view.late # "discarded" => Overtaken = reads
<1>1. CASE view.late # "discarded"
  <2>1. Overtaken = reads
    BY <1>1 DEF Overtaken
  <2>2. \A q \in Reads : ~Discards(reads[q])
    BY <1>1 DEF Discards
  <2> QED BY <2>1, <2>2, <1>1 DEF Same
<1>2. CASE view.late = "discarded"
  <2>1. Overtaken = [r \in Reads |-> IF Discards(reads[r]) THEN [reads[r] EXCEPT !.wanted = FALSE] ELSE reads[r]]
    BY <1>2 DEF Overtaken, Discards
  <2>2. ASSUME NEW q \in Reads
        PROVE  /\ Overtaken[q] \in {NoRead} \cup LiveReads
               /\ Same(Overtaken[q], reads[q])
               /\ Overtaken[q].wanted => reads[q].wanted /\ ~Discards(reads[q])
    <3>1. CASE ~Discards(reads[q])
      <4>1. Overtaken[q] = reads[q]
        BY <2>1, <3>1
      <4> QED BY <4>1, <3>1 DEF Same
    <3>2. CASE Discards(reads[q])
      <4>1. reads[q] # NoRead
        BY <3>2 DEF Discards, NoRead
      <4>2. reads[q] \in LiveReads
        BY <4>1, ReadIs
      <4>3. PICK x : x = reads[q]
        OBVIOUS
      <4>4. PICK w \in BOOLEAN : ~w
        OBVIOUS
      <4>5. w = FALSE
        BY <4>4
      <4>6. Overtaken[q] = [x EXCEPT !.wanted = w]
        BY <2>1, <3>2, <4>3, <4>5
      <4>7. /\ Overtaken[q] \in LiveReads /\ Overtaken[q].kind = x.kind /\ Overtaken[q].key = x.key
            /\ Overtaken[q].has = x.has /\ Overtaken[q].at = x.at /\ Overtaken[q].wanted = w
        BY <4>2, <4>3, <4>6, UnwantedIs
      <4>8. Overtaken[q] # NoRead
        BY <4>7, ReadIs
      <4>9. Same(Overtaken[q], reads[q])
        BY <4>1, <4>3, <4>7, <4>8 DEF Same
      <4>10. ~Overtaken[q].wanted
        BY <4>4, <4>7
      <4> QED BY <4>7, <4>9, <4>10
    <3> QED BY <3>1, <3>2
  <2>3. Overtaken = [q \in Reads |-> Overtaken[q]]
    BY <2>1
  <2>4. Overtaken \in [Reads -> {NoRead} \cup LiveReads]
    BY <2>2, <2>3
  <2> QED BY <2>2, <2>4, <1>2
<1> QED BY <1>1, <1>2

\* A read that is asked for takes the place of none.
LEMMA AskIs ==
  ASSUME NEW others \in [Reads -> {NoRead} \cup LiveReads], NEW kind \in {"rows", "page", "call"}, NEW k \in Keys,
         Ask(kind, k, others)
  PROVE  \E r \in Reads :
           /\ reads[r] = NoRead
           /\ reads' \in [Reads -> {NoRead} \cup LiveReads]
           /\ reads'[r] \in LiveReads /\ reads'[r].kind = kind /\ reads'[r].key = k /\ reads'[r].has = {}
           /\ reads'[r].at = "sent" /\ reads'[r].wanted = TRUE
           /\ \A q \in Reads : q # r => reads'[q] = others[q]
<1>1. PICK x : x = [kind |-> kind, key |-> k, has |-> {}, at |-> "sent", wanted |-> TRUE]
  OBVIOUS
<1>2. PICK r \in Reads : reads[r] = NoRead /\ reads' = [others EXCEPT ![r] = x]
  BY <1>1 DEF Ask
<1>3. /\ x \in LiveReads /\ x.kind = kind /\ x.key = k /\ x.has = {} /\ x.at = "sent" /\ x.wanted = TRUE
  BY <1>1 DEF LiveReads
<1>4. reads' \in [Reads -> {NoRead} \cup LiveReads] /\ reads'[r] = x /\ \A q \in Reads : q # r => reads'[q] = others[q]
  BY <1>2, <1>3
<1> QED BY <1>2, <1>3, <1>4

\* A read of rows starts, as the r-th.
Started(r, k) ==
  /\ reads[r] = NoRead
  /\ reads' \in [Reads -> {NoRead} \cup LiveReads]
  /\ reads'[r] \in LiveReads /\ reads'[r].kind = "rows" /\ reads'[r].key = k /\ reads'[r].has = {}
  /\ reads'[r].at = "sent" /\ reads'[r].wanted = TRUE
  /\ \A q \in Reads : q # r =>
       /\ Same(reads'[q], reads[q])
       /\ reads'[q].wanted => reads[q].wanted /\ ~Discards(reads[q])

\* Rows are asked for where no read refuses it.
LEMMA StartIs ==
  ASSUME reads \in [Reads -> {NoRead} \cup LiveReads], NEW k \in Keys, ReadRows(k),
         ~(view.late = "refused" /\ loading)
  PROVE  /\ loading' = TRUE /\ failed' = FALSE
         /\ \E r \in Reads : Started(r, k)
<1>1. Ask("rows", k, Overtaken) /\ loading' = TRUE /\ failed' = FALSE
  BY DEF ReadRows
<1>2. Overtaken \in [Reads -> {NoRead} \cup LiveReads]
  BY OvertakenIs
<1>3. PICK r \in Reads :
           /\ reads[r] = NoRead
           /\ reads' \in [Reads -> {NoRead} \cup LiveReads]
           /\ reads'[r] \in LiveReads /\ reads'[r].kind = "rows" /\ reads'[r].key = k /\ reads'[r].has = {}
           /\ reads'[r].at = "sent" /\ reads'[r].wanted = TRUE
           /\ \A q \in Reads : q # r => reads'[q] = Overtaken[q]
  BY <1>1, <1>2, AskIs
<1>4. Started(r, k)
  BY <1>3, OvertakenIs DEF Started
<1> QED BY <1>1, <1>4

\* What moves when a change is answered and over.
Answered(x, y) ==
  /\ x # NoChange /\ y # NoChange /\ x.kind = y.kind /\ x.key = y.key
  /\ y.at \in {"done", "failed"} /\ x.at = "over"
ChangesMove ==
  /\ changes' \in [Changes -> {NoChange} \cup LiveChanges]
  /\ \A c \in Changes : changes'[c] = changes[c] \/ Answered(changes'[c], changes[c])

\* What the other conjuncts say of changes goes on when some are over.
LEMMA MovesFit ==
  ASSUME ViewsTypeOK, ChangesMove
  PROVE  \A c \in Changes :
           /\ changes'[c] # NoChange <=> changes[c] # NoChange
           /\ changes'[c] # NoChange => changes'[c].key = changes[c].key /\ changes'[c].kind = changes[c].kind
           /\ Underway(c)' => Underway(c) /\ changes'[c] = changes[c]
           /\ changes[c].at = "over" => changes'[c] = changes[c]
           /\ changes[c].at # "sent" => changes'[c].at # "sent"
           /\ changes'[c].at = "done" => changes[c].at = "done" /\ changes'[c] = changes[c]
BY DEF ChangesMove, Answered, Underway

\* A view starts a read of rows.
LEMMA StartsKeepInv ==
  ASSUME ViewsInv, ViewIsSound(view), NEW k \in Keys, k \in view.keys, NEW r \in Reads, Started(r, k),
         loading' = TRUE, failed' = FALSE, ~(view.late = "refused" /\ loading),
         view' = view, stored' = stored, excused' = excused, ChangesMove,
         key' = IF view.moves = "with" THEN key ELSE k,
         rows' = IF view.hides THEN <<>> ELSE rows,
         view.keeps => rows = <<>>, ~Patched(view),
         Tracked(view) /\ Queued(view) => \A q \in Reads : ~reads[q].wanted,
         Tracked(view) /\ (Queued(view) \/ Pinned(view)) => \A c \in Changes : ~Underway(c)'
  PROVE  ViewsInv'
<1> USE DEF ViewsInv
<1>1. /\ view \in Views /\ key \in view.keys /\ rows \in Seq(ShownPages)
      /\ excused \in BOOLEAN /\ reads \in [Reads -> {NoRead} \cup LiveReads]
      /\ changes \in [Changes -> {NoChange} \cup LiveChanges] /\ stored \in [Keys -> SUBSET Changes]
  BY DEF ViewsTypeOK
<1>2. key' \in view.keys /\ key' # Closed
  <2>1. k # Closed
    BY DEF Keys, Closed
  <2>2. view.moves = "with" => Closed \notin view.keys
    BY DEF ViewIsSound
  <2> QED BY <1>1, <2>1, <2>2
<1>3. rows' = <<>> \/ rows' = rows
  OBVIOUS
<1>4. /\ reads[r] = NoRead /\ reads'[r] # NoRead /\ reads'[r].kind = "rows" /\ reads'[r].key = k /\ reads'[r].has = {}
      /\ reads'[r].at = "sent" /\ reads'[r].wanted
      /\ reads' \in [Reads -> {NoRead} \cup LiveReads]
  BY ReadIs DEF Started
<1>5. \A q \in Reads : q # r =>
         /\ reads'[q] = NoRead <=> reads[q] = NoRead
         /\ reads'[q].kind = reads[q].kind /\ reads'[q].key = reads[q].key
         /\ reads'[q].has = reads[q].has /\ reads'[q].at = reads[q].at
         /\ reads'[q].wanted => reads[q].wanted /\ ~Discards(reads[q])
  BY DEF Started, Same
<1>6. \A q \in Reads : reads[q].wanted =>
        /\ reads[q] # NoRead /\ reads[q].kind \in {"rows", "page", "call"}
        /\ reads[q].kind = "page" => view.more # "none"
        /\ reads[q].kind = "call" => view.calls
  <2> SUFFICES ASSUME NEW q \in Reads, reads[q].wanted
               PROVE  /\ reads[q] # NoRead /\ reads[q].kind \in {"rows", "page", "call"}
                      /\ reads[q].kind = "page" => view.more # "none"
                      /\ reads[q].kind = "call" => view.calls
    OBVIOUS
  <2>1. reads[q] # NoRead /\ reads[q].kind \in {"rows", "page", "call"}
    BY <1>1, ReadIs
  <2> QED BY <2>1 DEF AllFits
<1>7. view.late = "discarded" /\ view.more # "any" /\ ~view.calls => \A q \in Reads : reads'[q].wanted => q = r
  <2>1. view.late = "discarded" /\ view.more # "any" /\ ~view.calls
          => \A q \in Reads : reads[q].wanted => Discards(reads[q])
    <3>1. view.more \in {"none", "any", "read"}
      BY DEF ViewIsSound
    <3> QED BY <3>1, <1>6 DEF Discards
  <2> QED BY <1>5, <2>1
<1>8. RowsComing'
  BY <1>4 DEF RowsComing, WantsRows
<1>9. ViewsTypeOK'
  <2>1. rows' \in Seq(ShownPages)
    BY <1>1, <1>3
  <2> QED BY <1>1, <1>2, <1>4, <2>1 DEF ViewsTypeOK, ChangesMove
<1>10. AllFits'
  <2>1. \A i \in 1..Len(rows') : rows'[i].key \in view.keys /\ rows'[i].has \subseteq stored[rows'[i].key]
    BY <1>3 DEF AllFits
  <2>2. \A q \in Reads : reads'[q] # NoRead =>
       /\ reads'[q].key \in view.keys /\ reads'[q].has \subseteq stored[reads'[q].key]
       /\ reads'[q].kind = "page" => view.more # "none"
       /\ reads'[q].kind = "call" => view.calls
    BY <1>4, <1>5 DEF AllFits
  <2>3. /\ \A c \in Changes : changes'[c] # NoChange => changes'[c].key \in view.keys /\ changes'[c].kind \in view.edits
        /\ \A c \in Changes : changes'[c].at = "done" => c \in stored[changes'[c].key]
    BY MovesFit DEF AllFits
  <2>4. \A j \in Keys : \A c \in stored[j] : changes'[c] # NoChange /\ changes'[c].key = j /\ changes'[c].at # "sent"
    BY <1>1, MovesFit DEF AllFits
  <2>5. view.serial => \A c, d \in Changes : Underway(c)' /\ Underway(d)' => c = d
    BY MovesFit DEF AllFits
  <2> QED BY <2>1, <2>2, <2>3, <2>4, <2>5 DEF AllFits, Underway
<1>11. LoadingEnds'
  BY <1>8 DEF LoadingEnds
<1>12. RowsAppear'
  BY <1>8 DEF RowsAppear
<1>13. KeptOnce'
  <2>1. ASSUME view.keeps
        PROVE  rows' = <<>> /\ \A q \in Reads : reads'[q].wanted => q = r
    <3>1. rows' = <<>>
      BY <2>1
    <3>2. CASE view.late = "discarded"
      BY <1>7, <2>1, <3>2 DEF ViewIsSound
    <3>3. CASE view.late = "refused"
      BY <1>5, <2>1, <3>3 DEF KeptOnce
    <3> QED BY <2>1, <3>1, <3>2, <3>3 DEF ViewIsSound
  <2> QED BY <1>4, <2>1 DEF KeptOnce
<1>14. OneByOne'
  BY <1>4, <1>5 DEF OneByOne
<1>15. KeysAgree'
  <2>1. ASSUME view.moves = "with"
        PROVE  /\ \A i \in 1..Len(rows') : rows'[i].key = key'
               /\ \A q \in Reads : reads'[q].wanted /\ reads'[q].kind = "page" => reads'[q].key = key'
    <3>1. rows' = rows /\ key' = key
      BY <2>1 DEF ViewIsSound
    <3> QED BY <2>1, <3>1, <1>4, <1>5 DEF KeysAgree
  <2>2. ASSUME Exact(view)
        PROVE  \A q \in Reads : reads'[q].wanted => reads'[q].key = key'
    <3>1. key' = k
      BY <2>2 DEF ViewIsSound, Exact
    <3> QED BY <2>2, <3>1, <1>4, <1>7 DEF Exact
  <2> QED BY <2>1, <2>2, <1>8 DEF KeysAgree
<1>16. PatchesAreShown'
  BY DEF PatchesAreShown
<1>17. ReloadsAreShown'
  <2> SUFFICES ASSUME Tracked(view)
               PROVE  /\ Queued(view) \/ Pinned(view) => \A q \in Reads : reads'[q].wanted => q = r
                      /\ \A q \in Reads : WantsRows(q)' => q = r
    BY <1>2, <1>4, <1>8 DEF ReloadsAreShown
  <2>1. Queued(view) => \A q \in Reads : reads'[q].wanted => q = r
    BY <1>5
  <2>2. Pinned(view) => \A q \in Reads : reads'[q].wanted => q = r
    BY <1>7 DEF Pinned
  <2>3. view.late = "discarded" => \A q \in Reads : WantsRows(q)' => q = r
    BY <1>5 DEF WantsRows, Discards
  <2>4. view.late = "discarded" \/ Queued(view)
    BY DEF Tracked, Reloading, Pinned
  <2> QED BY <2>1, <2>2, <2>3, <2>4 DEF WantsRows
<1> QED BY <1>9, <1>10, <1>11, <1>12, <1>13, <1>14, <1>15, <1>16, <1>17

\* Reads that are on their way are of what the view can show.
LEMMA WantedIs ==
  ASSUME ViewsTypeOK, AllFits
  PROVE  \A q \in Reads :
           /\ reads[q].wanted => reads[q] # NoRead
           /\ reads[q] # NoRead => /\ reads[q] \in LiveReads /\ reads[q].kind \in {"rows", "page", "call"}
                                   /\ reads[q].key \in Keys /\ reads[q].key \in view.keys
                                   /\ reads[q].has \in SUBSET Changes
           /\ reads[q].kind = "page" => view.more # "none"
           /\ reads[q].kind = "call" => view.calls
<1> SUFFICES ASSUME NEW q \in Reads
             PROVE  /\ reads[q].wanted => reads[q] # NoRead
                    /\ reads[q] # NoRead =>
                         /\ reads[q] \in LiveReads /\ reads[q].kind \in {"rows", "page", "call"}
                         /\ reads[q].key \in Keys /\ reads[q].key \in view.keys
                         /\ reads[q].has \in SUBSET Changes
                    /\ reads[q].kind = "page" => view.more # "none"
                    /\ reads[q].kind = "call" => view.calls
  OBVIOUS
<1>1. reads[q] \in {NoRead} \cup LiveReads
  BY DEF ViewsTypeOK
<1>2. /\ reads[q] = NoRead => reads[q].kind = "none" /\ reads[q].wanted = FALSE
      /\ reads[q] # NoRead => /\ reads[q] \in LiveReads /\ reads[q].kind \in {"rows", "page", "call"}
                              /\ reads[q].key \in Keys /\ reads[q].has \in SUBSET Changes
  BY <1>1, ReadIs
<1> QED BY <1>2 DEF AllFits

\* The rows shown are of keys and not of a closed dialog.
LEMMA RowIs ==
  ASSUME ViewsTypeOK, AllFits
  PROVE  /\ \A i \in 1..Len(rows) :
              /\ rows[i].key \in Keys /\ rows[i].key \in view.keys /\ rows[i].key # Closed
              /\ rows[i].has \in SUBSET Changes /\ rows[i].has \subseteq stored[rows[i].key]
         /\ rows # <<>> => 1 \in 1..Len(rows)
<1>1. rows \in Seq(ShownPages)
  BY DEF ViewsTypeOK
<1>2. \A i \in 1..Len(rows) : rows[i] \in ShownPages
  BY <1>1
<1>3. \A i \in 1..Len(rows) : rows[i].key \in Keys /\ rows[i].has \in SUBSET Changes
  BY <1>2 DEF ShownPages
<1>4. rows # <<>> => 1 \in 1..Len(rows)
  BY <1>1, EmptySeq, LenProperties
<1> QED BY <1>3, <1>4 DEF AllFits, Keys, Closed

\* A key of the view is 1 or 2, or it is closed.
LEMMA KeyIs ==
  ASSUME ViewsTypeOK, ViewIsSound(view), NEW k \in view.keys
  PROVE  /\ k \in Keys \cup {Closed}
         /\ 2 \notin view.keys => k = 1 \/ k = Closed
BY DEF ViewIsSound, Keys, Closed

\* Another key.
LEMMA GoToKeepsInv ==
  ASSUME ViewsInv, ViewIsSound(view), NEW k \in Keys, goTo(k)
  PROVE  ViewsInv'
<1>1. /\ k \in view.keys /\ k # Closed /\ k # key /\ key \in view.keys
      /\ view' = view /\ changes' = changes /\ stored' = stored /\ excused' = excused
  BY DEF goTo, ViewsInv, ViewsTypeOK
<1>2. /\ view.moves = "with" => ~loading /\ key' = key /\ rows' = rows
      /\ view.moves # "with" => key' = k /\ rows' = IF view.hides THEN <<>> ELSE rows
  BY DEF goTo
<1>3. view.keys # {1}
  BY <1>1
<1>4. ~Patched(view) /\ ~Queued(view)
  BY <1>3 DEF Patched, Queued
<1>5. CASE ~(view.keeps /\ rows # <<>>) /\ ~(view.late = "refused" /\ loading)
  <2>1. ReadRows(k)
    BY <1>5, Zenon DEF goTo
  <2>2. reads \in [Reads -> {NoRead} \cup LiveReads]
    BY DEF ViewsInv, ViewsTypeOK
  <2>3. PICK r \in Reads : Started(r, k) /\ loading' = TRUE /\ failed' = FALSE
    BY <1>5, <2>1, <2>2, StartIs
  <2>4. key' = IF view.moves = "with" THEN key ELSE k
    BY <1>2
  <2>5. rows' = IF view.hides THEN <<>> ELSE rows
    BY <1>2 DEF ViewIsSound
  <2>6. Pinned(view) => \A c \in Changes : ~Underway(c)'
    <3>1. Pinned(view) => key = Closed
      BY <1>1 DEF Pinned, Keys
    <3> QED BY <1>1, <3>1 DEF ViewsInv, ReloadsAreShown, Tracked, Underway
  <2>7. ChangesMove
    BY <1>1 DEF ChangesMove, ViewsInv, ViewsTypeOK
  <2>8. view.keeps => rows = <<>>
    BY <1>5
  <2> QED BY <1>1, <1>4, <1>5, <2>3, <2>4, <2>5, <2>6, <2>7, <2>8, StartsKeepInv
<1>6. CASE (view.keeps /\ rows # <<>>) \/ (view.late = "refused" /\ loading)
  <2> USE DEF ViewsInv
  <2>1. reads' = reads /\ loading' = loading /\ failed' = failed
    BY <1>6, Zenon DEF goTo, ReadRows
  <2>2. rows' = rows /\ view.moves # "with" => key' = k
    <3>1. view.keeps \/ view.late = "refused" => ~view.hides
      BY DEF ViewIsSound
    <3> QED BY <1>2, <1>6, <3>1
  <2>3. rows' = rows
    <3>1. view.keeps \/ view.late = "refused" => ~view.hides
      BY DEF ViewIsSound
    <3> QED BY <1>2, <1>6, <3>1
  <2>4. view.moves # "with" /\ key' = k
    BY <1>2, <1>6 DEF ViewIsSound
  <2>5. ViewsTypeOK'
    BY <1>1, <2>1, <2>3, <2>4 DEF ViewsTypeOK
  <2>6. AllFits'
    BY <1>1, <2>1, <2>3 DEF AllFits, Underway
  <2>7. (RowsComing <=> RowsComing') /\ \A r \in Reads : WantsRows(r)' <=> WantsRows(r)
    BY <2>1 DEF RowsComing, WantsRows
  <2>8. ~Tracked(view)
    <3>1. Tracked(view) => ~view.keeps /\ view.late # "refused"
      BY DEF Tracked, Reloading, Pinned, Queued
    <3> QED BY <1>6, <3>1
  <2>9. ReloadsAreShown' /\ PatchesAreShown'
    BY <1>1, <1>4, <2>8 DEF ReloadsAreShown, PatchesAreShown
  <2>10. KeptOnce' /\ OneByOne'
    BY <1>1, <2>1, <2>3 DEF KeptOnce, OneByOne
  <2>11. CASE view.keeps /\ rows # <<>>
    <3>1. ~loading /\ ~failed /\ \A r \in Reads : ~reads[r].wanted
      BY <2>11 DEF KeptOnce
    <3>2. LoadingEnds' /\ RowsAppear'
      BY <2>1, <2>3, <2>11, <3>1 DEF LoadingEnds, RowsAppear
    <3>3. \A i \in 1..Len(rows) : rows[i].key = k
      <4>1. 2 \notin view.keys
        BY <2>11 DEF ViewIsSound
      <4> QED BY <1>1, <4>1, KeyIs, RowIs
    <3>4. KeysAgree'
      BY <1>1, <2>1, <2>3, <2>4, <3>1, <3>3 DEF KeysAgree
    <3> QED BY <2>5, <2>6, <2>9, <2>10, <3>2, <3>4
  <2>12. CASE view.late = "refused" /\ loading
    <3>1. LoadingEnds'
      BY <1>1, <2>1, <2>7, <2>12 DEF LoadingEnds
    <3>2. KeysAgree'
      BY <1>1, <2>4, <2>12 DEF KeysAgree, Exact
    <3>3. RowsAppear'
      <4>1. CASE Closed \in view.keys
        <5>1. view.keeps
          BY <2>12, <4>1 DEF ViewIsSound
        <5>2. RowsComing
          BY <2>12, <5>1 DEF LoadingEnds, KeptOnce
        <5> QED BY <1>1, <2>3, <2>7, <4>1, <5>2 DEF RowsAppear
      <4>2. CASE Closed \notin view.keys
        <5>1. rows # <<>>
          BY <2>12, <4>2 DEF RowsAppear, ViewIsSound
        <5> QED BY <2>3, <5>1 DEF RowsAppear
      <4> QED BY <4>1, <4>2
    <3> QED BY <2>5, <2>6, <2>9, <2>10, <3>1, <3>2, <3>3
  <2> QED BY <1>6, <2>11, <2>12
<1> QED BY <1>5, <1>6

\* The same key again.
LEMMA ReadAgainKeepsInv ==
  ASSUME ViewsInv, ViewIsSound(view), readAgain
  PROVE  ViewsInv' \/ UNCHANGED viewVars
<1>1. /\ key \in view.keys /\ key # Closed
      /\ view.again = "always" \/ (view.again = "failed" /\ failed /\ ~loading)
      /\ ReadRows(key) /\ rows' = IF view.hides THEN <<>> ELSE rows
      /\ view' = view /\ key' = key /\ changes' = changes /\ stored' = stored /\ excused' = excused
  BY DEF readAgain, ViewsInv, ViewsTypeOK
<1>2. key \in Keys
  BY <1>1, KeyIs DEF ViewsInv
<1>3. CASE view.late = "refused" /\ loading
  <2>1. UNCHANGED <<reads, asked, loading, failed>>
    BY <1>1, <1>3, Zenon DEF ReadRows
  <2>2. rows' = rows
    BY <1>1, <1>3 DEF ViewIsSound
  <2> QED BY <1>1, <2>1, <2>2 DEF viewVars
<1>4. CASE ~(view.late = "refused" /\ loading)
  <2>1. reads \in [Reads -> {NoRead} \cup LiveReads]
    BY DEF ViewsInv, ViewsTypeOK
  <2>2. PICK r \in Reads : Started(r, key) /\ loading' = TRUE /\ failed' = FALSE
    BY <1>1, <1>2, <1>4, <2>1, StartIs
  <2>3. key' = IF view.moves = "with" THEN key ELSE key
    BY <1>1
  <2>4. ~Patched(view) /\ ~Queued(view) /\ ~Pinned(view)
    BY <1>1 DEF Patched, Queued, Pinned
  <2>5. ChangesMove
    BY <1>1 DEF ChangesMove, ViewsInv, ViewsTypeOK
  <2>6. view.keeps => rows = <<>>
    BY <1>1 DEF ViewsInv, KeptOnce, ViewIsSound
  <2> QED BY <1>1, <1>2, <1>4, <2>2, <2>3, <2>4, <2>5, <2>6, StartsKeepInv
<1> QED BY <1>3, <1>4

\* Changes are over, or answered by a patch of the rows.
LEMMA OverKeepsInv ==
  ASSUME ViewsInv, ViewIsSound(view), ChangesMove,
         view' = view, key' = key, loading' = loading, failed' = failed, reads' = reads, stored' = stored,
         excused' \in BOOLEAN, excused => excused',
         rows' \in Seq(ShownPages), Len(rows') = Len(rows), (rows' = <<>>) <=> (rows = <<>>),
         \A i \in 1..Len(rows) : /\ rows'[i].key = rows[i].key /\ rows[i].has \subseteq rows'[i].has
                                 /\ rows'[i].has \subseteq stored[rows[i].key],
         Patched(view) \/ Tracked(view) => excused' \/ (\A c \in Changes : changes'[c] # changes[c] =>
           /\ Tracked(view) => \A r \in Reads : ~reads[r].wanted
           /\ rows # <<>> /\ rows[1].key = changes[c].key => c \in rows'[1].has)
  PROVE  ViewsInv'
<1> USE DEF ViewsInv
<1>1. ViewsTypeOK'
  BY DEF ViewsTypeOK, ChangesMove
<1>2. AllFits'
  <2>1. \A i \in 1..Len(rows') : rows'[i].key \in view.keys /\ rows'[i].has \subseteq stored[rows'[i].key]
    BY DEF AllFits
  <2>2. /\ \A c \in Changes : changes'[c] # NoChange => changes'[c].key \in view.keys /\ changes'[c].kind \in view.edits
        /\ \A c \in Changes : changes'[c].at = "done" => c \in stored[changes'[c].key]
    BY MovesFit DEF AllFits
  <2>3. \A j \in Keys : \A c \in stored[j] : changes'[c] # NoChange /\ changes'[c].key = j /\ changes'[c].at # "sent"
    BY MovesFit DEF AllFits, ViewsTypeOK
  <2>4. view.serial => \A c, d \in Changes : Underway(c)' /\ Underway(d)' => c = d
    BY MovesFit DEF AllFits
  <2>5. \A q \in Reads : reads'[q] # NoRead =>
       /\ reads'[q].key \in view.keys /\ reads'[q].has \subseteq stored[reads'[q].key]
       /\ reads'[q].kind = "page" => view.more # "none"
       /\ reads'[q].kind = "call" => view.calls
    BY DEF AllFits
  <2> QED BY <2>1, <2>2, <2>3, <2>4, <2>5 DEF AllFits, Underway
<1>3. (RowsComing <=> RowsComing') /\ \A r \in Reads : WantsRows(r)' <=> WantsRows(r)
  BY DEF RowsComing, WantsRows
<1>4. LoadingEnds' /\ RowsAppear' /\ KeptOnce' /\ OneByOne'
  BY <1>3 DEF LoadingEnds, RowsAppear, KeptOnce, OneByOne
<1>5. KeysAgree'
  BY <1>3 DEF KeysAgree
<1>6. rows # <<>> => 1 \in 1..Len(rows)
  BY RowIs
<1>7. PatchesAreShown'
  <2> SUFFICES ASSUME Patched(view)
               PROVE  \A c \in stored[1] : changes'[c].at \in {"done", "failed"} \/ excused' \/ c \in rows'[1].has
    BY DEF PatchesAreShown
  <2> SUFFICES ASSUME NEW c \in stored[1], ~excused'
               PROVE  changes'[c].at \in {"done", "failed"} \/ c \in rows'[1].has
    OBVIOUS
  <2>1. 1 \in Keys /\ c \in Changes
    BY DEF ViewsTypeOK, Keys
  <2>2. changes[c].key = 1
    BY <2>1 DEF AllFits
  <2>3. rows # <<>> /\ rows[1].key = 1
    <3>1. rows # <<>>
      BY DEF PatchesAreShown
    <3> QED BY <3>1, <1>6, RowIs DEF Patched
  <2>4. CASE changes'[c] = changes[c]
    <3>1. changes[c].at \in {"done", "failed"} \/ c \in rows[1].has
      BY DEF PatchesAreShown
    <3> QED BY <1>6, <2>3, <2>4, <3>1
  <2>5. CASE changes'[c] # changes[c]
    BY <2>1, <2>2, <2>3, <2>5
  <2> QED BY <2>4, <2>5
<1>8. ReloadsAreShown'
  <2> SUFFICES ASSUME Tracked(view)
               PROVE  ReloadsAreShown'
    BY DEF ReloadsAreShown
  <2>1. Pinned(view) => \A c \in Changes : Underway(c)' => key # Closed
    BY MovesFit DEF ReloadsAreShown
  <2>2. Queued(view) \/ Pinned(view) => \A r \in Reads : reads[r].wanted =>
         /\ loading /\ \A q \in Reads : reads[q].wanted => q = r
         /\ \A c \in Changes : ~Underway(c)'
    BY MovesFit DEF ReloadsAreShown
  <2>3. \A r \in Reads : WantsRows(r) /\ reads[r].at = "done" /\ ~excused' =>
         \A c \in stored[reads[r].key] : changes'[c].at = "over" => c \in reads[r].has
    <3> SUFFICES ASSUME NEW r \in Reads, WantsRows(r), reads[r].at = "done", ~excused',
                        NEW c \in stored[reads[r].key], changes'[c].at = "over"
                 PROVE  c \in reads[r].has
      OBVIOUS
    <3>1. reads[r].wanted
      BY DEF WantsRows
    <3>2. c \in Changes
      BY <3>1, WantedIs DEF ViewsTypeOK
    <3>3. changes'[c] = changes[c]
      BY <3>1, <3>2
    <3> QED BY <3>3 DEF ReloadsAreShown
  <2>4. ~excused' /\ ~failed /\ ~RowsComing /\ rows # <<>> /\ rows[1].key = key =>
         \A c \in stored[key] : changes'[c].at = "over" => c \in rows'[1].has
    <3> SUFFICES ASSUME ~excused', ~failed, ~RowsComing, rows # <<>>, rows[1].key = key,
                        NEW c \in stored[key], changes'[c].at = "over"
                 PROVE  c \in rows'[1].has
      OBVIOUS
    <3>1. key \in Keys
      BY <1>6, RowIs
    <3>2. c \in Changes /\ changes[c].key = key
      BY <3>1 DEF AllFits, ViewsTypeOK
    <3>3. CASE changes'[c] = changes[c]
      <4>1. c \in rows[1].has
        BY <3>3 DEF ReloadsAreShown
      <4> QED BY <1>6, <4>1
    <3>4. CASE changes'[c] # changes[c]
      BY <3>2, <3>4
    <3> QED BY <3>3, <3>4
  <2> QED BY <1>3, <1>6, <2>1, <2>2, <2>3, <2>4 DEF ReloadsAreShown
<1> QED BY <1>1, <1>2, <1>4, <1>5, <1>7, <1>8

\* A second page is asked for, or the rows by a call of their own.
LEMMA AskedKeepsInv ==
  ASSUME ViewsInv, ViewIsSound(view), ChangesMove, NEW kind \in {"page", "call"}, NEW k \in Keys, k \in view.keys,
         Ask(kind, k, reads),
         view' = view, key' = key, rows' = rows, failed' = failed, stored' = stored, excused' = excused,
         loading' \in BOOLEAN, loading => loading',
         kind = "call" => view.calls /\ loading' = loading,
         kind = "page" => /\ view.more # "none" /\ key = k /\ changes' = changes
                          /\ view.late = "refused" => ~loading /\ loading'
                          /\ view.late # "refused" => loading' = loading
  PROVE  ViewsInv'
<1> USE DEF ViewsInv
<1>1. reads \in [Reads -> {NoRead} \cup LiveReads]
  BY DEF ViewsTypeOK
<1>2. PICK r \in Reads :
           /\ reads[r] = NoRead
           /\ reads' \in [Reads -> {NoRead} \cup LiveReads]
           /\ reads'[r] \in LiveReads /\ reads'[r].kind = kind /\ reads'[r].key = k /\ reads'[r].has = {}
           /\ reads'[r].at = "sent" /\ reads'[r].wanted = TRUE
           /\ \A q \in Reads : q # r => reads'[q] = reads[q]
  <2>1. PICK x : x = [kind |-> kind, key |-> k, has |-> {}, at |-> "sent", wanted |-> TRUE]
    OBVIOUS
  <2>2. PICK r \in Reads : reads[r] = NoRead /\ reads' = [reads EXCEPT ![r] = x]
    BY <2>1 DEF Ask
  <2>3. /\ x \in LiveReads /\ x.kind = kind /\ x.key = k /\ x.has = {} /\ x.at = "sent" /\ x.wanted = TRUE
    BY <2>1 DEF LiveReads
  <2>4. reads' \in [Reads -> {NoRead} \cup LiveReads] /\ reads'[r] = x /\ \A q \in Reads : q # r => reads'[q] = reads[q]
    BY <1>1, <2>2, <2>3
  <2> QED BY <2>2, <2>3, <2>4
<1>3. ~reads[r].wanted /\ reads[r].kind = "none" /\ reads'[r] # NoRead
  BY <1>2, ReadIs
<1>4. ~view.keeps /\ ~Queued(view) /\ ~Pinned(view) /\ ~(kind = "call" /\ (Tracked(view) \/ Patched(view) \/ Exact(view)))
  <2>1. view.calls \/ view.more # "none"
    OBVIOUS
  <2>2. ~view.keeps
    BY <2>1 DEF ViewIsSound
  <2>3. Queued(view) => ~view.calls
    BY DEF Queued
  <2>4. ~Queued(view) /\ ~Pinned(view)
    BY <2>1, <2>3 DEF Queued, Pinned
  <2>5. ~(kind = "call" /\ (Tracked(view) \/ Patched(view) \/ Exact(view)))
    BY DEF Tracked, Patched, Exact, Reloading, Pinned
  <2> QED BY <2>2, <2>4, <2>5
<1>5. (RowsComing <=> RowsComing') /\ \A q \in Reads : WantsRows(q)' <=> WantsRows(q)
  <2>1. \A q \in Reads : WantsRows(q)' <=> WantsRows(q)
    BY <1>2, <1>3 DEF WantsRows
  <2> QED BY <2>1 DEF RowsComing
<1>6. ViewsTypeOK'
  BY <1>2 DEF ViewsTypeOK, ChangesMove
<1>7. AllFits'
  <2>1. \A i \in 1..Len(rows') : rows'[i].key \in view.keys /\ rows'[i].has \subseteq stored[rows'[i].key]
    BY DEF AllFits
  <2>2. /\ \A c \in Changes : changes'[c] # NoChange => changes'[c].key \in view.keys /\ changes'[c].kind \in view.edits
        /\ \A c \in Changes : changes'[c].at = "done" => c \in stored[changes'[c].key]
    BY MovesFit DEF AllFits
  <2>3. \A j \in Keys : \A c \in stored[j] : changes'[c] # NoChange /\ changes'[c].key = j /\ changes'[c].at # "sent"
    BY MovesFit DEF AllFits, ViewsTypeOK
  <2>4. view.serial => \A c, d \in Changes : Underway(c)' /\ Underway(d)' => c = d
    BY MovesFit DEF AllFits
  <2>5. \A q \in Reads : reads'[q] # NoRead =>
       /\ reads'[q].key \in view.keys /\ reads'[q].has \subseteq stored[reads'[q].key]
       /\ reads'[q].kind = "page" => view.more # "none"
       /\ reads'[q].kind = "call" => view.calls
    BY <1>2 DEF AllFits
  <2> QED BY <2>1, <2>2, <2>3, <2>4, <2>5 DEF AllFits, Underway
<1>8. LoadingEnds'
  <2>1. ASSUME NEW q \in Reads, reads[q].wanted, reads[q].kind = "page"
        PROVE  \E p \in Reads : reads'[p].wanted /\ reads'[p].kind = "page"
    BY <2>1, <1>2, <1>3
  <2>2. CASE kind = "call"
    BY <1>5, <2>1, <2>2 DEF LoadingEnds
  <2>3. CASE kind = "page"
    BY <1>2, <1>5, <2>1, <2>3 DEF LoadingEnds
  <2> QED BY <2>2, <2>3
<1>9. RowsAppear' /\ KeptOnce'
  BY <1>4, <1>5 DEF RowsAppear, KeptOnce
<1>10. OneByOne'
  BY <1>2 DEF OneByOne
<1>11. KeysAgree'
  BY <1>2, <1>4, <1>5 DEF KeysAgree
<1>12. PatchesAreShown'
  BY <1>2, <1>4 DEF PatchesAreShown
<1>13. ReloadsAreShown'
  <2> SUFFICES ASSUME Tracked(view)
               PROVE  ReloadsAreShown'
    BY DEF ReloadsAreShown
  <2>1. changes' = changes
    BY <1>4
  <2> QED BY <1>2, <1>4, <1>5, <2>1 DEF ReloadsAreShown, WantsRows
<1> QED BY <1>6, <1>7, <1>8, <1>9, <1>10, <1>11, <1>12, <1>13

\* The second page.
LEMMA LoadMoreKeepsInv ==
  ASSUME ViewsInv, ViewIsSound(view), loadMore
  PROVE  ViewsInv'
<1>1. /\ view.more # "none" /\ key # Closed /\ Ask("page", key, reads)
      /\ view' = view /\ key' = key /\ rows' = rows /\ failed' = failed /\ changes' = changes
      /\ stored' = stored /\ excused' = excused
  BY DEF loadMore
<1>2. IF view.late = "refused" THEN ~loading /\ loading' = TRUE ELSE UNCHANGED loading
  BY DEF loadMore
<1>3. /\ view.late = "refused" => ~loading /\ loading'
      /\ view.late # "refused" => loading' = loading
      /\ loading => loading'
  BY <1>2
<1>4. loading' \in BOOLEAN
  <2>1. loading \in BOOLEAN
    BY DEF ViewsInv, ViewsTypeOK
  <2> QED BY <1>2, <2>1
<1>5. key \in Keys /\ key \in view.keys
  <2>1. key \in view.keys
    BY DEF ViewsInv, ViewsTypeOK
  <2> QED BY <1>1, <2>1, KeyIs DEF ViewsInv
<1>6. ChangesMove
  BY <1>1 DEF ChangesMove, ViewsInv, ViewsTypeOK
<1> QED BY <1>1, <1>3, <1>4, <1>5, <1>6, AskedKeepsInv

\* The answer of a change.
LEMMA ChangeDoneKeepsInv ==
  ASSUME ViewsInv, ViewIsSound(view), NEW c \in Changes, changeDone(c)
  PROVE  ViewsInv'
<1> USE DEF ViewsInv
<1>1. /\ changes[c].at = "done" /\ view' = view /\ key' = key /\ stored' = stored /\ excused' = excused
      /\ changes' = [changes EXCEPT ![c].at = "over"]
  BY DEF changeDone
<1>2. /\ changes \in [Changes -> {NoChange} \cup LiveChanges] /\ rows \in Seq(ShownPages) /\ key \in view.keys
      /\ stored \in [Keys -> SUBSET Changes] /\ excused \in BOOLEAN /\ loading \in BOOLEAN
  BY DEF ViewsTypeOK
<1>3. /\ changes[c] # NoChange /\ changes[c] \in LiveChanges /\ changes[c].kind \in {"patch", "reload"}
      /\ changes[c].key \in Keys
  <2>1. changes[c] # NoChange
    BY <1>1, <1>2, ChangeIs
  <2> QED BY <1>2, <2>1, ChangeIs
<1>4. /\ changes[c].key \in view.keys /\ changes[c].kind \in view.edits /\ c \in stored[changes[c].key]
  BY <1>1, <1>3 DEF AllFits
<1>5. /\ changes' \in [Changes -> {NoChange} \cup LiveChanges] /\ Answered(changes'[c], changes[c])
      /\ \A d \in Changes : d # c => changes'[d] = changes[d]
  <2>1. PICK x : x = changes[c]
    OBVIOUS
  <2>2. PICK y : y = [x EXCEPT !.at = "over"]
    OBVIOUS
  <2>3. y \in LiveChanges /\ y.kind = x.kind /\ y.key = x.key /\ y.at = "over"
    BY <1>3, <2>1, <2>2 DEF LiveChanges
  <2>4. changes' = [changes EXCEPT ![c] = y]
    BY <1>1, <2>1, <2>2
  <2>5. y # NoChange
    BY <2>3, ChangeIs
  <2>6. changes'[c] = y /\ changes' \in [Changes -> {NoChange} \cup LiveChanges]
        /\ \A d \in Changes : d # c => changes'[d] = changes[d]
    BY <1>2, <2>3, <2>4
  <2>7. Answered(y, x)
    BY <1>1, <1>3, <2>1, <2>3, <2>5 DEF Answered
  <2> QED BY <2>1, <2>6, <2>7
<1>6. ChangesMove
  BY <1>5 DEF ChangesMove
<1>7. Underway(c)
  BY <1>1 DEF Underway
<1>8. view.serial => \A d \in Changes : ~Underway(d)'
  <2>1. ~Underway(c)'
    BY <1>5 DEF Underway, Answered
  <2>2. \A d \in Changes : Underway(d)' => Underway(d)
    BY <1>6, MovesFit
  <2> QED BY <1>7, <2>1, <2>2 DEF AllFits
<1>9. CASE changes[c].kind = "patch"
  <2>1. /\ rows' = [i \in DOMAIN rows |->
                        IF rows[i].key = changes[c].key THEN [rows[i] EXCEPT !.has = @ \cup {c}]
                        ELSE rows[i]]
        /\ UNCHANGED <<reads, asked, loading, failed>>
    BY <1>9, Zenon DEF changeDone
  <2>2. DOMAIN rows = 1..Len(rows) /\ Len(rows) \in Nat
    BY <1>2
  <2>3. ASSUME NEW i \in 1..Len(rows)
        PROVE  /\ rows'[i] \in ShownPages /\ rows'[i].key = rows[i].key /\ rows[i].has \subseteq rows'[i].has
               /\ rows'[i].has \subseteq stored[rows[i].key]
               /\ rows[i].key = changes[c].key => c \in rows'[i].has
    <3>1. PICK x : x = rows[i]
      OBVIOUS
    <3>2. /\ x \in ShownPages /\ x.key \in Keys /\ x.has \in SUBSET Changes /\ x.has \subseteq stored[x.key]
      BY <1>2, <3>1, RowIs
    <3>3. CASE x.key = changes[c].key
      <4>1. rows'[i] = [x EXCEPT !.has = x.has \cup {c}]
        BY <2>1, <2>2, <3>1, <3>3
      <4>2. PICK h : h = x.has \cup {c}
        OBVIOUS
      <4>3. h \in SUBSET Changes /\ c \in h /\ x.has \subseteq h /\ h \subseteq stored[x.key]
        BY <1>4, <3>2, <3>3, <4>2
      <4>4. rows'[i] \in ShownPages /\ rows'[i].key = x.key /\ rows'[i].has = h
        BY <3>2, <4>1, <4>2, <4>3 DEF ShownPages
      <4> QED BY <3>1, <4>3, <4>4
    <3>4. CASE x.key # changes[c].key
      <4>1. rows'[i] = x
        BY <2>1, <2>2, <3>1, <3>4
      <4> QED BY <3>1, <3>2, <3>4, <4>1
    <3> QED BY <3>3, <3>4
  <2>4. rows' \in Seq(ShownPages) /\ Len(rows') = Len(rows)
    <3>1. rows' = [i \in 1..Len(rows) |-> rows'[i]]
      BY <2>1, <2>2
    <3>2. rows' \in [1..Len(rows) -> ShownPages]
      BY <2>3, <3>1
    <3>3. rows' \in Seq(ShownPages)
      BY <2>2, <3>2, SeqDef
    <3>4. DOMAIN rows' = 1..Len(rows)
      BY <3>2
    <3> QED BY <2>2, <3>3, <3>4
  <2>5. (rows' = <<>>) <=> (rows = <<>>)
    BY <1>2, <2>4, EmptySeq
  <2>6. Patched(view) \/ Tracked(view) => \A d \in Changes : changes'[d] # changes[d] =>
           /\ Tracked(view) => \A r \in Reads : ~reads[r].wanted
           /\ rows # <<>> /\ rows[1].key = changes[d].key => d \in rows'[1].has
    <3>1. rows # <<>> /\ rows[1].key = changes[c].key => c \in rows'[1].has
      BY <2>3, RowIs
    <3>2. Tracked(view) => \A r \in Reads : ~reads[r].wanted
      <4>1. Tracked(view) => Pinned(view)
        BY <1>4, <1>9 DEF Tracked, Reloading
      <4> QED BY <1>7, <4>1 DEF ReloadsAreShown
    <3> QED BY <1>5, <3>1, <3>2
  <2>7. excused' \in BOOLEAN /\ (excused => excused')
    BY <1>1, <1>2
  <2> HIDE DEF ViewsInv
  <2> QED BY <1>1, <1>6, <2>1, <2>3, <2>4, <2>5, <2>6, <2>7, OverKeepsInv
<1>10. CASE changes[c].kind # "patch" /\ view.calls
  <2>1. Ask("call", changes[c].key, reads) /\ UNCHANGED <<rows, loading, failed>>
    BY <1>10, Zenon DEF changeDone
  <2>2. loading' \in BOOLEAN /\ (loading => loading') /\ loading' = loading
    BY <1>2, <2>1
  <2> HIDE DEF ViewsInv
  <2> QED BY <1>1, <1>3, <1>4, <1>6, <1>10, <2>1, <2>2, AskedKeepsInv
<1>11. CASE changes[c].kind # "patch" /\ ~view.calls
  <2>1. ReadRows(key) /\ rows' = IF view.hides THEN <<>> ELSE rows
    BY <1>11, Zenon DEF changeDone
  <2>2. "reload" \in view.edits
    BY <1>3, <1>4, <1>11
  <2>3. ~view.keeps /\ ~Patched(view) /\ ~Pinned(view) /\ Closed \notin view.keys
    BY <2>2 DEF ViewIsSound, Patched, Pinned
  <2>4. key \in Keys
    BY <1>2, <2>3, KeyIs
  <2>5. CASE view.late = "refused" /\ loading
    <3>1. UNCHANGED <<reads, asked, loading, failed>>
      BY <2>1, <2>5, Zenon DEF ReadRows
    <3>2. rows' = rows
      BY <2>1, <2>5 DEF ViewIsSound
    <3>3. ~Tracked(view)
      BY <2>5, <2>3 DEF Tracked, Reloading, Queued
    <3>4. \A i \in 1..Len(rows) : /\ rows'[i].key = rows[i].key /\ rows[i].has \subseteq rows'[i].has
                                  /\ rows'[i].has \subseteq stored[rows[i].key]
      BY <3>2, RowIs
    <3>5. excused' \in BOOLEAN /\ (excused => excused') /\ rows' \in Seq(ShownPages)
      BY <1>1, <1>2, <3>2
    <3> HIDE DEF ViewsInv
    <3> QED BY <1>1, <1>6, <2>3, <3>1, <3>2, <3>3, <3>4, <3>5, OverKeepsInv
  <2>6. CASE ~(view.late = "refused" /\ loading)
    <3>1. reads \in [Reads -> {NoRead} \cup LiveReads]
      BY DEF ViewsTypeOK
    <3>2. PICK r \in Reads : Started(r, key) /\ loading' = TRUE /\ failed' = FALSE
      BY <2>1, <2>4, <2>6, <3>1, StartIs
    <3>3. key' = IF view.moves = "with" THEN key ELSE key
      BY <1>1
    <3>4. Tracked(view) /\ Queued(view) => /\ \A q \in Reads : ~reads[q].wanted
                                           /\ \A d \in Changes : ~Underway(d)'
      <4>1. Queued(view) => view.serial
        BY DEF Queued
      <4> QED BY <1>7, <1>8, <4>1 DEF ReloadsAreShown
    <3> HIDE DEF ViewsInv
    <3> QED BY <1>1, <1>2, <1>6, <2>1, <2>3, <2>4, <2>6, <3>2, <3>3, <3>4, StartsKeepInv
  <2> QED BY <2>5, <2>6
<1> QED BY <1>9, <1>10, <1>11

\* A change that failed.
LEMMA ChangeFailsKeepsInv ==
  ASSUME ViewsInv, ViewIsSound(view), NEW c \in Changes, changeFails(c)
  PROVE  ViewsInv'
<1>1. /\ changes[c].at = "failed" /\ excused' = TRUE /\ changes' = [changes EXCEPT ![c].at = "over"]
      /\ view' = view /\ key' = key /\ rows' = rows /\ loading' = loading /\ failed' = failed /\ reads' = reads
      /\ stored' = stored
  BY DEF changeFails
<1>2. changes \in [Changes -> {NoChange} \cup LiveChanges] /\ rows \in Seq(ShownPages)
  BY DEF ViewsInv, ViewsTypeOK
<1>3. changes[c] # NoChange /\ changes[c] \in LiveChanges
  <2>1. changes[c] # NoChange
    BY <1>1, <1>2, ChangeIs
  <2> QED BY <1>2, <2>1, ChangeIs
<1>4. ChangesMove
  <2>1. PICK x : x = changes[c]
    OBVIOUS
  <2>2. PICK y : y = [x EXCEPT !.at = "over"]
    OBVIOUS
  <2>3. y \in LiveChanges /\ y.kind = x.kind /\ y.key = x.key /\ y.at = "over"
    BY <1>3, <2>1, <2>2 DEF LiveChanges
  <2>4. changes' = [changes EXCEPT ![c] = y]
    BY <1>1, <2>1, <2>2
  <2>5. y # NoChange
    BY <2>3, ChangeIs
  <2>6. changes'[c] = y /\ changes' \in [Changes -> {NoChange} \cup LiveChanges]
        /\ \A d \in Changes : d # c => changes'[d] = changes[d]
    BY <1>2, <2>3, <2>4
  <2>7. Answered(y, x)
    BY <1>1, <1>3, <2>1, <2>3, <2>5 DEF Answered
  <2> QED BY <2>1, <2>6, <2>7 DEF ChangesMove
<1>5. \A i \in 1..Len(rows) : /\ rows'[i].key = rows[i].key /\ rows[i].has \subseteq rows'[i].has
                              /\ rows'[i].has \subseteq stored[rows[i].key]
  BY <1>1, RowIs DEF ViewsInv
<1>6. rows' \in Seq(ShownPages) /\ excused' \in BOOLEAN /\ excused'
  BY <1>1, <1>2
<1> QED BY <1>1, <1>4, <1>5, <1>6, OverKeepsInv

\* A dialog is closed.
LEMMA CloseKeepsInv ==
  ASSUME ViewsInv, ViewIsSound(view), close
  PROVE  ViewsInv'
<1> USE DEF ViewsInv
<1>1. /\ Closed \in view.keys /\ (view.locks => ChangesInFlight = {}) /\ key' = Closed /\ reads' = Overtaken
      /\ view' = view /\ rows' = rows /\ loading' = loading /\ failed' = failed /\ changes' = changes
      /\ stored' = stored /\ excused' = excused
  BY DEF close
<1>2. reads \in [Reads -> {NoRead} \cup LiveReads]
  BY DEF ViewsTypeOK
<1>3. /\ reads' \in [Reads -> {NoRead} \cup LiveReads]
      /\ \A q \in Reads : /\ Same(reads'[q], reads[q])
                          /\ reads'[q].wanted => reads[q].wanted /\ ~Discards(reads[q])
      /\ view.late # "discarded" => reads' = reads
  BY <1>1, <1>2, OvertakenIs
<1>4. \A q \in Reads :
         /\ reads'[q] = NoRead <=> reads[q] = NoRead
         /\ reads'[q].kind = reads[q].kind /\ reads'[q].key = reads[q].key
         /\ reads'[q].has = reads[q].has /\ reads'[q].at = reads[q].at
         /\ reads'[q].wanted => reads[q].wanted /\ ~Discards(reads[q])
  BY <1>3 DEF Same
<1>5. view.late = "discarded" => \A q \in Reads : ~WantsRows(q)'
  BY <1>4 DEF WantsRows, Discards
<1>6. view.late = "discarded" /\ view.more # "any" /\ ~view.calls => \A q \in Reads : ~reads'[q].wanted
  <2>1. view.late = "discarded" /\ view.more # "any" /\ ~view.calls
          => \A q \in Reads : reads[q].wanted => Discards(reads[q])
    <3>1. view.more \in {"none", "any", "read"}
      BY DEF ViewIsSound
    <3> QED BY <3>1, WantedIs DEF Discards
  <2> QED BY <1>4, <2>1
<1>7. ViewsTypeOK'
  BY <1>1, <1>3 DEF ViewsTypeOK
<1>8. AllFits'
  BY <1>1, <1>4 DEF AllFits, Underway
<1>9. LoadingEnds'
  <2>1. CASE view.late = "refused"
    <3>1. reads' = reads
      BY <1>3, <2>1
    <3> QED BY <1>1, <2>1, <3>1 DEF LoadingEnds, RowsComing, WantsRows
  <2> QED BY <1>1, <2>1 DEF LoadingEnds
<1>10. RowsAppear'
  BY <1>1 DEF RowsAppear
<1>11. KeptOnce' /\ OneByOne'
  BY <1>1, <1>4 DEF KeptOnce, OneByOne
<1>12. KeysAgree'
  <2>1. view.moves # "with"
    BY <1>1 DEF ViewIsSound
  <2> QED BY <1>1, <1>6, <2>1 DEF KeysAgree, Exact
<1>13. PatchesAreShown'
  <2>1. ~Patched(view)
    BY <1>1 DEF Patched, Closed
  <2> QED BY <1>1, <2>1 DEF PatchesAreShown
<1>14. ReloadsAreShown'
  <2> SUFFICES ASSUME Tracked(view)
               PROVE  ReloadsAreShown'
    BY <1>1 DEF ReloadsAreShown
  <2>1. Pinned(view)
    BY <1>1 DEF Tracked, Reloading
  <2>2. \A q \in Reads : ~reads'[q].wanted /\ ~WantsRows(q)'
    BY <1>5, <1>6, <2>1 DEF Pinned
  <2>3. \A c \in Changes : ~Underway(c)'
    BY <1>1, <2>1 DEF Pinned, ChangesInFlight, Underway
  <2>4. rows # <<>> => rows[1].key # key'
    BY <1>1, RowIs
  <2> QED BY <1>1, <2>2, <2>3, <2>4 DEF ReloadsAreShown
<1> QED BY <1>7, <1>8, <1>9, <1>10, <1>11, <1>12, <1>13, <1>14

\* The server answers a read with what it has.
LEMMA ServeReadKeepsInv ==
  ASSUME ViewsInv, ViewIsSound(view), NEW r \in Reads, serveRead(r)
  PROVE  ViewsInv'
<1> USE DEF ViewsInv
<1>1. /\ reads[r].at = "sent"
      /\ view' = view /\ key' = key /\ rows' = rows /\ loading' = loading /\ failed' = failed /\ changes' = changes
      /\ stored' = stored /\ excused' = excused
  BY DEF serveRead
<1>2. PICK at \in {"done", "failed"} :
        reads' = [reads EXCEPT ![r].at = at, ![r].has = stored[reads[r].key]]
  BY DEF serveRead
<1>3. reads \in [Reads -> {NoRead} \cup LiveReads] /\ stored \in [Keys -> SUBSET Changes]
  BY DEF ViewsTypeOK
<1>4. reads[r] # NoRead /\ reads[r] \in LiveReads /\ reads[r].key \in Keys
  <2>1. reads[r] # NoRead
    BY <1>1, <1>3, ReadIs
  <2> QED BY <2>1, WantedIs
<1>5. PICK h \in SUBSET Changes : h = stored[reads[r].key]
  BY <1>3, <1>4
<1>6. /\ reads' \in [Reads -> {NoRead} \cup LiveReads]
      /\ reads'[r] # NoRead /\ reads'[r].kind = reads[r].kind /\ reads'[r].key = reads[r].key
      /\ reads'[r].has = h /\ reads'[r].wanted = reads[r].wanted
      /\ \A q \in Reads : q # r => reads'[q] = reads[q]
  <2>1. PICK x : x = reads[r]
    OBVIOUS
  <2>2. PICK y : y = [x EXCEPT !.at = at]
    OBVIOUS
  <2>3. PICK z : z = [y EXCEPT !.has = h]
    OBVIOUS
  <2>4. /\ y \in LiveReads /\ y.kind = x.kind /\ y.key = x.key /\ y.wanted = x.wanted
    BY <1>4, <2>1, <2>2 DEF LiveReads
  <2>5. /\ z \in LiveReads /\ z.kind = y.kind /\ z.key = y.key /\ z.wanted = y.wanted /\ z.has = h
    BY <1>5, <2>3, <2>4 DEF LiveReads
  <2>6. reads' = [reads EXCEPT ![r] = z]
    <3>1. reads' = [reads EXCEPT ![r] = [[x EXCEPT !.at = at] EXCEPT !.has = h]]
      BY <1>2, <1>5, <1>3, <2>1
    <3> QED BY <3>1, <2>2, <2>3
  <2>7. z # NoRead
    BY <2>5, ReadIs
  <2>8. reads' \in [Reads -> {NoRead} \cup LiveReads] /\ reads'[r] = z /\ \A q \in Reads : q # r => reads'[q] = reads[q]
    BY <1>3, <2>5, <2>6
  <2> QED BY <2>1, <2>4, <2>5, <2>7, <2>8
<1>7. \A q \in Reads : /\ reads'[q] = NoRead <=> reads[q] = NoRead
                       /\ reads'[q].kind = reads[q].kind /\ reads'[q].key = reads[q].key
                       /\ reads'[q].wanted = reads[q].wanted
  BY <1>4, <1>6
<1>8. (RowsComing <=> RowsComing') /\ \A q \in Reads : WantsRows(q)' <=> WantsRows(q)
  <2>1. \A q \in Reads : WantsRows(q)' <=> WantsRows(q)
    BY <1>7 DEF WantsRows
  <2> QED BY <2>1 DEF RowsComing
<1>9. ViewsTypeOK'
  BY <1>1, <1>6 DEF ViewsTypeOK
<1>10. AllFits'
  <2>1. \A q \in Reads : reads'[q] # NoRead =>
       /\ reads'[q].key \in view.keys /\ reads'[q].has \subseteq stored[reads'[q].key]
       /\ reads'[q].kind = "page" => view.more # "none"
       /\ reads'[q].kind = "call" => view.calls
    BY <1>5, <1>6, <1>7 DEF AllFits
  <2> QED BY <1>1, <2>1 DEF AllFits, Underway
<1>11. LoadingEnds' /\ RowsAppear'
  BY <1>1, <1>7, <1>8 DEF LoadingEnds, RowsAppear
<1>12. KeptOnce' /\ OneByOne' /\ KeysAgree'
  BY <1>1, <1>7, <1>8 DEF KeptOnce, OneByOne, KeysAgree
<1>13. PatchesAreShown'
  BY <1>1, <1>7 DEF PatchesAreShown
<1>14. ReloadsAreShown'
  <2> SUFFICES ASSUME Tracked(view)
               PROVE  ReloadsAreShown'
    BY <1>1 DEF ReloadsAreShown
  <2>1. \A q \in Reads : WantsRows(q)' /\ reads'[q].at = "done" /\ ~excused =>
         \A c \in stored[reads'[q].key] : changes[c].at = "over" => c \in reads'[q].has
    <3> SUFFICES ASSUME NEW q \in Reads, WantsRows(q)', reads'[q].at = "done", ~excused,
                        NEW c \in stored[reads'[q].key], changes[c].at = "over"
                 PROVE  c \in reads'[q].has
      OBVIOUS
    <3>1. CASE q = r
      BY <1>5, <1>6, <3>1
    <3>2. CASE q # r
      BY <1>6, <1>8, <3>2 DEF ReloadsAreShown
    <3> QED BY <3>1, <3>2
  <2> QED BY <1>1, <1>7, <1>8, <2>1 DEF ReloadsAreShown, Underway
<1> QED BY <1>9, <1>10, <1>11, <1>12, <1>13, <1>14

\* A read is answered and its place is free.
Freed(r) ==
  /\ reads' \in [Reads -> {NoRead} \cup LiveReads]
  /\ reads'[r] = NoRead /\ reads'[r].kind = "none" /\ ~reads'[r].wanted
  /\ \A q \in Reads : q # r => reads'[q] = reads[q]
\* What is left of the reads then.
LEMMA FreedIs ==
  ASSUME ViewsTypeOK, AllFits, NEW r \in Reads, reads' = [reads EXCEPT ![r] = NoRead]
  PROVE  /\ Freed(r)
         /\ \A q \in Reads : (WantsRows(q)' => WantsRows(q) /\ q # r) /\ (WantsRows(q) /\ q # r => WantsRows(q)')
         /\ RowsComing => RowsComing' \/ WantsRows(r)
         /\ RowsComing' => RowsComing
<1>1. reads \in [Reads -> {NoRead} \cup LiveReads]
  BY DEF ViewsTypeOK
<1>2. reads' \in [Reads -> {NoRead} \cup LiveReads] /\ reads'[r] = NoRead /\ \A q \in Reads : q # r => reads'[q] = reads[q]
  BY <1>1
<1>3. Freed(r)
  BY <1>2, ReadIs DEF Freed
<1>4. \A q \in Reads : (WantsRows(q)' => WantsRows(q) /\ q # r) /\ (WantsRows(q) /\ q # r => WantsRows(q)')
  BY <1>3 DEF WantsRows, Freed
<1> QED BY <1>3, <1>4 DEF RowsComing

\* A read nobody wants any more.
LEMMA DropKeepsInv ==
  ASSUME ViewsInv, ViewIsSound(view), NEW r \in Reads, ~reads[r].wanted, reads' = [reads EXCEPT ![r] = NoRead],
         view' = view, key' = key, rows' = rows, loading' = loading, failed' = failed, changes' = changes,
         stored' = stored, excused' = excused
  PROVE  ViewsInv'
<1> USE DEF ViewsInv
<1>1. /\ reads' \in [Reads -> {NoRead} \cup LiveReads]
      /\ reads'[r] = NoRead /\ reads'[r].kind = "none" /\ ~reads'[r].wanted
      /\ \A q \in Reads : q # r => reads'[q] = reads[q]
  BY FreedIs DEF Freed
<1>2. (RowsComing <=> RowsComing') /\ \A q \in Reads : WantsRows(q)' <=> WantsRows(q)
  BY FreedIs DEF WantsRows
<1>3. ViewsTypeOK'
  BY <1>1 DEF ViewsTypeOK
<1>4. AllFits'
  <2>1. \A q \in Reads : reads'[q] # NoRead =>
       /\ reads'[q].key \in view.keys /\ reads'[q].has \subseteq stored[reads'[q].key]
       /\ reads'[q].kind = "page" => view.more # "none"
       /\ reads'[q].kind = "call" => view.calls
    BY <1>1 DEF AllFits
  <2> QED BY <2>1 DEF AllFits, Underway
<1>5. LoadingEnds' /\ RowsAppear'
  BY <1>1, <1>2 DEF LoadingEnds, RowsAppear
<1>6. KeptOnce' /\ OneByOne' /\ KeysAgree'
  BY <1>1, <1>2 DEF KeptOnce, OneByOne, KeysAgree
<1>7. PatchesAreShown'
  BY <1>1 DEF PatchesAreShown
<1>8. ReloadsAreShown'
  <2> SUFFICES ASSUME Tracked(view)
               PROVE  ReloadsAreShown'
    BY DEF ReloadsAreShown
  <2>1. /\ Pinned(view) => \A c \in Changes : Underway(c)' => key # Closed
        /\ Queued(view) \/ Pinned(view) => \A q \in Reads : reads'[q].wanted =>
             /\ loading /\ \A p \in Reads : reads'[p].wanted => p = q
             /\ \A c \in Changes : ~Underway(c)'
    BY <1>1 DEF ReloadsAreShown, Underway
  <2>2. \A q \in Reads : WantsRows(q)' /\ reads'[q].at = "done" /\ ~excused =>
           \A c \in stored[reads'[q].key] : changes[c].at = "over" => c \in reads'[q].has
    BY <1>1, <1>2 DEF ReloadsAreShown, WantsRows
  <2> QED BY <1>2, <2>1, <2>2 DEF ReloadsAreShown
<1> QED BY <1>3, <1>4, <1>5, <1>6, <1>7, <1>8

\* A read that failed.
LEMMA ReadFailsKeepsInv ==
  ASSUME ViewsInv, ViewIsSound(view), NEW r \in Reads, readFails(r)
  PROVE  ViewsInv'
<1>1. /\ reads[r].at = "failed" /\ reads' = [reads EXCEPT ![r] = NoRead]
      /\ view' = view /\ key' = key /\ rows' = rows /\ changes' = changes /\ stored' = stored /\ excused' = excused
  BY DEF readFails
<1>2. CASE ~reads[r].wanted
  <2>1. failed' = failed /\ loading' = loading
    BY <1>2, Zenon DEF readFails
  <2> QED BY <1>1, <1>2, <2>1, DropKeepsInv
<1>3. CASE reads[r].wanted
  <2> USE DEF ViewsInv
  <2>1. /\ failed' = TRUE
        /\ loading' = IF reads[r].kind = "rows" \/ view.late = "refused" THEN FALSE ELSE loading
    BY <1>3, Zenon DEF readFails
  <2>2. loading' \in BOOLEAN /\ (loading' => loading /\ reads[r].kind # "rows" /\ view.late # "refused")
    <3>1. loading \in BOOLEAN
      BY DEF ViewsTypeOK
    <3> QED BY <2>1, <3>1
  <2>3. /\ reads' \in [Reads -> {NoRead} \cup LiveReads]
        /\ reads'[r] = NoRead /\ reads'[r].kind = "none" /\ ~reads'[r].wanted
        /\ \A q \in Reads : q # r => reads'[q] = reads[q]
    BY <1>1, FreedIs DEF Freed
  <2>4. /\ \A q \in Reads : WantsRows(q)' => WantsRows(q) /\ q # r
        /\ reads[r].kind # "rows" => (RowsComing => RowsComing')
    BY <1>1, FreedIs DEF WantsRows
  <2>5. ViewsTypeOK'
    BY <1>1, <2>1, <2>2, <2>3 DEF ViewsTypeOK
  <2>6. AllFits'
    <3>1. \A q \in Reads : reads'[q] # NoRead =>
         /\ reads'[q].key \in view.keys /\ reads'[q].has \subseteq stored[reads'[q].key]
         /\ reads'[q].kind = "page" => view.more # "none"
         /\ reads'[q].kind = "call" => view.calls
      BY <2>3 DEF AllFits
    <3> QED BY <1>1, <3>1 DEF AllFits, Underway
  <2>7. LoadingEnds'
    BY <1>1, <2>2, <2>4 DEF LoadingEnds
  <2>8. RowsAppear'
    BY <1>1, <2>1 DEF RowsAppear
  <2>9. KeptOnce'
    BY <1>1, <1>3, <2>3 DEF KeptOnce
  <2>10. OneByOne'
    BY <1>1, <1>3, <2>3 DEF OneByOne
  <2>11. KeysAgree'
    BY <1>1, <2>1, <2>3 DEF KeysAgree
  <2>12. PatchesAreShown'
    BY <1>1, <2>3 DEF PatchesAreShown
  <2>13. ReloadsAreShown'
    BY <1>1, <1>3, <2>1, <2>3, <2>4 DEF ReloadsAreShown, Underway
  <2> QED BY <2>5, <2>6, <2>7, <2>8, <2>9, <2>10, <2>11, <2>12, <2>13
<1> QED BY <1>2, <1>3

\* A read that is shown.
LEMMA ReadDoneKeepsInv ==
  ASSUME ViewsInv, ViewIsSound(view), NEW r \in Reads, readDone(r)
  PROVE  ViewsInv'
<1>1. /\ reads[r].at = "done" /\ reads' = [reads EXCEPT ![r] = NoRead]
      /\ view' = view /\ failed' = failed /\ changes' = changes /\ stored' = stored /\ excused' = excused
  BY DEF readDone
<1>2. CASE ~reads[r].wanted
  <2>1. key' = key /\ rows' = rows /\ loading' = loading
    BY <1>2, Zenon DEF readDone
  <2> QED BY <1>1, <1>2, <2>1, DropKeepsInv
<1>3. CASE reads[r].wanted
  <2> USE DEF ViewsInv
  <2>1. PICK p : p = Page(reads[r].key, reads[r].has)
    OBVIOUS
  <2>2. /\ rows' = IF reads[r].kind # "page" THEN <<p>> ELSE IF rows = <<>> THEN rows ELSE Append(rows, p)
        /\ key' = IF reads[r].kind # "page" /\ view.moves = "with" THEN reads[r].key ELSE key
        /\ loading' = IF reads[r].kind = "rows" \/ view.late = "refused" THEN FALSE ELSE loading
    BY <1>3, <2>1, Zenon DEF readDone
  <2>3. loading' \in BOOLEAN /\ (loading' => loading /\ reads[r].kind # "rows" /\ view.late # "refused")
        /\ (reads[r].kind = "rows" => ~loading')
    <3>1. loading \in BOOLEAN
      BY DEF ViewsTypeOK
    <3> QED BY <2>2, <3>1
  <2>4. /\ reads' \in [Reads -> {NoRead} \cup LiveReads]
        /\ reads'[r] = NoRead /\ reads'[r].kind = "none" /\ ~reads'[r].wanted
        /\ \A q \in Reads : q # r => reads'[q] = reads[q]
    BY <1>1, FreedIs DEF Freed
  <2>5. /\ \A q \in Reads : WantsRows(q)' => WantsRows(q) /\ q # r
        /\ reads[r].kind # "rows" => (RowsComing => RowsComing')
        /\ reads[r].kind # "rows" => (RowsComing' <=> RowsComing)
    BY <1>1, FreedIs DEF WantsRows
  <2>6. /\ reads[r] # NoRead /\ reads[r].key \in Keys /\ reads[r].key \in view.keys
        /\ reads[r].has \in SUBSET Changes /\ reads[r].kind \in {"rows", "page", "call"}
        /\ reads[r].kind = "page" => view.more # "none"
        /\ reads[r].kind = "call" => view.calls
    BY <1>3, WantedIs
  <2>7. p \in ShownPages /\ p.key = reads[r].key /\ p.has = reads[r].has
    BY <2>1, <2>6 DEF Page, ShownPages
  <2>8. p.key \in view.keys /\ p.has \subseteq stored[p.key]
    BY <2>6, <2>7 DEF AllFits
  <2>9. rows \in Seq(ShownPages) /\ key \in view.keys
    BY DEF ViewsTypeOK
  <2>10. \A q \in Reads : reads'[q] # NoRead =>
         /\ reads'[q].key \in view.keys /\ reads'[q].has \subseteq stored[reads'[q].key]
         /\ reads'[q].kind = "page" => view.more # "none"
         /\ reads'[q].kind = "call" => view.calls
    BY <2>4 DEF AllFits
  <2>11. OneByOne'
    BY <1>1, <1>3, <2>4 DEF OneByOne
  <2>12. CASE reads[r].kind = "page"
    <3>1. /\ key' = key /\ (rows = <<>> => rows' = rows) /\ (rows # <<>> => rows' = Append(rows, p))
      BY <2>2, <2>12
    <3>2. rows' \in Seq(ShownPages) /\ (rows' = <<>> <=> rows = <<>>)
      <4>1. rows # <<>> => rows' \in Seq(ShownPages) /\ rows' # <<>>
        BY <2>7, <2>9, <3>1, AppendProperties
      <4> QED BY <2>9, <3>1, <4>1
    <3>3. \A i \in 1..Len(rows') : (i \in 1..Len(rows) /\ rows'[i] = rows[i]) \/ rows'[i] = p
      <4>1. rows # <<>> => Len(rows') = Len(rows) + 1 /\ Len(rows) \in Nat
        BY <2>7, <2>9, <3>1
      <4>2. rows # <<>> => \A i \in 1..(Len(rows) + 1) : rows'[i] = IF i = Len(rows) + 1 THEN p ELSE rows[i]
        BY <2>7, <2>9, <3>1
      <4>3. \A i \in 1..(Len(rows) + 1) : Len(rows) \in Nat => i \in 1..Len(rows) \/ i = Len(rows) + 1
        OBVIOUS
      <4>4. CASE rows # <<>>
        BY <4>1, <4>2, <4>3, <4>4
      <4>5. CASE rows = <<>>
        BY <3>1, <4>5
      <4> QED BY <4>4, <4>5
    <3>4. rows # <<>> => rows'[1] = rows[1]
      <4>1. rows # <<>> => 1 \in 1..Len(rows)
        BY RowIs
      <4> QED BY <2>7, <2>9, <3>1, <4>1
    <3>5. ~view.keeps /\ ~Queued(view) /\ ~Pinned(view)
      BY <2>6, <2>12 DEF ViewIsSound, Queued, Pinned
    <3>6. ViewsTypeOK'
      BY <1>1, <2>3, <2>4, <3>1, <3>2 DEF ViewsTypeOK
    <3>7. AllFits'
      <4>1. \A i \in 1..Len(rows') : rows'[i].key \in view.keys /\ rows'[i].has \subseteq stored[rows'[i].key]
        BY <2>8, <3>3 DEF AllFits
      <4> QED BY <1>1, <2>10, <4>1 DEF AllFits, Underway
    <3>8. LoadingEnds'
      BY <1>1, <2>3, <2>5, <2>12, <3>1 DEF LoadingEnds
    <3>9. RowsAppear'
      BY <1>1, <2>5, <2>12, <3>1, <3>2 DEF RowsAppear
    <3>10. KeptOnce'
      BY <1>1, <3>5 DEF KeptOnce
    <3>11. KeysAgree'
      <4>1. view.moves = "with" =>
              /\ \A i \in 1..Len(rows') : rows'[i].key = key
              /\ \A q \in Reads : reads'[q].wanted /\ reads'[q].kind = "page" => reads'[q].key = key
        BY <1>3, <2>4, <2>7, <2>12, <3>3 DEF KeysAgree
      <4>2. Exact(view) =>
              /\ \A q \in Reads : reads'[q].wanted => reads'[q].key = key
              /\ key # Closed => failed \/ RowsComing' \/ \A i \in 1..Len(rows') : rows'[i].key = key
        BY <1>3, <2>4, <2>5, <2>7, <2>12, <3>3 DEF KeysAgree
      <4> QED BY <1>1, <3>1, <4>1, <4>2 DEF KeysAgree
    <3>12. PatchesAreShown'
      BY <1>1, <2>4, <3>2, <3>4 DEF PatchesAreShown
    <3>13. ReloadsAreShown'
      BY <1>1, <2>4, <2>5, <2>12, <3>1, <3>2, <3>4, <3>5 DEF ReloadsAreShown, Underway
    <3> QED BY <2>11, <3>6, <3>7, <3>8, <3>9, <3>10, <3>11, <3>12, <3>13
  <2>13. CASE reads[r].kind # "page"
    <3>1. rows' = <<p>> /\ key' = IF view.moves = "with" THEN reads[r].key ELSE key
      BY <2>2, <2>13
    <3>2. rows' \in Seq(ShownPages) /\ rows' # <<>> /\ Len(rows') = 1 /\ rows'[1] = p
      BY <2>7, <3>1
    <3>3. \A i \in 1..Len(rows') : rows'[i] = p
      BY <3>2
    <3>4. ~Patched(view)
      <4>1. reads[r].kind \notin {"none", "page"}
        BY <2>6, <2>13
      <4> QED BY <4>1 DEF PatchesAreShown
    <3>5. ViewsTypeOK'
      <4>1. key' \in view.keys
        BY <2>6, <2>9, <3>1
      <4> QED BY <1>1, <2>3, <2>4, <3>2, <4>1 DEF ViewsTypeOK
    <3>6. AllFits'
      <4>1. \A i \in 1..Len(rows') : rows'[i].key \in view.keys /\ rows'[i].has \subseteq stored[rows'[i].key]
        BY <2>8, <3>3
      <4> QED BY <1>1, <2>10, <4>1 DEF AllFits, Underway
    <3>7. LoadingEnds'
      <4>1. loading' => loading /\ view.late # "refused" /\ (RowsComing => RowsComing')
        BY <2>3, <2>5
      <4>2. view.late # "refused" => key' = key
        BY <3>1 DEF ViewIsSound
      <4> QED BY <1>1, <4>1, <4>2 DEF LoadingEnds
    <3>8. RowsAppear'
      BY <1>1, <3>2 DEF RowsAppear
    <3>9. KeptOnce'
      <4>1. view.keeps => /\ \A q \in Reads : ~reads'[q].wanted
                          /\ ~failed /\ ~loading'
        BY <1>3, <2>3, <2>4 DEF KeptOnce
      <4> QED BY <1>1, <4>1 DEF KeptOnce
    <3>10. KeysAgree'
      <4>1. ASSUME view.moves = "with"
            PROVE  /\ \A i \in 1..Len(rows') : rows'[i].key = key'
                   /\ \A q \in Reads : reads'[q].wanted /\ reads'[q].kind = "page" => reads'[q].key = key'
        <5>1. key' = p.key
          BY <2>7, <3>1, <4>1
        <5>2. \A q \in Reads : ~(reads'[q].wanted /\ reads'[q].kind = "page")
          <6>1. CASE view.calls
            <7>1. view.more = "none"
              BY <4>1, <6>1 DEF ViewIsSound
            <7>2. \A q \in Reads : reads[q].kind # "page"
              BY <7>1, WantedIs
            <7> QED BY <2>4, <7>2
          <6>2. CASE ~view.calls
            <7>1. view.late = "refused"
              BY <4>1 DEF ViewIsSound
            <7> QED BY <1>3, <2>4, <6>2, <7>1 DEF OneByOne
          <6> QED BY <6>1, <6>2
        <5> QED BY <3>3, <5>1, <5>2
      <4>2. ASSUME Exact(view)
            PROVE  /\ \A i \in 1..Len(rows') : rows'[i].key = key'
                   /\ \A q \in Reads : reads'[q].wanted => reads'[q].key = key'
        <5>1. key' = key
          BY <3>1, <4>2 DEF ViewIsSound, Exact
        <5> QED BY <1>3, <2>4, <2>7, <3>3, <4>2, <5>1 DEF KeysAgree
      <4> QED BY <1>1, <4>1, <4>2 DEF KeysAgree
    <3>11. PatchesAreShown'
      BY <1>1, <3>4 DEF PatchesAreShown
    <3>12. ReloadsAreShown'
      <4> SUFFICES ASSUME Tracked(view)
                   PROVE  ReloadsAreShown'
        BY <1>1 DEF ReloadsAreShown
      <4>1. key' = key /\ ~view.calls
        BY <3>1 DEF Tracked, Reloading, Pinned
      <4>2. WantsRows(r)
        BY <1>3, <2>6, <2>13, <4>1 DEF WantsRows
      <4>3. ~excused /\ p.key = key => \A c \in stored[key] : changes[c].at = "over" => c \in p.has
        BY <1>1, <2>7, <4>2 DEF ReloadsAreShown
      <4>4. Queued(view) \/ Pinned(view) => \A q \in Reads : ~reads'[q].wanted
        BY <1>3, <2>4 DEF ReloadsAreShown
      <4>5. Pinned(view) => \A c \in Changes : Underway(c)' => key' # Closed
        BY <1>1, <4>1 DEF ReloadsAreShown, Underway
      <4>6. \A q \in Reads : WantsRows(q)' /\ reads'[q].at = "done" /\ ~excused =>
              \A c \in stored[reads'[q].key] : changes[c].at = "over" => c \in reads'[q].has
        BY <2>4, <2>5 DEF ReloadsAreShown
      <4> QED BY <1>1, <3>2, <4>1, <4>3, <4>4, <4>5, <4>6 DEF ReloadsAreShown
    <3> QED BY <2>11, <3>5, <3>6, <3>7, <3>8, <3>9, <3>10, <3>11, <3>12
  <2> QED BY <2>12, <2>13
<1> QED BY <1>2, <1>3

\* A change is made.
LEMMA ChangeKeepsInv ==
  ASSUME ViewsInv, ViewIsSound(view), NEW c \in Changes, change(c)
  PROVE  ViewsInv'
<1> USE DEF ViewsInv
<1>1. /\ key # Closed /\ changes[c] = NoChange
      /\ ~view.early => ~(view.hides /\ loading) /\ rows # <<>>
      /\ view.serial => ChangesInFlight = {}
      /\ view' = view /\ key' = key /\ rows' = rows /\ loading' = loading /\ failed' = failed
      /\ reads' = reads /\ stored' = stored /\ excused' = excused
  BY DEF change
<1>2. PICK kind \in view.edits : changes' = [changes EXCEPT ![c] = [kind |-> kind, key |-> key, at |-> "sent"]]
  BY DEF change
<1>3. changes \in [Changes -> {NoChange} \cup LiveChanges] /\ key \in view.keys /\ stored \in [Keys -> SUBSET Changes]
  BY DEF ViewsTypeOK
<1>4. key \in Keys /\ kind \in {"patch", "reload"}
  <2>1. view.edits \subseteq {"patch", "reload"}
    BY DEF ViewIsSound
  <2> QED BY <1>1, <1>3, <2>1, KeyIs
<1>5. PICK x : x = [kind |-> kind, key |-> key, at |-> "sent"]
  OBVIOUS
<1>6. x \in LiveChanges /\ x.kind = kind /\ x.key = key /\ x.at = "sent"
  BY <1>4, <1>5 DEF LiveChanges
<1>7. x # NoChange
  BY <1>6, ChangeIs
<1>8. /\ changes' \in [Changes -> {NoChange} \cup LiveChanges] /\ changes'[c] = x
      /\ \A d \in Changes : d # c => changes'[d] = changes[d]
  BY <1>2, <1>3, <1>5, <1>6
<1>9. \A j \in Keys : c \notin stored[j]
  BY <1>1 DEF AllFits
<1>10. ViewsTypeOK'
  BY <1>1, <1>8 DEF ViewsTypeOK
<1>11. AllFits'
  <2>1. \A d \in Changes : changes'[d] # NoChange => changes'[d].key \in view.keys /\ changes'[d].kind \in view.edits
    BY <1>3, <1>6, <1>8 DEF AllFits
  <2>2. \A d \in Changes : changes'[d].at = "done" => d \in stored[changes'[d].key]
    BY <1>6, <1>8 DEF AllFits
  <2>3. \A j \in Keys : \A d \in stored[j] : changes'[d] # NoChange /\ changes'[d].key = j /\ changes'[d].at # "sent"
    BY <1>3, <1>8, <1>9 DEF AllFits
  <2>4. view.serial => \A d, e \in Changes : Underway(d)' /\ Underway(e)' => d = e
    <3>1. view.serial => \A d \in Changes : ~Underway(d)
      BY <1>1 DEF ChangesInFlight, Underway
    <3>2. \A d \in Changes : Underway(d)' => Underway(d) \/ d = c
      BY <1>8 DEF Underway
    <3> QED BY <3>1, <3>2
  <2> QED BY <1>1, <2>1, <2>2, <2>3, <2>4 DEF AllFits, Underway
<1>12. (RowsComing <=> RowsComing') /\ \A q \in Reads : WantsRows(q)' <=> WantsRows(q)
  BY <1>1 DEF RowsComing, WantsRows
<1>13. LoadingEnds' /\ RowsAppear' /\ KeptOnce' /\ OneByOne' /\ KeysAgree'
  BY <1>1, <1>12 DEF LoadingEnds, RowsAppear, KeptOnce, OneByOne, KeysAgree
<1>14. PatchesAreShown'
  <2>1. \A d \in stored[1] : d \in Changes /\ d # c
    BY <1>3, <1>9 DEF Keys
  <2> QED BY <1>1, <1>8, <2>1 DEF PatchesAreShown
<1>15. ReloadsAreShown'
  <2> SUFFICES ASSUME Tracked(view)
               PROVE  ReloadsAreShown'
    BY <1>1 DEF ReloadsAreShown
  <2>1. Queued(view) \/ Pinned(view) => \A q \in Reads : ~reads[q].wanted
    BY <1>1 DEF ReloadsAreShown, Queued, Pinned
  <2>2. \A d \in Changes : changes'[d].at = "over" => changes[d].at = "over"
    BY <1>6, <1>8
  <2>3. \A q \in Reads : WantsRows(q) /\ reads[q].at = "done" /\ ~excused =>
         \A d \in stored[reads[q].key] : changes'[d].at = "over" => d \in reads[q].has
    <3>1. \A q \in Reads : WantsRows(q) => reads[q].key \in Keys
      BY WantedIs DEF WantsRows
    <3> QED BY <1>3, <2>2, <3>1 DEF ReloadsAreShown
  <2>4. ~excused /\ ~failed /\ ~RowsComing /\ rows # <<>> /\ rows[1].key = key =>
         \A d \in stored[key] : changes'[d].at = "over" => d \in rows[1].has
    BY <1>3, <1>4, <2>2 DEF ReloadsAreShown
  <2> QED BY <1>1, <1>12, <2>1, <2>3, <2>4 DEF ReloadsAreShown
<1> QED BY <1>10, <1>11, <1>13, <1>14, <1>15

\* The server makes a change, or not.
LEMMA ServeChangeKeepsInv ==
  ASSUME ViewsInv, ViewIsSound(view), NEW c \in Changes, serveChange(c)
  PROVE  ViewsInv'
<1> USE DEF ViewsInv
<1>1. /\ changes[c].at = "sent"
      /\ view' = view /\ key' = key /\ rows' = rows /\ loading' = loading /\ failed' = failed
      /\ reads' = reads /\ excused' = excused
  BY DEF serveChange
<1>2. PICK made \in BOOLEAN, at \in {"done", "failed"} :
        /\ at = "done" => made
        /\ changes' = [changes EXCEPT ![c].at = at]
        /\ stored' = IF made THEN [stored EXCEPT ![changes[c].key] = @ \cup {c}] ELSE stored
  BY DEF serveChange
<1>3. changes \in [Changes -> {NoChange} \cup LiveChanges] /\ key \in view.keys /\ stored \in [Keys -> SUBSET Changes]
  BY DEF ViewsTypeOK
<1>4. changes[c] # NoChange /\ changes[c] \in LiveChanges /\ changes[c].key \in Keys
  <2>1. changes[c] # NoChange
    BY <1>1, <1>3, ChangeIs
  <2> QED BY <1>3, <2>1, ChangeIs
<1>5. PICK k \in Keys : k = changes[c].key
  BY <1>4
<1>6. PICK y : y = [changes[c] EXCEPT !.at = at]
  OBVIOUS
<1>7. y \in LiveChanges /\ y.kind = changes[c].kind /\ y.key = k /\ y.at = at
  <2>1. PICK x : x = changes[c]
    OBVIOUS
  <2>2. y = [x EXCEPT !.at = at]
    BY <1>6, <2>1
  <2>3. y \in LiveChanges /\ y.kind = x.kind /\ y.key = x.key /\ y.at = at
    BY <1>4, <2>1, <2>2 DEF LiveChanges
  <2> QED BY <1>5, <2>1, <2>3
<1>8. y # NoChange
  BY <1>7, ChangeIs
<1>9. /\ changes' \in [Changes -> {NoChange} \cup LiveChanges] /\ changes'[c] = y
      /\ \A d \in Changes : d # c => changes'[d] = changes[d]
  <2>1. changes' = [changes EXCEPT ![c] = y]
    BY <1>2, <1>6
  <2> QED BY <1>3, <1>7, <2>1
<1>10. /\ stored' \in [Keys -> SUBSET Changes]
       /\ \A j \in Keys : stored[j] \subseteq stored'[j] /\ (\A d \in stored'[j] : d \in stored[j] \/ (d = c /\ j = k))
       /\ made => c \in stored'[k]
  <2>1. CASE made
    <3>1. stored' = [stored EXCEPT ![k] = stored[k] \cup {c}]
      BY <1>2, <1>5, <2>1
    <3> QED BY <1>3, <1>5, <2>1, <3>1
  <2>2. CASE ~made
    BY <1>2, <1>3, <2>2
  <2> QED BY <2>1, <2>2
<1>11. ViewsTypeOK'
  BY <1>1, <1>9, <1>10 DEF ViewsTypeOK
<1>12. AllFits'
  <2>1. \A i \in 1..Len(rows) : rows[i].key \in view.keys /\ rows[i].has \subseteq stored'[rows[i].key]
    BY <1>10, RowIs
  <2>2. \A q \in Reads : reads[q] # NoRead => /\ reads[q].key \in view.keys /\ reads[q].key \in Keys
                                              /\ reads[q].has \subseteq stored[reads[q].key]
                                              /\ reads[q].kind = "page" => view.more # "none"
                                              /\ reads[q].kind = "call" => view.calls
    BY WantedIs DEF AllFits
  <2>3. \A q \in Reads : reads[q] # NoRead => reads[q].has \subseteq stored'[reads[q].key]
    BY <1>10, <2>2
  <2>4. \A d \in Changes : changes'[d] # NoChange => changes'[d].key \in view.keys /\ changes'[d].kind \in view.edits
    BY <1>4, <1>5, <1>7, <1>9 DEF AllFits
  <2>5. \A d \in Changes : changes'[d].at = "done" => d \in stored'[changes'[d].key]
    <3> SUFFICES ASSUME NEW d \in Changes, changes'[d].at = "done"
                 PROVE  d \in stored'[changes'[d].key]
      OBVIOUS
    <3>1. CASE d = c
      BY <1>2, <1>7, <1>9, <1>10, <3>1
    <3>2. CASE d # c
      <4>1. changes[d].at = "done" /\ changes'[d] = changes[d]
        BY <1>9, <3>2
      <4>2. changes[d].key \in Keys
        <5>1. changes[d] # NoChange
          BY <1>3, <4>1, ChangeIs
        <5> QED BY <1>3, <5>1, ChangeIs
      <4> QED BY <1>10, <4>1, <4>2 DEF AllFits
    <3> QED BY <3>1, <3>2
  <2>6. \A j \in Keys : \A d \in stored'[j] : changes'[d] # NoChange /\ changes'[d].key = j /\ changes'[d].at # "sent"
    <3> SUFFICES ASSUME NEW j \in Keys, NEW d \in stored'[j]
                 PROVE  changes'[d] # NoChange /\ changes'[d].key = j /\ changes'[d].at # "sent"
      OBVIOUS
    <3>1. d \in Changes
      BY <1>10
    <3>2. CASE d = c
      <4>1. j = k
        BY <1>1, <1>5, <1>10, <3>2 DEF AllFits
      <4> QED BY <1>7, <1>8, <1>9, <3>2, <4>1
    <3>3. CASE d # c
      BY <1>9, <1>10, <3>1, <3>3 DEF AllFits
    <3> QED BY <3>2, <3>3
  <2>7. view.serial => \A d, e \in Changes : Underway(d)' /\ Underway(e)' => d = e
    <3>1. Underway(c)
      BY <1>1 DEF Underway
    <3>2. \A d \in Changes : Underway(d)' => Underway(d)
      BY <1>9, <3>1 DEF Underway
    <3> QED BY <3>2 DEF AllFits
  <2> QED BY <1>1, <2>1, <2>2, <2>3, <2>4, <2>5, <2>6, <2>7 DEF AllFits, Underway
<1>13. (RowsComing <=> RowsComing') /\ \A q \in Reads : WantsRows(q)' <=> WantsRows(q)
  BY <1>1 DEF RowsComing, WantsRows
<1>14. LoadingEnds' /\ RowsAppear' /\ KeptOnce' /\ OneByOne' /\ KeysAgree'
  BY <1>1, <1>13 DEF LoadingEnds, RowsAppear, KeptOnce, OneByOne, KeysAgree
<1>15. \A d \in Changes : d = c => changes'[d].at \in {"done", "failed"} /\ changes'[d].at # "over"
  BY <1>7, <1>9
<1>16. PatchesAreShown'
  <2>1. 1 \in Keys
    BY DEF Keys
  <2>2. \A d \in stored'[1] : d \in Changes /\ (d \in stored[1] \/ d = c)
    BY <1>10, <2>1
  <2>3. Patched(view) => \A d \in stored'[1] : changes'[d].at \in {"done", "failed"} \/ excused \/ d \in rows[1].has
    BY <1>9, <1>15, <2>2 DEF PatchesAreShown
  <2> QED BY <1>1, <2>3 DEF PatchesAreShown
<1>17. ReloadsAreShown'
  <2> SUFFICES ASSUME Tracked(view)
               PROVE  ReloadsAreShown'
    BY <1>1 DEF ReloadsAreShown
  <2>1. \A d \in Changes : Underway(d)' => Underway(d)
    BY <1>1, <1>9 DEF Underway
  <2>2. \A j \in Keys : \A d \in stored'[j] : changes'[d].at = "over" => d \in stored[j] /\ changes[d].at = "over"
    BY <1>9, <1>10, <1>15
  <2>3. \A q \in Reads : WantsRows(q) /\ reads[q].at = "done" /\ ~excused =>
         \A d \in stored'[reads[q].key] : changes'[d].at = "over" => d \in reads[q].has
    <3>1. \A q \in Reads : WantsRows(q) => reads[q].key \in Keys
      BY WantedIs DEF WantsRows
    <3> QED BY <2>2, <3>1 DEF ReloadsAreShown
  <2>4. ~excused /\ ~failed /\ ~RowsComing /\ rows # <<>> /\ rows[1].key = key =>
         \A d \in stored'[key] : changes'[d].at = "over" => d \in rows[1].has
    <3>1. rows # <<>> => rows[1].key \in Keys
      BY RowIs
    <3> QED BY <2>2, <3>1 DEF ReloadsAreShown
  <2>5. Queued(view) \/ Pinned(view) => \A r \in Reads : reads[r].wanted =>
         /\ loading /\ \A q \in Reads : reads[q].wanted => q = r
         /\ \A d \in Changes : ~Underway(d)'
    BY <2>1 DEF ReloadsAreShown
  <2>6. Pinned(view) => \A d \in Changes : Underway(d)' => key # Closed
    BY <2>1 DEF ReloadsAreShown
  <2> QED BY <1>1, <1>13, <2>3, <2>4, <2>5, <2>6 DEF ReloadsAreShown
<1> QED BY <1>11, <1>12, <1>14, <1>16, <1>17

\* A view that has just opened.
LEMMA ViewsInitInv ==
  ASSUME ViewsInit, ViewIsSound(view)
  PROVE  ViewsInv
<1>1. /\ view \in Views /\ key = (IF Closed \in view.keys THEN Closed ELSE 1)
      /\ rows = (IF key = Closed THEN <<>> ELSE <<Page(1, {})>>)
      /\ loading = FALSE /\ failed = FALSE /\ reads = [r \in Reads |-> NoRead]
      /\ changes = [c \in Changes |-> NoChange] /\ stored = [k \in Keys |-> {}] /\ excused = FALSE
  BY DEF ViewsInit
<1>2. 1 \in view.keys /\ 1 \in Keys /\ 1 # Closed
  BY DEF ViewIsSound, Keys, Closed
<1>3. key \in view.keys /\ (key = Closed \/ key = 1) /\ (Closed \in view.keys <=> key = Closed)
  BY <1>1, <1>2
<1>4. PICK p : p = Page(1, {})
  OBVIOUS
<1>5. p \in ShownPages /\ p.key = 1 /\ p.has = {}
  BY <1>2, <1>4 DEF Page, ShownPages
<1>6. rows = (IF key = Closed THEN <<>> ELSE <<p>>)
  BY <1>1, <1>4
<1>7. rows \in Seq(ShownPages) /\ (key # Closed => rows # <<>>) /\ \A i \in 1..Len(rows) : rows[i] = p /\ key # Closed
  BY <1>5, <1>6
<1>8. /\ NoRead.kind = "none" /\ NoRead.at = "none" /\ NoRead.wanted = FALSE
      /\ NoChange.kind = "none" /\ NoChange.at = "none"
  BY DEF NoRead, NoChange
<1>9. /\ \A r \in Reads : reads[r] = NoRead
      /\ \A c \in Changes : changes[c] = NoChange
      /\ \A k \in Keys : stored[k] = {}
  BY <1>1
<1>10. \A c \in Changes : ~Underway(c)
  BY <1>8, <1>9 DEF Underway
<1>11. /\ reads \in [Reads -> {NoRead} \cup LiveReads]
       /\ changes \in [Changes -> {NoChange} \cup LiveChanges]
       /\ stored \in [Keys -> SUBSET Changes]
  BY <1>1
<1>12. ViewsTypeOK
  BY <1>1, <1>3, <1>7, <1>11 DEF ViewsTypeOK
<1>13. AllFits
  BY <1>2, <1>5, <1>7, <1>8, <1>9, <1>10 DEF AllFits
<1>14. LoadingEnds /\ RowsAppear /\ KeptOnce /\ OneByOne
  BY <1>1, <1>3, <1>7, <1>8, <1>9 DEF LoadingEnds, RowsAppear, KeptOnce, OneByOne
<1>15. KeysAgree
  BY <1>3, <1>5, <1>7, <1>8, <1>9 DEF KeysAgree
<1>16. PatchesAreShown
  <2>1. Patched(view) => key # Closed
    BY <1>2, <1>3 DEF Patched
  <2> QED BY <1>2, <1>7, <1>8, <1>9, <2>1 DEF PatchesAreShown
<1>17. ReloadsAreShown
  <2>1. \A r \in Reads : ~reads[r].wanted /\ ~WantsRows(r)
    BY <1>8, <1>9 DEF WantsRows
  <2>2. rows # <<>> /\ rows[1].key = key => stored[key] = {}
    <3>1. rows # <<>> => key = 1
      BY <1>3, <1>6
    <3> QED BY <1>2, <1>9, <3>1
  <2> QED BY <1>10, <2>1, <2>2 DEF ReloadsAreShown
<1> QED BY <1>12, <1>13, <1>14, <1>15, <1>16, <1>17 DEF ViewsInv

\* A step that changes nothing.
LEMMA ViewsStutterInv ==
  ASSUME ViewsInv, UNCHANGED viewVars
  PROVE  ViewsInv'
BY DEF viewVars, ViewsInv, ViewsTypeOK, AllFits, LoadingEnds, RowsAppear, KeptOnce, OneByOne, KeysAgree,
       PatchesAreShown, ReloadsAreShown, WantsRows, RowsComing, Underway

\* The invariant, and the view that never changes.
LEMMA ViewsInvHolds == ViewsSpec => []ViewsInv
<1>1. ViewsInit => ViewsInv
  <2> SUFFICES ASSUME ViewsInit PROVE ViewsInv
    OBVIOUS
  <2>1. ViewIsSound(view)
    <3>1. view \in Views
      BY DEF ViewsInit
    <3> QED BY <3>1, ViewsAreSound
  <2> QED BY <2>1, ViewsInitInv
<1>2. ViewsInv /\ [ViewsNext]_viewVars => ViewsInv'
  <2> SUFFICES ASSUME ViewsInv, [ViewsNext]_viewVars PROVE ViewsInv'
    OBVIOUS
  <2>1. ViewIsSound(view)
    <3>1. view \in Views
      BY DEF ViewsInv, ViewsTypeOK
    <3> QED BY <3>1, ViewsAreSound
  <2>2. ASSUME NEW k \in Keys, goTo(k) PROVE ViewsInv'
    BY <2>1, <2>2, GoToKeepsInv
  <2>3. CASE close
    BY <2>1, <2>3, CloseKeepsInv
  <2>4. CASE readAgain
    BY <2>1, <2>4, ReadAgainKeepsInv, ViewsStutterInv
  <2>5. CASE loadMore
    BY <2>1, <2>5, LoadMoreKeepsInv
  <2>6. ASSUME NEW r \in Reads, serveRead(r) \/ readDone(r) \/ readFails(r) PROVE ViewsInv'
    BY <2>1, <2>6, ServeReadKeepsInv, ReadDoneKeepsInv, ReadFailsKeepsInv
  <2>7. ASSUME NEW c \in Changes, change(c) \/ serveChange(c) \/ changeDone(c) \/ changeFails(c) PROVE ViewsInv'
    BY <2>1, <2>7, ChangeKeepsInv, ServeChangeKeepsInv, ChangeDoneKeepsInv, ChangeFailsKeepsInv
  <2>8. CASE UNCHANGED viewVars
    BY <2>8, ViewsStutterInv
  <2> QED BY <2>2, <2>3, <2>4, <2>5, <2>6, <2>7, <2>8 DEF ViewsNext
<1> QED BY <1>1, <1>2, PTL DEF ViewsSpec

\* Nothing is under way: what is shown is of the key, and of the server.
LEMMA InvIsCurrent ==
  ASSUME ViewsInv, ViewIsSound(view)
  PROVE  ViewsAreCurrent
<1> USE DEF ViewsInv
<1> SUFFICES ASSUME AtRest
             PROVE  /\ ~loading /\ rows # <<>>
                    /\ view.name \notin Mixed => \A i \in DOMAIN rows : rows[i].key = key
                    /\ view.name \notin Outdated => (rows[1].key = key => rows[1].has = stored[key])
  BY DEF ViewsAreCurrent
<1>1. /\ ~failed /\ ~excused /\ key # Closed
      /\ \A r \in Reads : reads[r] = NoRead
      /\ \A c \in Changes : ~Underway(c)
  BY DEF AtRest, ReadsInFlight, ChangesInFlight, Underway
<1>2. \A r \in Reads : ~reads[r].wanted
  BY <1>1, WantedIs
<1>3. ~RowsComing
  BY <1>2 DEF RowsComing, WantsRows
<1>4. ~loading /\ rows # <<>>
  BY <1>1, <1>2, <1>3 DEF LoadingEnds, RowsAppear
<1>5. key \in view.keys /\ key \in Keys /\ rows \in Seq(ShownPages) /\ DOMAIN rows = 1..Len(rows)
  <2>1. key \in view.keys /\ rows \in Seq(ShownPages)
    BY DEF ViewsTypeOK
  <2> QED BY <1>1, <2>1, KeyIs
<1>6. view.name \notin Mixed => \A i \in DOMAIN rows : rows[i].key = key
  <2> SUFFICES ASSUME view.name \notin Mixed, NEW i \in 1..Len(rows) PROVE rows[i].key = key
    BY <1>5
  <2>1. CASE 2 \notin view.keys
    BY <1>1, <1>5, <2>1, KeyIs, RowIs
  <2>2. CASE view.moves = "with"
    BY <2>2 DEF KeysAgree
  <2>3. CASE Exact(view)
    BY <1>1, <1>3, <2>3 DEF KeysAgree
  <2> QED BY <2>1, <2>2, <2>3 DEF ViewIsSound
<1>7. ASSUME view.name \notin Outdated, rows[1].key = key
      PROVE  rows[1].has = stored[key]
  <2>1. rows[1].has \subseteq stored[key]
    BY <1>4, <1>7, RowIs
  <2>2. ASSUME NEW c \in stored[key]
        PROVE  c \in rows[1].has
    <3>1. c \in Changes /\ changes[c] # NoChange /\ changes[c].at # "sent" /\ changes[c].kind \in view.edits
      BY <1>5 DEF AllFits, ViewsTypeOK
    <3>2. changes[c].at = "over"
      <4>1. changes[c] \in LiveChanges
        BY <3>1 DEF ViewsTypeOK
      <4>2. changes[c].at \in {"sent", "done", "failed", "over"}
        BY <4>1, ChangeIs
      <4> QED BY <1>1, <3>1, <4>2 DEF Underway
    <3>3. CASE Patched(view)
      <4>1. key = 1
        BY <1>5, <3>3 DEF Patched
      <4> QED BY <1>1, <3>2, <3>3, <4>1 DEF PatchesAreShown
    <3>4. CASE Tracked(view)
      BY <1>1, <1>3, <1>4, <1>7, <3>2, <3>4 DEF ReloadsAreShown
    <3>5. view.edits # {}
      BY <3>1
    <3> QED BY <1>7, <3>3, <3>4, <3>5 DEF ViewIsSound
  <2> QED BY <2>1, <2>2
<1> QED BY <1>4, <1>6, <1>7

\* For any numbers of reads, changes and requests, and for each of the 37 views:
\* once all its requests are answered and none failed, a view is not loading, it
\* shows rows, of the key it is at unless it is one of the Mixed views, and with
\* every change made there unless it is one of the Outdated ones.
THEOREM ViewsAreAlwaysCurrent == ViewsSpec => []ViewsAreCurrent
<1>1. ViewsInv => ViewsAreCurrent
  <2> SUFFICES ASSUME ViewsInv PROVE ViewsAreCurrent
    OBVIOUS
  <2>1. view \in Views
    BY DEF ViewsInv, ViewsTypeOK
  <2> QED BY <2>1, ViewsAreSound, InvIsCurrent
<1> QED BY <1>1, ViewsInvHolds, PTL
===============================================================================
