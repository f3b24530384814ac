-------------------------- MODULE WebSession_proofs --------------------------
(* Theorems about signing in, for any number of handlers in flight, of        *)
(* sessions, of clicks and of steps of other actors, and for any accounts.    *)
EXTENDS WebSession, TLAPS

Session == 0 .. MaxSessions
Context == [ready : BOOLEAN, boot : BOOLEAN, me : Me \cup {None}]
Call == [op : Op \cup {None}, at : CallAt, val : {"none", "csrf", "error", "ok", "mfa", "boot"},
         me : Me \cup {None}, tried : BOOLEAN, sent : Session, tok : Session,
         here : BOOLEAN, n : {0, 1}]

(* The request is still to be carried out, or was refused before it was. *)
Pending(c) == c.at \in {"post", "csrfme", "csrfmed"} \/ (c.at = "posted" /\ c.val = "csrf")
CallOK(c) == c \in Call /\ (c = Idle \/ c.op \in Op) /\ (Pending(c) => c.n = 0)

HubOK == /\ boot \in BOOLEAN /\ imp \in BOOLEAN /\ sess \in Session /\ made \in Session
         /\ chal \in Session /\ acct \in [own : Account, target : Account]
PageOK == /\ auth \in Context /\ path \in Path /\ busy \in BOOLEAN /\ stored \in Session
          /\ panel \in {None, "secret", "codes"}
CallsOK == calls \in [Slot -> Call] /\ \A s \in Slot : CallOK(calls[s])
CountsOK == env \in 0 .. MaxEnv /\ clicks \in 0 .. MaxClicks
IInv == HubOK /\ PageOK /\ cached \in Session /\ CallsOK /\ CountsOK

(* The accounts of an instance are accounts. *)
AccountsOK == Accounts \subseteq Account /\ Targets \subseteq Account
-----------------------------------------------------------------------------
(* The pages *)

(* A default route that a profile may have is one of its tabs, and so is the *)
(* page that replaces it.                                                    *)
LEMMA HomeIsOffered == \A m : Home(m) \in NavOffered(m) /\ Home(m) \in Path
  BY DEF Home, AllowedRoutes, NavOffered, HasOrg, IsInstanceAdmin, Path, AppPage

LEMMA ContinuationIsPage == \A m : Continuation(m) \in Path
  BY HomeIsOffered DEF Continuation, BlockPath, Path, AppPage

LEMMA RedirectIsPage ==
    ASSUME NEW p \in Path, NEW a, NEW ch
    PROVE  Redirect(p, a, ch) \in Path
PROOF
<1>1. Gate(p, a) \in Path
  <2>1. BlockPath(a.me) # None => BlockPath(a.me) \in Path
    BY DEF BlockPath, Path
  <2>. QED BY <2>1, HomeIsOffered DEF Gate, Path
<1>2. /\ SignInRedirect(p, a) \in Path /\ VerifyRedirect(a, ch) \in Path
      /\ ChangePasswordRedirect(a) \in Path /\ EnrollRedirect(a) \in Path
      /\ AgreementRedirect(a) \in Path
  BY ContinuationIsPage
  DEF SignInRedirect, VerifyRedirect, ChangePasswordRedirect, EnrollRedirect, AgreementRedirect,
      Path, AppPage
<1>. QED BY <1>1, <1>2 DEF Redirect, Path

LEMMA LinkIsPage == \A p, m : Links(p, m) \subseteq Path
  BY ContinuationIsPage
  DEF Links, LandingLinks, SsoPage, ForgotPage, NavOffered, Path, AppPage

(* An idle handler is on no page. *)
LEMMA IdleLeft ==
    ASSUME NEW k, NEW c, k = Idle, c = [k EXCEPT !.here = FALSE]
    PROVE  c = Idle
  BY DEF Idle

(* What a page that is shown or kept leaves behind. *)
LEMMA ShowKeeps ==
    ASSUME PageOK, NEW p \in Path, NEW a \in Context, NEW ch \in Session, NEW b \in BOOLEAN,
           NEW cs \in [Slot -> Call], \A s \in Slot : CallOK(cs[s]), Show(p, a, ch, b, cs)
    PROVE  PageOK' /\ CallsOK'
PROOF
<1>1. PageOK'
  BY DEF Show, PageOK
<1>2. CASE p = path
  BY <1>1, <1>2 DEF Show, CallsOK
<1>3. CASE p # path
  <2>1. calls' = [s \in Slot |-> [cs[s] EXCEPT !.here = FALSE]]
    BY <1>3 DEF Show
  <2>2. ASSUME NEW s \in Slot PROVE CallOK([cs[s] EXCEPT !.here = FALSE])
    <3>. DEFINE c == [cs[s] EXCEPT !.here = FALSE]
    <3>1. cs[s] \in Call /\ CallOK(cs[s])
      OBVIOUS
    <3>2. /\ c \in Call /\ c.op = cs[s].op /\ c.at = cs[s].at /\ c.val = cs[s].val /\ c.n = cs[s].n
      BY <3>1 DEF Call
    <3>3. c = [cs[s] EXCEPT !.here = FALSE]
      OBVIOUS
    <3>. HIDE DEF c
    <3>4. CallOK(c)
      BY <3>1, <3>2, <3>3, IdleLeft DEF CallOK, Pending
    <3>. QED BY <3>4 DEF c
  <2>3. \A s \in Slot : [cs[s] EXCEPT !.here = FALSE] \in Call
    BY <2>2 DEF CallOK
  <2>. QED BY <1>1, <2>1, <2>2, <2>3 DEF CallsOK
<1>. QED BY <1>2, <1>3
-----------------------------------------------------------------------------
(* The handlers *)

LEMMA IdleOK == CallOK(Idle) /\ Idle \in Call
PROOF
<1>1. Idle \in Call
  BY BoundsAssumption DEF Idle, Call, CallAt, Session
<1>. QED BY <1>1 DEF CallOK, Pending, Idle

(* One handler moves on. *)
LEMMA OneCall ==
    ASSUME CallsOK, NEW s \in Slot, NEW c, CallOK(c)
    PROVE  /\ [calls EXCEPT ![s] = c] \in [Slot -> Call]
           /\ \A x \in Slot : CallOK([calls EXCEPT ![s] = c][x])
  BY DEF CallsOK, CallOK

LEMMA EndOK ==
    ASSUME CallsOK, NEW s \in Slot
    PROVE  End(s) \in [Slot -> Call] /\ \A x \in Slot : CallOK(End(s)[x])
  BY IdleOK, OneCall DEF End

LEMMA StayKeeps ==
    ASSUME IInv, NEW s \in Slot, Show(path, auth, stored, Unbusy(s), End(s))
    PROVE  PageOK' /\ CallsOK'
PROOF
<1>1. Unbusy(s) \in BOOLEAN
  BY DEF Unbusy, IInv, PageOK, CallsOK, Call
<1>. QED BY <1>1, EndOK, ShowKeeps DEF IInv, PageOK

LEMMA SnapshotTyped == ASSUME HubOK PROVE Snapshot \in Me /\ MeAnswer \in Me \cup {None}
PROOF
<1>1. Eff \in Account
  BY DEF HubOK, Eff, Who
<1>. QED BY <1>1 DEF HubOK, Snapshot, MeAnswer, Me, Account
-----------------------------------------------------------------------------
(* The hub *)

LEMMA EffectiveAccount ==
    ASSUME HubOK
    PROVE  /\ Eff \in Account
           /\ \A a \in Account : [acct EXCEPT ![Who] = a] \in [own : Account, target : Account]
PROOF
<1>1. CASE imp
  BY <1>1 DEF HubOK, Eff, Who
<1>2. CASE ~imp
  BY <1>2 DEF HubOK, Eff, Who
<1>. QED BY <1>1, <1>2

LEMMA SessionMade ==
    ASSUME HubOK, NewSession
    PROVE  sess' \in Session /\ made' \in Session
  BY BoundsAssumption DEF HubOK, NewSession, Session

(* Whatever a handler of the hub does, accounts and sessions keep their types. *)
LEMMA HandlerTyped ==
    ASSUME HubOK, AccountsOK, NEW op \in Op, Handler(op)
    PROVE  HubOK'
PROOF
<1>. DEFINE Both == [own : Account, target : Account]
<1>1. ASSUME NEW r \in Role PROVE Fresh(r) \in Account
  BY DEF Fresh, Account, Role, Route
<1>2. \A r \in Role : [acct EXCEPT !.own = Fresh(r)] \in Both
  BY <1>1 DEF HubOK
<1>3. \A a \in Account : [acct EXCEPT !.target = a] \in Both
  BY DEF HubOK
<1>4. CASE SetupHandler \/ SignupHandler
  BY <1>2, <1>4, SessionMade DEF SetupHandler, SignupHandler, HubOK, Role
<1>5. CASE LoginHandler \/ VerifyHandler \/ MfaStartHandler \/ LogoutHandler
  <2>1. 0 \in Session
    BY BoundsAssumption DEF Session
  <2>2. /\ UNCHANGED <<boot, acct>> /\ imp' \in {imp, FALSE} /\ chal' \in {chal, 0}
        /\ NewSession \/ (sess' \in {sess, 0} /\ made' = made)
    BY <1>5 DEF LoginHandler, VerifyHandler, MfaStartHandler, LogoutHandler, hub
  <2>. QED BY <2>1, <2>2, SessionMade DEF HubOK
<1>6. CASE PasswordHandler \/ MfaConfirmHandler \/ AcceptHandler \/ PrefsHandler
  <2>1. /\ [Eff EXCEPT !.pw = FALSE] \in Account /\ [Eff EXCEPT !.mfa = TRUE] \in Account
        /\ [Eff EXCEPT !.agree = FALSE] \in Account
        /\ \A r \in AllowedRoutes(Snapshot) : [Eff EXCEPT !.route = r] \in Account
    BY EffectiveAccount DEF Account, AllowedRoutes, Route
  <2>2. acct' \in Both
    BY <1>6, <2>1, EffectiveAccount
    DEF PasswordHandler, MfaConfirmHandler, AcceptHandler, PrefsHandler, SetEff
  <2>3. UNCHANGED <<boot, imp, chal>> /\ (NewSession \/ UNCHANGED <<sess, made>>)
    BY <1>6 DEF PasswordHandler, MfaConfirmHandler, AcceptHandler, PrefsHandler
  <2>. QED BY <2>2, <2>3, SessionMade DEF HubOK
<1>7. CASE ImpersonateHandler \/ UnimpersonateHandler
  <2>1. Fresh("member") \in Account
    BY <1>1 DEF Role
  <2>2. acct' \in Both /\ imp' \in BOOLEAN /\ UNCHANGED <<boot, sess, made, chal>>
    BY <1>3, <1>7, <2>1 DEF ImpersonateHandler, UnimpersonateHandler, AccountsOK
  <2>. QED BY <2>2 DEF HubOK
<1>. QED BY <1>4, <1>5, <1>6, <1>7 DEF Handler

LEMMA AnswerKeeps ==
    ASSUME PageOK, CallsOK, NEW s \in Slot, NEW at \in CallAt,
           NEW val \in {"none", "csrf", "error", "ok", "mfa", "boot"},
           calls[s].op \in Op,
           calls[s].n = 0 \/ at = "statused" \/ (at = "posted" /\ val # "csrf"),
           Answer(s, at, val)
    PROVE  PageOK' /\ CallsOK' /\ UNCHANGED <<cached, env, clicks>>
PROOF
<1>. DEFINE a == [calls[s] EXCEPT !.at = at]
            c == [a EXCEPT !.val = val]
<1>1. a \in Call /\ a.op = calls[s].op /\ a.at = at /\ a.n = calls[s].n
  BY DEF CallsOK, Call
<1>2. calls' = [calls EXCEPT ![s] = c]
  BY DEF Answer, CallsOK
<1>. HIDE DEF a
<1>3. c \in Call /\ c.op = calls[s].op /\ c.at = at /\ c.val = val /\ c.n = calls[s].n
  BY <1>1 DEF Call
<1>. HIDE DEF c
<1>4. CallOK(c)
  BY <1>3 DEF CallOK, Pending
<1>5. CallsOK'
  BY <1>2, <1>4, OneCall DEF CallsOK
<1>. QED BY <1>5 DEF Answer, PageOK

LEMMA ServeKeeps ==
    ASSUME IInv, AccountsOK, NEW s \in Slot, Serve(s)
    PROVE  IInv'
PROOF
<1>1. calls[s] \in Call /\ CallOK(calls[s]) /\ calls[s].op \in Op /\ calls[s].at = "post" /\ calls[s].n = 0
  <2>1. calls[s].op # None /\ calls[s].at = "post"
    BY DEF Serve
  <2>. QED BY <2>1 DEF IInv, CallsOK, CallOK, Idle, Pending
<1>. DEFINE c == calls[s]
<1>2. CASE \E v \in {"csrf", "error"} : UNCHANGED hub /\ Answer(s, "posted", v)
  <2>1. PICK v \in {"csrf", "error"} : UNCHANGED hub /\ Answer(s, "posted", v)
    BY <1>2
  <2>2. PageOK' /\ CallsOK' /\ UNCHANGED <<cached, env, clicks>>
    BY <1>1, <2>1, AnswerKeeps DEF IInv, CallAt
  <2>. QED BY <2>1, <2>2 DEF IInv, HubOK, CountsOK, hub
<1>3. CASE ChallengeHandler /\ Answer(s, "posted", "mfa")
  <2>1. HubOK'
    BY <1>3, BoundsAssumption DEF ChallengeHandler, KeepSession, IInv, HubOK, Session
  <2>2. PageOK' /\ CallsOK' /\ UNCHANGED <<cached, env, clicks>>
    BY <1>1, <1>3, AnswerKeeps DEF IInv, CallAt
  <2>. QED BY <2>1, <2>2 DEF IInv, CountsOK
<1>4. CASE /\ Handler(c.op)
           /\ calls' = [calls EXCEPT ![s].at = "posted", ![s].n = @ + 1, ![s].tok = sess',
                           ![s].val = "ok", ![s].me = IF c.op = "prefs" THEN Snapshot' ELSE None]
           /\ UNCHANGED <<auth, path, busy, panel, stored, cached, env, clicks>>
  <2>1. HubOK'
    BY <1>1, <1>4, HandlerTyped DEF IInv
  <2>2. Snapshot' \in Me /\ sess' \in Session
    <3>1. Eff' \in Account
      BY <2>1 DEF HubOK, Eff, Who
    <3>. QED BY <2>1, <3>1 DEF HubOK, Snapshot, Me, Account
  <2>. DEFINE m == IF c.op = "prefs" THEN Snapshot' ELSE None
              k == c.n + 1
              a == [c EXCEPT !.at = "posted", !.n = k]
              d == [a EXCEPT !.tok = sess', !.val = "ok", !.me = m]
  <2>3. calls' = [calls EXCEPT ![s] = d]
    BY <1>4, Zenon
  <2>4. m \in Me \cup {None}
    BY <2>2
  <2>5. k \in {0, 1}
    BY <1>1
  <2>. HIDE DEF m, k
  <2>6. a \in Call /\ a.op = c.op /\ a.at = "posted"
    BY <1>1, <2>5 DEF Call, CallAt
  <2>. HIDE DEF a
  <2>7. d \in Call /\ d.op = c.op /\ d.at = "posted" /\ d.val = "ok"
    BY <2>2, <2>4, <2>6 DEF Call
  <2>. HIDE DEF d
  <2>8. CallOK(d)
    BY <1>1, <2>7 DEF CallOK, Pending
  <2>9. CallsOK'
    BY <2>3, <2>8, OneCall DEF IInv, CallsOK
  <2>. QED BY <1>4, <2>1, <2>9 DEF IInv, PageOK, CountsOK
<1>. QED BY <1>1, <1>2, <1>3, <1>4 DEF Serve

LEMMA AsksKeep ==
    ASSUME IInv, NEW s \in Slot, ServeStatus(s) \/ ServeMe(s)
    PROVE  IInv'
PROOF
<1>0. calls[s] \in Call /\ CallOK(calls[s]) /\ calls[s].op \in Op
  <2>1. calls[s].op # None
    BY DEF ServeStatus, ServeMe
  <2>. QED BY <2>1 DEF IInv, CallsOK, CallOK, Idle
<1>1. CASE ServeStatus(s)
  <2>1. UNCHANGED hub /\ \E v \in {"boot", "error"} : Answer(s, "statused", v)
    BY <1>1 DEF ServeStatus
  <2>2. PageOK' /\ CallsOK' /\ UNCHANGED <<cached, env, clicks>>
    BY <1>0, <2>1, AnswerKeeps DEF IInv, CallAt
  <2>. QED BY <2>1, <2>2 DEF IInv, HubOK, CountsOK, hub
<1>2. CASE ServeMe(s)
  <2>. DEFINE at == IF calls[s].at = "me" THEN "med" ELSE "csrfmed"
              d == [calls[s] EXCEPT !.at = at, !.me = MeAnswer, !.tok = sess]
  <2>1. calls' = [calls EXCEPT ![s] = d]
    BY <1>2, Zenon DEF ServeMe
  <2>2. MeAnswer \in Me \cup {None} /\ sess \in Session
    BY SnapshotTyped DEF IInv, HubOK
  <2>3. calls[s].at \in {"me", "csrfme"} /\ at \in CallAt
    BY <1>2 DEF ServeMe, CallAt
  <2>. HIDE DEF at
  <2>4. d \in Call /\ d.op = calls[s].op /\ d.at = at /\ d.val = calls[s].val /\ d.n = calls[s].n
    BY <1>0, <2>2, <2>3 DEF Call
  <2>. HIDE DEF d
  <2>5. Pending(d) => Pending(calls[s])
    BY <2>3, <2>4 DEF Pending, at
  <2>6. CallOK(d)
    BY <1>0, <2>4, <2>5 DEF CallOK
  <2>7. CallsOK'
    BY <2>1, <2>6, OneCall DEF IInv, CallsOK
  <2>. QED BY <1>2, <2>7 DEF ServeMe, IInv, HubOK, PageOK, CountsOK, hub
<1>. QED BY <1>1, <1>2
-----------------------------------------------------------------------------
(* The client *)

LEMMA StartOK ==
    ASSUME HubOK, cached \in Session, CallsOK, NEW s \in Slot, NEW op \in Op,
           NEW at \in {"post", "status"}
    PROVE  Start(s, op, at) \in [Slot -> Call] /\ \A x \in Slot : CallOK(Start(s, op, at)[x])
PROOF
<1>. DEFINE sent == IF op \in CsrfExempt THEN 0 ELSE Token
            a == [Idle EXCEPT !.op = op, !.at = at]
            c == [a EXCEPT !.here = TRUE, !.sent = sent]
<1>1. sent \in Session
  BY BoundsAssumption DEF HubOK, Token, Session
<1>2. Start(s, op, at) = [calls EXCEPT ![s] = c]
  BY Zenon DEF Start
<1>. HIDE DEF sent
<1>3. a \in Call /\ a.op = op /\ a.n = 0
  <2>1. Idle \in Call /\ Idle.n = 0 /\ at \in CallAt
    BY IdleOK DEF Idle, CallAt
  <2>. QED BY <2>1 DEF Call
<1>. HIDE DEF a
<1>4. c \in Call /\ c.op = op /\ c.n = 0
  BY <1>1, <1>3 DEF Call
<1>. HIDE DEF c
<1>5. CallOK(c)
  BY <1>4 DEF CallOK
<1>. QED BY <1>2, <1>5, OneCall

(* What the user does, and the redirects of the pages. *)
LEMMA UserKeeps ==
    ASSUME IInv, \/ Navigate \/ BackToLogin \/ \E p \in Path : Follow(p)
                 \/ \E s \in Slot, op \in Op : Submit(s, op) \/ Click(s, op)
    PROVE  IInv'
PROOF
<1>1. /\ auth \in Context /\ stored \in Session /\ 0 \in Session /\ path \in Path /\ busy \in BOOLEAN
      /\ calls \in [Slot -> Call] /\ \A s \in Slot : CallOK(calls[s])
      /\ PageOK /\ CallsOK /\ HubOK /\ cached \in Session
  BY BoundsAssumption DEF IInv, PageOK, CallsOK, Session
<1>2. ASSUME Clicked \/ UNCHANGED <<env, clicks>> PROVE CountsOK'
  BY <1>2, BoundsAssumption DEF Clicked, CountsOK, IInv
<1>3. CASE Navigate
  <2>1. PageOK' /\ CallsOK'
    BY <1>1, <1>3, RedirectIsPage, ShowKeeps DEF Navigate
  <2>. QED BY <1>2, <1>3, <2>1 DEF Navigate, IInv, HubOK, hub
<1>4. CASE BackToLogin
  <2>1. PageOK' /\ CallsOK'
    <3>1. "login" \in Path
      BY DEF Path
    <3>. QED BY <1>1, <1>4, <3>1, ShowKeeps DEF BackToLogin
  <2>. QED BY <1>2, <1>4, <2>1 DEF BackToLogin, IInv, HubOK, hub
<1>5. ASSUME NEW p \in Path, Follow(p) PROVE IInv'
  <2>1. PageOK' /\ CallsOK'
    BY <1>1, <1>5, ShowKeeps DEF Follow
  <2>. QED BY <1>2, <1>5, <2>1 DEF Follow, IInv, HubOK, hub
<1>6. ASSUME NEW s \in Slot, NEW op \in Op, Submit(s, op) \/ Click(s, op) PROVE IInv'
  <2>1. \E at \in {"post", "status"} : calls' = Start(s, op, at)
    BY <1>6 DEF Submit, Click
  <2>2. CallsOK'
    BY <1>1, <2>1, StartOK DEF CallsOK
  <2>3. UNCHANGED <<hub, auth, path, panel, stored, cached>> /\ busy' \in BOOLEAN
    BY <1>1, <1>6 DEF Submit, Click
  <2>4. CountsOK'
    BY <1>2, <1>6 DEF Submit, Click
  <2>. QED BY <2>2, <2>3, <2>4 DEF IInv, HubOK, PageOK, hub
<1>. QED BY <1>3, <1>4, <1>5, <1>6

(* A document load starts over with one handler, that of the context. *)
LEMMA LoadKeeps ==
    ASSUME NEW p \in Path, PageOK, Load(p)
    PROVE  PageOK' /\ cached' \in Session /\ CallsOK'
PROOF
<1>1. PICK s \in Slot : calls' = [[x \in Slot |-> Idle] EXCEPT
                                     ![s] = [Idle EXCEPT !.op = "boot", !.at = "status"]]
  BY DEF Load
<1>. DEFINE c == [Idle EXCEPT !.op = "boot", !.at = "status"]
<1>2. c \in Call /\ c.op = "boot" /\ c.n = 0
  <2>1. Idle \in Call /\ Idle.n = 0 /\ "boot" \in Op /\ "status" \in CallAt
    BY IdleOK DEF Idle, CallAt, Op
  <2>. QED BY <2>1 DEF Call
<1>. HIDE DEF c
<1>3. CallOK(c)
  BY <1>2 DEF CallOK, Op
<1>4. calls' = [[x \in Slot |-> Idle] EXCEPT ![s] = c]
  BY <1>1 DEF c
<1>5. CallsOK'
  BY <1>2, <1>3, <1>4, IdleOK DEF CallsOK
<1>6. PageOK'
  <2>1. /\ auth' = [ready |-> FALSE, boot |-> FALSE, me |-> None]
        /\ path' = p /\ busy' = FALSE /\ panel' = None /\ stored' = stored
    BY DEF Load
  <2>2. auth' \in Context
    BY <2>1 DEF Context
  <2>. QED BY <2>1, <2>2 DEF PageOK
<1>. QED BY <1>5, <1>6, BoundsAssumption DEF Load, Session

(* The handlers of api() and of the pages take their answers. *)
LEMMA RetryKeeps ==
    ASSUME IInv, NEW s \in Slot, calls[s].op # None, RetryCsrf(s) \/ Resend(s)
    PROVE  IInv'
PROOF
<1>1. calls[s] \in Call /\ CallOK(calls[s]) /\ 0 \in Session
  BY BoundsAssumption DEF IInv, CallsOK, Session
<1>2. calls[s].op \in Op /\ calls[s].n = 0
  BY <1>1 DEF RetryCsrf, Resend, Retriable, CallOK, Pending, Idle
<1>. DEFINE tok == calls[s].tok
            a == [calls[s] EXCEPT !.at = "csrfme"]
            b == [calls[s] EXCEPT !.at = "post", !.tried = TRUE, !.sent = tok]
            c == [b EXCEPT !.val = "none", !.me = None]
<1>3. (calls' = [calls EXCEPT ![s] = a] /\ cached' = 0) \/ (calls' = [calls EXCEPT ![s] = c] /\ cached' = tok)
  BY Zenon DEF RetryCsrf, Resend
<1>4. a \in Call /\ a.op \in Op /\ a.n = 0
  BY <1>1, <1>2 DEF Call, CallAt
<1>5. tok \in Session
  BY <1>1 DEF Call
<1>. HIDE DEF a, tok
<1>6. b \in Call /\ b.op \in Op /\ b.n = 0
  BY <1>1, <1>2, <1>5 DEF Call, CallAt
<1>. HIDE DEF b
<1>7. c \in Call /\ c.op \in Op /\ c.n = 0
  BY <1>6 DEF Call
<1>. HIDE DEF c
<1>8. CallOK(a) /\ CallOK(c)
  BY <1>4, <1>7 DEF CallOK
<1>9. CallsOK' /\ cached' \in Session
  BY <1>1, <1>3, <1>5, <1>8, OneCall DEF IInv, CallsOK
<1>. QED BY <1>9 DEF RetryCsrf, Resend, IInv, HubOK, PageOK, CountsOK, hub

LEMMA RepliesKeep ==
    ASSUME IInv, NEW s \in Slot, calls[s].op # None,
           PostFailed(s) \/ RetryFailed(s) \/ PostChallenged(s) \/ PostPrefs(s)
           \/ PostPanel(s) \/ PostOk(s)
    PROVE  IInv'
PROOF
<1>1. /\ calls[s] \in Call /\ CallOK(calls[s]) /\ calls[s].op \in Op /\ 0 \in Session
      /\ PageOK /\ CallsOK /\ chal \in Session /\ path \in Path /\ stored \in Session
      /\ auth \in Context
  BY BoundsAssumption DEF IInv, CallsOK, CallOK, Idle, Session, HubOK, PageOK
<1>2. Unbusy(s) \in BOOLEAN
  BY <1>1 DEF Unbusy, PageOK, Call
<1>3. CASE PostFailed(s) \/ RetryFailed(s)
  <2>1. PageOK' /\ CallsOK'
    BY <1>3, StayKeeps DEF PostFailed, RetryFailed, Stay
  <2>. QED BY <1>3, <2>1 DEF PostFailed, RetryFailed, Stay, IInv, HubOK, CountsOK, hub
<1>4. CASE PostChallenged(s)
  <2>1. PageOK' /\ CallsOK'
    <3>1. "verify" \in Path
      BY DEF Path
    <3>. QED BY <1>1, <1>2, <1>4, <3>1, EndOK, ShowKeeps DEF PostChallenged
  <2>. QED BY <1>4, <2>1 DEF PostChallenged, IInv, HubOK, CountsOK, hub
<1>5. CASE PostPrefs(s)
  <2>. DEFINE a == [auth EXCEPT !.me = calls[s].me]
  <2>1. a \in Context /\ calls[s].tok \in Session
    BY <1>1 DEF Context, Call
  <2>2. Show(path, a, stored, Unbusy(s), End(s))
    BY <1>5 DEF PostPrefs
  <2>. HIDE DEF a
  <2>3. PageOK' /\ CallsOK'
    BY <1>1, <1>2, <2>1, <2>2, EndOK, ShowKeeps
  <2>. QED BY <1>5, <2>1, <2>3 DEF PostPrefs, IInv, HubOK, CountsOK, hub
<1>6. CASE PostPanel(s)
  <2>1. CallsOK'
    BY <1>1, <1>6, EndOK DEF PostPanel, CallsOK
  <2>2. PageOK'
    BY <1>1, <1>6 DEF PostPanel, PageOK, Call
  <2>. QED BY <1>6, <2>1, <2>2 DEF PostPanel, IInv, HubOK, CountsOK, hub
<1>7. CASE PostOk(s)
  <2>. DEFINE c == [calls[s] EXCEPT !.at = "status"]
  <2>1. c \in Call /\ c.op \in Op /\ c.at = "status"
    BY <1>1 DEF Call, CallAt
  <2>2. calls' = [calls EXCEPT ![s] = c]
    BY <1>7, Zenon DEF PostOk
  <2>. HIDE DEF c
  <2>3. CallOK(c)
    BY <2>1 DEF CallOK, Pending
  <2>4. CallsOK'
    BY <1>1, <2>2, <2>3, OneCall DEF CallsOK
  <2>5. /\ UNCHANGED <<hub, auth, path, busy, panel, cached, env, clicks>>
        /\ stored' \in {stored, 0}
    BY <1>7 DEF PostOk
  <2>. QED BY <1>1, <2>4, <2>5 DEF IInv, HubOK, PageOK, CountsOK, hub
<1>. QED BY <1>3, <1>4, <1>5, <1>6, <1>7

(* refresh(): wherever a handler navigates with the profile, it is a page. *)
LEMMA FinishKeeps ==
    ASSUME IInv, NEW s \in Slot, NEW a \in Context, Finish(s, a)
    PROVE  PageOK' /\ CallsOK' /\ UNCHANGED <<hub, env, clicks>>
PROOF
<1>. DEFINE b == IF calls[s].op = "boot" THEN [a EXCEPT !.ready = TRUE] ELSE a
            p == Target(calls[s].op, b.me)
<1>1. b \in Context
  BY DEF Context
<1>2. p \in Path
  BY ContinuationIsPage DEF Target, IInv, PageOK, Path, AppPage
<1>3. Show(p, b, stored, Unbusy(s), End(s)) /\ UNCHANGED <<hub, env, clicks>>
  BY DEF Finish
<1>4. Unbusy(s) \in BOOLEAN
  BY DEF Unbusy, IInv, PageOK, CallsOK, Call
<1>. HIDE DEF b, p
<1>5. PageOK' /\ CallsOK'
  BY <1>1, <1>2, <1>3, <1>4, EndOK, ShowKeeps DEF IInv, PageOK
<1>. QED BY <1>3, <1>5

LEMMA RefreshKeeps ==
    ASSUME IInv, NEW s \in Slot, calls[s].op # None, GotStatus(s) \/ GotMe(s)
    PROVE  IInv'
PROOF
<1>1. /\ calls[s] \in Call /\ CallOK(calls[s]) /\ calls[s].op \in Op
      /\ PageOK /\ CallsOK /\ path \in Path /\ stored \in Session /\ auth \in Context
      /\ busy \in BOOLEAN
  BY DEF IInv, CallsOK, CallOK, Idle, PageOK
<1>2. CASE GotStatus(s)
  <2>. DEFINE a == [auth EXCEPT !.boot = calls[s].val = "boot"]
              none == [a EXCEPT !.me = None]
              c == [calls[s] EXCEPT !.at = "me"]
              cs == [calls EXCEPT ![s] = c]
  <2>1. a \in Context
    BY <1>1 DEF Context
  <2>2. c \in Call /\ c.op \in Op /\ c.at = "me"
    BY <1>1 DEF Call, CallAt
  <2>3. \/ Finish(s, none) /\ UNCHANGED cached
        \/ calls' = cs /\ UNCHANGED <<hub, auth, path, busy, panel, stored, cached, env, clicks>>
        \/ Show(path, a, stored, busy, cs) /\ UNCHANGED <<hub, cached, env, clicks>>
    BY <1>2, Zenon DEF GotStatus
  <2>. HIDE DEF a
  <2>4. none \in Context
    BY <2>1 DEF Context
  <2>. HIDE DEF c, none
  <2>5. CallOK(c)
    BY <2>2 DEF CallOK, Pending
  <2>6. cs \in [Slot -> Call] /\ \A x \in Slot : CallOK(cs[x])
    BY <1>1, <2>5, OneCall
  <2>. HIDE DEF cs
  <2>7. PageOK' /\ CallsOK' /\ UNCHANGED <<hub, cached, env, clicks>>
    <3>1. CASE Finish(s, none) /\ UNCHANGED cached
      BY <2>4, <3>1, FinishKeeps
    <3>2. CASE calls' = cs /\ UNCHANGED <<hub, auth, path, busy, panel, stored, cached, env, clicks>>
      BY <1>1, <2>6, <3>2 DEF PageOK, CallsOK
    <3>3. CASE Show(path, a, stored, busy, cs) /\ UNCHANGED <<hub, cached, env, clicks>>
      BY <1>1, <2>1, <2>6, <3>3, ShowKeeps
    <3>. QED BY <2>3, <3>1, <3>2, <3>3
  <2>. QED BY <2>7 DEF IInv, HubOK, CountsOK, hub
<1>3. CASE GotMe(s)
  <2>. DEFINE a == [auth EXCEPT !.me = calls[s].me]
  <2>1. a \in Context /\ calls[s].tok \in Session
    BY <1>1 DEF Context, Call
  <2>2. Finish(s, a) /\ cached' \in {cached, calls[s].tok}
    BY <1>3 DEF GotMe
  <2>. HIDE DEF a
  <2>3. PageOK' /\ CallsOK' /\ UNCHANGED <<hub, env, clicks>>
    BY <2>1, <2>2, FinishKeeps
  <2>. QED BY <2>1, <2>2, <2>3 DEF IInv, HubOK, CountsOK, hub
<1>. QED BY <1>2, <1>3

LEMMA DeliverKeeps ==
    ASSUME IInv, NEW s \in Slot, Deliver(s)
    PROVE  IInv'
PROOF
<1>1. CASE LoggedOut(s)
  <2>1. PICK p \in {"login", "sso"} : Load(p)
    BY <1>1 DEF LoggedOut
  <2>2. p \in Path
    BY DEF Path
  <2>. QED BY <1>1, <2>1, <2>2, LoadKeeps DEF LoggedOut, IInv, HubOK, CountsOK, hub
<1>. QED BY <1>1, RetryKeeps, RepliesKeep, RefreshKeeps DEF Deliver
-----------------------------------------------------------------------------
(* Other actors *)

LEMMA FaultsKeep ==
    ASSUME IInv, NEW s \in Slot, Lost(s) \/ Gateway(s) \/ BootLost(s)
    PROVE  IInv'
PROOF
<1>1. CountsOK'
  BY BoundsAssumption DEF Lost, Gateway, BootLost, Count, IInv, CountsOK
<1>2. UNCHANGED <<hub, cached>>
  BY DEF Lost, Gateway, BootLost, Stay
<1>3. CASE Lost(s)
  <2>1. PageOK' /\ CallsOK'
    BY <1>3, StayKeeps DEF Lost, Stay
  <2>. QED BY <1>1, <1>2, <2>1 DEF IInv, HubOK, hub
<1>4. CASE Gateway(s)
  <2>. DEFINE c == [calls[s] EXCEPT !.val = "error"]
  <2>1. calls[s] \in Call /\ calls[s].op \in Op /\ calls[s].at = "posted"
    BY <1>4 DEF Gateway, IInv, CallsOK, CallOK, Idle
  <2>2. c \in Call /\ c.op \in Op /\ c.at = "posted" /\ c.val = "error"
    BY <2>1 DEF Call
  <2>3. calls' = [calls EXCEPT ![s] = c]
    BY <1>4, Zenon DEF Gateway
  <2>. HIDE DEF c
  <2>4. CallOK(c)
    BY <2>2 DEF CallOK, Pending
  <2>5. CallsOK'
    BY <2>3, <2>4, OneCall DEF IInv, CallsOK
  <2>. QED BY <1>1, <1>2, <1>4, <2>5 DEF Gateway, IInv, HubOK, PageOK, hub
<1>5. CASE BootLost(s)
  <2>. DEFINE a == [auth EXCEPT !.ready = TRUE, !.me = None]
  <2>1. a \in Context /\ Unbusy(s) \in BOOLEAN
    BY DEF IInv, PageOK, CallsOK, Call, Context, Unbusy
  <2>2. Show(path, a, stored, busy, End(s))
    BY <1>5 DEF BootLost
  <2>. HIDE DEF a
  <2>3. PageOK' /\ CallsOK'
    BY <2>1, <2>2, EndOK, ShowKeeps DEF IInv, PageOK
  <2>. QED BY <1>1, <1>2, <2>3 DEF IInv, HubOK, hub
<1>. QED BY <1>3, <1>4, <1>5

LEMMA OthersKeep ==
    ASSUME IInv, Reload \/ SsoReturn \/ Expire \/ OtherTab \/ Admin
    PROVE  IInv'
PROOF
<1>1. CountsOK'
  BY BoundsAssumption DEF Reload, SsoReturn, Expire, OtherTab, Admin, Count, IInv, CountsOK
<1>2. CASE Reload
  <2>1. PageOK' /\ CallsOK' /\ cached' \in Session
    BY <1>2, LoadKeeps DEF Reload, IInv, PageOK
  <2>. QED BY <1>1, <1>2, <2>1 DEF Reload, IInv, HubOK, hub
<1>3. CASE SsoReturn
  <2>1. PageOK' /\ CallsOK' /\ cached' \in Session
    <3>1. "app" \in Path
      BY DEF Path, AppPage
    <3>. QED BY <1>3, <3>1, LoadKeeps DEF SsoReturn, IInv
  <2>2. HubOK'
    BY <1>3, SessionMade DEF SsoReturn, IInv, HubOK
  <2>. QED BY <1>1, <2>1, <2>2 DEF IInv
<1>4. CASE Expire \/ OtherTab \/ Admin
  <2>1. UNCHANGED <<auth, path, busy, panel, stored, cached, calls>>
    BY <1>4 DEF Expire, OtherTab, Admin
  <2>2. HubOK'
    <3>1. CASE Expire
      <4>1. sess' = 0 /\ imp' = FALSE /\ UNCHANGED <<boot, acct, made, chal>>
        BY <3>1 DEF Expire
      <4>2. 0 \in Session
        BY BoundsAssumption DEF Session
      <4>. QED BY <4>1, <4>2 DEF IInv, HubOK
    <3>2. CASE OtherTab
      BY <3>2, SessionMade DEF OtherTab, IInv, HubOK
    <3>3. CASE Admin
      <4>. DEFINE k == acct.own
      <4>1. k \in Account
        BY DEF IInv, HubOK
      <4>. HIDE DEF k
      <4>2. /\ [k EXCEPT !.pw = TRUE] \in Account /\ [k EXCEPT !.agree = TRUE] \in Account
            /\ [k EXCEPT !.must2fa = TRUE] \in Account /\ [k EXCEPT !.mfa = FALSE] \in Account
            /\ [k EXCEPT !.role = "member"] \in Account
        BY <4>1 DEF Account, Role
      <4>3. PICK a \in Account : acct' = [acct EXCEPT !.own = a]
        BY <3>3, <4>2 DEF Admin, k
      <4>4. acct' \in [own : Account, target : Account]
        BY <4>3 DEF IInv, HubOK
      <4>. QED BY <3>3, <4>4 DEF Admin, IInv, HubOK
    <3>. QED BY <1>4, <3>1, <3>2, <3>3
  <2>. QED BY <1>1, <2>1, <2>2 DEF IInv, PageOK, CallsOK
<1>. QED BY <1>2, <1>3, <1>4
-----------------------------------------------------------------------------
(* The theorems *)

LEMMA InitKeeps == ASSUME AccountsOK PROVE Init => IInv
PROOF
<1>. SUFFICES ASSUME Init PROVE IInv
  OBVIOUS
<1>1. 0 \in Session /\ Fresh("member") \in Account
  BY BoundsAssumption DEF Session, Fresh, Account, Role, Route
<1>2. HubOK
  BY <1>1 DEF Init, HubOK, AccountsOK
<1>3. PageOK
  <2>1. auth = [ready |-> FALSE, boot |-> FALSE, me |-> None] /\ path = "login" /\ busy = FALSE
        /\ panel = None /\ stored = 0
    BY DEF Init
  <2>2. auth \in Context /\ path \in Path
    BY <2>1 DEF Context, Path
  <2>. QED BY <1>1, <2>1, <2>2 DEF PageOK
<1>4. CallsOK
  <2>. DEFINE c == [Idle EXCEPT !.op = "boot", !.at = "status"]
              s == CHOOSE x \in Slot : TRUE
  <2>1. c \in Call /\ c.op = "boot" /\ c.n = 0
    <3>1. Idle \in Call /\ Idle.n = 0 /\ "boot" \in Op /\ "status" \in CallAt
      BY IdleOK DEF Idle, CallAt, Op
    <3>. QED BY <3>1 DEF Call
  <2>2. calls = [[x \in Slot |-> Idle] EXCEPT ![s] = c]
    BY DEF Init
  <2>. HIDE DEF c, s
  <2>3. CallOK(c)
    BY <2>1 DEF CallOK, Op
  <2>. QED BY <2>1, <2>2, <2>3, IdleOK DEF CallsOK
<1>. QED BY <1>1, <1>2, <1>3, <1>4, BoundsAssumption DEF Init, IInv, CountsOK

LEMMA NextKeeps == ASSUME AccountsOK PROVE IInv /\ [Next]_vars => IInv'
PROOF
<1>. SUFFICES ASSUME IInv, [Next]_vars PROVE IInv'
  OBVIOUS
<1>1. CASE UNCHANGED vars
  BY <1>1 DEF vars, IInv, HubOK, PageOK, CallsOK, CountsOK
<1>2. CASE Next
  BY <1>2, UserKeeps, ServeKeeps, AsksKeep, DeliverKeeps, FaultsKeep, OthersKeep DEF Next, Hub
<1>. QED BY <1>1, <1>2

(* The profile, the page, the flags and every handler in flight keep their   *)
(* types; in particular each redirect and each navigation of a handler that  *)
(* answers late names a page there is (App.tsx, routes.ts).                  *)
THEOREM SessionTyped == Accounts \subseteq Account /\ Targets \subseteq Account /\ Spec => []TypeOK
PROOF
<1>. SUFFICES ASSUME AccountsOK PROVE Spec => []TypeOK
  BY DEF AccountsOK
<1>1. IInv /\ [Next]_vars => IInv'
  BY NextKeeps
<1>2. Init => IInv
  BY InitKeeps
<1>3. IInv => TypeOK
  <2>. SUFFICES ASSUME IInv PROVE TypeOK
    OBVIOUS
  <2>1. ASSUME NEW s \in Slot
        PROVE  \/ calls[s] = Idle
               \/ /\ calls[s].op \in Op /\ calls[s].at \in CallAt
                  /\ calls[s].n \in 0 .. 2 /\ calls[s].here \in BOOLEAN
    <3>1. calls[s] \in Call /\ CallOK(calls[s])
      BY DEF IInv, CallsOK
    <3>. QED BY <3>1 DEF CallOK, Call
  <2>. QED BY <2>1 DEF IInv, HubOK, PageOK, CountsOK, Session, Context, TypeOK
<1>. QED BY <1>1, <1>2, <1>3, PTL DEF Spec

(* Whatever was lost, answered late or refused in between: the retry of      *)
(* api() after a refused token repeats only what the hub has not carried out *)
(* (api.ts, middleware.py).                                                  *)
THEOREM CarriedOutOnce == Accounts \subseteq Account /\ Targets \subseteq Account /\ Spec => []AppliedOnce
PROOF
<1>. SUFFICES ASSUME AccountsOK PROVE Spec => []AppliedOnce
  BY DEF AccountsOK
<1>1. IInv /\ [Next]_vars => IInv'
  BY NextKeeps
<1>2. Init => IInv
  BY InitKeeps
<1>3. IInv => AppliedOnce
  <2>. SUFFICES ASSUME IInv, NEW s \in Slot PROVE calls[s].n <= 1
    BY DEF AppliedOnce
  <2>1. calls[s].n \in {0, 1}
    BY DEF IInv, CallsOK, Call
  <2>. QED BY <2>1
<1>. QED BY <1>1, <1>2, <1>3, PTL DEF Spec

(* A user is never sent to a home page without a tab, whatever default route *)
(* is stored with the profile (resolveHomePath, the top bar).                *)
THEOREM HomeHasTab == Spec => []HomeOffered
PROOF
<1>1. HomeOffered
  BY HomeIsOffered DEF HomeOffered
<1>. QED BY <1>1, PTL
=============================================================================
