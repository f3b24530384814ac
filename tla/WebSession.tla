------------------------------ MODULE WebSession ------------------------------
(* Signing in to the web client: the HTTP client with its CSRF retry (api.ts), *)
(* the authentication context (auth.tsx), the gate and the routes (App.tsx,    *)
(* routes.ts) and the pages before the application.  One browser tab, one      *)
(* account; the hub's side of every request is taken from the routers.         *)
EXTENDS Naturals

CONSTANTS Slot,        \* handlers that can be in flight at once
          MaxSessions, \* sessions the hub creates
          MaxEnv,      \* steps of other actors: administrators, other tabs, faults
          MaxClicks,   \* links and other controls the user tries besides submit buttons
          Accounts,    \* accounts the user may have at the start
          Targets,     \* accounts that may be impersonated
          Env,         \* the kinds of such steps an instance has
          None         \* no profile, no call, no page

ASSUME BoundsAssumption == MaxSessions \in Nat /\ MaxEnv \in Nat /\ MaxClicks \in Nat

Role == {"member", "orgAdmin", "instance"}
Route == {"unset", "ingest", "org", "stats", "instance", "tasks"}
AppPage == {"app", "ingest", "library", "org", "stats", "tasks", "instance", "profile"}
Path == AppPage \cup {"setup", "login", "signup", "sso", "forgot", "verify",
                      "changepw", "enroll", "agree", "landing"}
Op == {"boot", "setup", "login", "signup", "verify", "changepw", "mfastart",
       "mfaconfirm", "mfadone", "accept", "prefs", "logout", "impersonate", "orgimpersonate",
       "unimpersonate"}

\* what GET /me tells: the obligations in force, the role and the stored home page
Me == [pw : BOOLEAN, enroll : BOOLEAN, mfa : BOOLEAN, agree : BOOLEAN,
       role : Role, imp : BOOLEAN, route : Route]
\* A handler in flight: the request it waits for (at), the answer (val, me), whether the CSRF
\* retry was spent (tried), the token it was sent with, the token the answer carries,
\* whether its page is still mounted (here), and how often the hub has carried it out (n).
CallAt == {"post", "posted", "csrfme", "csrfmed", "status", "statused", "me", "med"}
Idle == [op |-> None, at |-> "post", val |-> "none", me |-> None, tried |-> FALSE,
         sent |-> 0, tok |-> 0, here |-> FALSE, n |-> 0]

VARIABLES
    boot,     \* InstanceSettings.bootstrap_done
    acct,     \* the user's own account, and the one that is impersonated
    imp,      \* sessions.impersonate_user_id is set
    sess,     \* the session of the cookie, 0 if there is none; its CSRF cookie is the same number
    made,     \* sessions created so far
    chal,     \* the MFA challenge that is open at the hub, 0 if none
    auth,     \* AuthProvider: ready, boot, me
    path,     \* the page that is shown
    busy,     \* the busy flag of that page
    panel,    \* MfaSetupPanel: nothing, the secret, or the recovery codes
    stored,   \* sessionStorage mfa_challenge_id
    cached,   \* cachedCsrf, 0 if undefined
    calls,    \* handlers in flight
    env,      \* steps of other actors taken
    clicks    \* clicks made

hub == <<boot, acct, imp, sess, made, chal>>
vars == <<boot, acct, imp, sess, made, chal, auth, path, busy, panel, stored, cached, calls, env, clicks>>

-----------------------------------------------------------------------------
(* Routes *)

\* resolveAuthBlockPath
BlockPath(m) ==
    CASE m.pw -> "changepw" [] m.enroll -> "enroll" [] m.agree -> "agree" [] OTHER -> None

IsInstanceAdmin(m) == m.role = "instance" /\ ~m.imp
HasOrg(m) == m.role # "instance"

\* the pages a default route may name
MutAllowedRoutes(m) ==
    (IF HasOrg(m) THEN {"ingest", "org", "stats"} ELSE {})
    \cup (IF IsInstanceAdmin(m) THEN {"instance"} ELSE {}) \cup {"tasks"}
AllowedRoutes(m) ==
    (IF HasOrg(m) THEN {"ingest", "org"} ELSE {})
    \cup (IF m.role = "orgAdmin" THEN {"stats"} ELSE {})
    \cup (IF IsInstanceAdmin(m) THEN {"instance"} ELSE {}) \cup {"tasks"}

Home(m) ==
    IF m.route \in AllowedRoutes(m) THEN m.route
    ELSE IF HasOrg(m) THEN "ingest"
    ELSE IF IsInstanceAdmin(m) THEN "instance" ELSE "tasks"

\* resolveAuthContinuationPath; a missing profile falls through to its home page
MutContinuation(m) == IF m = None THEN "tasks" ELSE Home(m)
Continuation(m) ==
    IF m = None THEN "tasks" ELSE IF BlockPath(m) # None THEN BlockPath(m) ELSE Home(m)

\* the tabs the top bar shows
NavOffered(m) ==
    {"tasks", "profile"} \cup (IF HasOrg(m) THEN {"ingest", "library", "org"} ELSE {})
    \cup (IF m.role = "orgAdmin" THEN {"stats"} ELSE {})
    \cup (IF IsInstanceAdmin(m) THEN {"instance"} ELSE {})

Gate(p, a) ==
    IF ~a.ready THEN p ELSE IF ~a.boot THEN "setup"
    ELSE IF a.me = None THEN "login"
    ELSE IF BlockPath(a.me) # None THEN BlockPath(a.me)
    ELSE IF p = "app" THEN Home(a.me) ELSE p

SignInRedirect(p, a) ==
    IF a.ready /\ ~a.boot THEN "setup"
    ELSE IF a.ready /\ a.me # None THEN Continuation(a.me) ELSE p

VerifyRedirect(a, ch) ==
    IF ~a.ready THEN "verify" ELSE IF ~a.boot THEN "setup"
    ELSE IF a.me # None THEN Continuation(a.me)
    ELSE IF ch = 0 THEN "login" ELSE "verify"

ChangePasswordRedirect(a) ==
    IF ~a.ready THEN "changepw" ELSE IF a.me = None THEN "login" ELSE Continuation(a.me)

EnrollRedirect(a) ==
    IF ~a.ready THEN "enroll" ELSE IF a.me = None THEN "login"
    ELSE IF a.me.pw THEN "changepw"
    ELSE IF a.me.enroll THEN "enroll"
    ELSE IF a.me.mfa THEN Continuation(a.me) ELSE "profile"

AgreementRedirect(a) ==
    IF ~a.ready THEN "agree" ELSE IF a.me = None THEN "login" ELSE Continuation(a.me)

Redirect(p, a, ch) ==
    CASE p = "setup" -> IF a.ready /\ a.boot THEN "login" ELSE p
      [] p \in {"login", "signup", "sso"} -> SignInRedirect(p, a)
      [] p \in {"forgot", "landing"} -> IF a.ready /\ ~a.boot THEN "setup" ELSE p
      [] p = "verify" -> VerifyRedirect(a, ch)
      [] p = "changepw" -> ChangePasswordRedirect(a)
      [] p = "enroll" -> EnrollRedirect(a)
      [] p = "agree" -> AgreementRedirect(a)
      [] OTHER -> Gate(p, a)

\* No <Navigate> element is on the screen.
Rendered == Redirect(path, auth, stored) = path

\* Show path p with context a, challenge ch, busy flag b and calls cs: a page that is
\* replaced unmounts and loses its state.
Show(p, a, ch, b, cs) ==
    /\ path' = p /\ auth' = a /\ stored' = ch
    /\ IF p = path THEN UNCHANGED panel /\ calls' = cs /\ busy' = b
       ELSE /\ panel' = None /\ busy' = FALSE
            /\ calls' = [s \in Slot |-> [cs[s] EXCEPT !.here = FALSE]]

\* React follows a <Navigate> before it handles anything else.
Navigate ==
    /\ ~Rendered /\ Show(Redirect(path, auth, stored), auth, stored, busy, calls)
    /\ UNCHANGED <<hub, cached, env, clicks>>
-----------------------------------------------------------------------------
(* The hub *)

Who == IF imp THEN "target" ELSE "own"
Eff == acct[Who]                                   \* ctx.user
SetEff(a) == acct' = [acct EXCEPT ![Who] = a]
Snapshot ==
    [pw |-> Eff.pw, enroll |-> Eff.must2fa /\ ~Eff.mfa, mfa |-> Eff.mfa,
     agree |-> Eff.agree, role |-> Eff.role, imp |-> imp, route |-> Eff.route]

CsrfExempt == {"setup", "login", "signup", "verify"}

NewSession == made < MaxSessions /\ made' = made + 1 /\ sess' = made + 1
KeepSession == UNCHANGED <<sess, made>>
Account == [pw : BOOLEAN, must2fa : BOOLEAN, mfa : BOOLEAN, agree : BOOLEAN,
            role : Role, route : Route]
Fresh(role) == [pw |-> FALSE, must2fa |-> FALSE, mfa |-> FALSE, agree |-> FALSE,
                role |-> role, route |-> "unset"]

\* POST /setup, /auth/signup, /auth/login, /auth/mfa/verify and /recover
SetupHandler == /\ ~boot /\ boot' = TRUE /\ acct' = [acct EXCEPT !.own = Fresh("instance")] /\ NewSession
                /\ UNCHANGED <<imp, chal>>
SignupHandler == /\ boot /\ acct' = [acct EXCEPT !.own = Fresh("orgAdmin")] /\ imp' = FALSE /\ NewSession
                 /\ UNCHANGED <<boot, chal>>
LoginHandler == /\ ~acct.own.mfa /\ NewSession /\ imp' = FALSE /\ UNCHANGED <<boot, acct, chal>>
ChallengeHandler == /\ acct.own.mfa /\ made < MaxSessions /\ chal' = made + 1
                    /\ UNCHANGED <<boot, acct, imp>> /\ KeepSession
VerifyHandler == /\ chal # 0 /\ stored = chal /\ chal' = 0 /\ imp' = FALSE /\ NewSession
                 /\ UNCHANGED <<boot, acct>>
\* POST /auth/password/change revokes every session and issues a new one
PasswordHandler == /\ ~imp /\ SetEff([Eff EXCEPT !.pw = FALSE]) /\ NewSession
                   /\ UNCHANGED <<boot, imp, chal>>
MfaStartHandler == ~imp /\ UNCHANGED hub
MfaConfirmHandler == /\ ~imp /\ ~Eff.mfa /\ SetEff([Eff EXCEPT !.mfa = TRUE])
                     /\ UNCHANGED <<boot, imp, sess, made, chal>>
AcceptHandler == /\ Eff.agree /\ ~Eff.pw /\ SetEff([Eff EXCEPT !.agree = FALSE])
                 /\ UNCHANGED <<boot, imp, sess, made, chal>>
PrefsHandler == \E r \in AllowedRoutes(Snapshot) :
                   /\ SetEff([Eff EXCEPT !.route = r])
                   /\ UNCHANGED <<boot, imp, sess, made, chal>>
LogoutHandler == sess' = 0 /\ imp' = FALSE /\ UNCHANGED <<boot, acct, made, chal>>
ImpersonateHandler == /\ ~imp /\ acct.own.role \in {"instance", "orgAdmin"} /\ imp' = TRUE
                      /\ \E a \in Targets : acct' = [acct EXCEPT !.target = a]
                      /\ UNCHANGED <<boot, sess, made, chal>>
UnimpersonateHandler == /\ imp /\ acct.own.role \in {"instance", "orgAdmin"} /\ imp' = FALSE /\ acct' = [acct EXCEPT !.target = Fresh("member")]
                        /\ UNCHANGED <<boot, sess, made, chal>>

Handler(op) ==
    \/ op = "setup" /\ SetupHandler
    \/ op = "signup" /\ SignupHandler
    \/ op = "login" /\ LoginHandler
    \/ op = "verify" /\ VerifyHandler
    \/ op = "changepw" /\ PasswordHandler
    \/ op = "mfastart" /\ MfaStartHandler
    \/ op = "mfaconfirm" /\ MfaConfirmHandler
    \/ op = "accept" /\ AcceptHandler
    \/ op = "prefs" /\ PrefsHandler
    \/ op = "logout" /\ LogoutHandler
    \/ op \in {"impersonate", "orgimpersonate"} /\ ImpersonateHandler
    \/ op = "unimpersonate" /\ UnimpersonateHandler

Answer(s, at, val) ==
    /\ calls' = [calls EXCEPT ![s].at = at, ![s].val = val]
    /\ UNCHANGED <<auth, path, busy, panel, stored, cached, env, clicks>>

\* The middleware checks the token first, then the session, then the handler runs.
CsrfOk(c) == c.op \in CsrfExempt \/ sess = 0 \/ c.sent = sess
Serve(s) ==
    LET c == calls[s] IN
    /\ c.op # None /\ c.at = "post"
    /\ \/ ~CsrfOk(c) /\ UNCHANGED hub /\ Answer(s, "posted", "csrf")
       \/ CsrfOk(c) /\ UNCHANGED hub /\ Answer(s, "posted", "error")
       \/ /\ CsrfOk(c) /\ (c.op \in CsrfExempt \cup {"logout"} \/ sess # 0)
          /\ Handler(c.op)
          /\ calls' = [calls EXCEPT ![s].at = "posted", ![s].n = @ + 1, ![s].tok = sess',
                          ![s].val = "ok", ![s].me = IF c.op = "prefs" THEN Snapshot' ELSE None]
          /\ UNCHANGED <<auth, path, busy, panel, stored, cached, env, clicks>>
       \/ c.op = "login" /\ ChallengeHandler /\ Answer(s, "posted", "mfa")

ServeStatus(s) == /\ calls[s].op # None /\ calls[s].at = "status" /\ UNCHANGED hub
                  /\ Answer(s, "statused", IF boot THEN "boot" ELSE "error")
MeAnswer == IF sess = 0 THEN None ELSE Snapshot
ServeMe(s) == /\ calls[s].op # None /\ UNCHANGED hub
              /\ calls[s].at \in {"me", "csrfme"}
              /\ calls' = [calls EXCEPT ![s].at = IF @ = "me" THEN "med" ELSE "csrfmed",
                                        ![s].me = MeAnswer, ![s].tok = sess]
              /\ UNCHANGED <<auth, path, busy, panel, stored, cached, env, clicks>>
-----------------------------------------------------------------------------
(* The client *)

Token == IF cached # 0 THEN cached ELSE sess       \* csrfToken(): the cache, then the cookie
Start(s, op, at) == [calls EXCEPT ![s] = [Idle EXCEPT !.op = op, !.at = at,
                                             !.here = TRUE,
                                             !.sent = IF op \in CsrfExempt THEN 0 ELSE Token]]
Clicked == clicks < MaxClicks /\ clicks' = clicks + 1 /\ UNCHANGED env
Free(s) == calls[s].op = None
InFlight(op) == \E s \in Slot : calls[s].op = op

\* Submit buttons: a page with its busy flag set offers none (ready/busy of AppSubmitButton).
SetupForm == path = "setup" /\ ~busy
LoginForm == path = "login" /\ ~busy
SignupForm == path = "signup" /\ ~busy
VerifyForm == path = "verify" /\ auth.ready /\ stored # 0 /\ ~busy
ChangePasswordForm == path = "changepw" /\ auth.ready /\ ~busy
SetupPanel == path = "enroll" /\ auth.ready /\ ~busy
AgreementForm == path = "agree" /\ auth.ready /\ ~busy
Offered(op) ==
    \/ op = "setup" /\ SetupForm
    \/ op = "login" /\ LoginForm
    \/ op = "signup" /\ SignupForm
    \/ op = "verify" /\ VerifyForm
    \/ op = "changepw" /\ ChangePasswordForm
    \/ op = "mfastart" /\ SetupPanel /\ panel = None
    \/ op = "mfaconfirm" /\ SetupPanel /\ panel = "secret"
    \/ op = "accept" /\ AgreementForm

Submit(s, op) ==
    /\ Free(s) /\ Offered(op)
    /\ calls' = Start(s, op, "post") /\ busy' = TRUE
    /\ UNCHANGED <<hub, auth, path, panel, stored, cached, env, clicks>>

\* Controls without a busy flag: language and home page, log out, impersonation,
\* and the Confirm button below the recovery codes, which refreshes.
CanLogout == /\ auth.me # None /\ path \in AppPage \cup {"changepw", "enroll", "agree"}
             /\ ~(path = "agree" /\ busy)
MembersImpersonate == path = "org" /\ auth.me.role = "orgAdmin"
BannerStop == path \in AppPage /\ auth.me.imp
Clickable(op) ==
    \/ op = "prefs" /\ auth.me # None
    \/ op = "logout" /\ CanLogout
    \/ op = "impersonate" /\ path = "instance" /\ IsInstanceAdmin(auth.me)
    \/ op = "orgimpersonate" /\ MembersImpersonate
    \/ op = "unimpersonate" /\ BannerStop
    \/ op = "mfadone" /\ path = "enroll" /\ panel = "codes"
Click(s, op) ==
    /\ Free(s) /\ ~InFlight(op) /\ auth.ready /\ Clickable(op)
    /\ calls' = Start(s, op, IF op = "mfadone" THEN "status" ELSE "post")
    /\ IF op = "unimpersonate" THEN UNCHANGED <<env, clicks>> ELSE Clicked
    /\ UNCHANGED <<hub, auth, path, busy, panel, stored, cached>>

SsoPage == {"login", "landing"}
ForgotPage == {"login", "landing"}
LandingLinks(m) == IF m = None THEN {"login", "signup"} ELSE {Continuation(m)}
Links(p, m) ==
    CASE p = "login" -> {"signup", "forgot", "sso", "landing"}
      [] p = "signup" -> {"login", "landing"}
      [] p = "forgot" -> ForgotPage
      [] p = "sso" -> SsoPage
      [] p = "landing" -> LandingLinks(m)
      [] p \in AppPage -> NavOffered(m)
      [] OTHER -> {"landing"}
Follow(p) ==
    /\ auth.ready /\ p \in Links(path, auth.me) /\ p # path
    /\ Show(p, auth, stored, FALSE, calls)
    /\ Clicked /\ UNCHANGED <<hub, cached>>
\* the Back link of the verification page forgets the challenge
MutBackToLogin ==
    /\ path = "verify" /\ auth.ready /\ Show("login", auth, None, FALSE, calls)
    /\ Clicked /\ UNCHANGED <<hub, cached>>
BackToLogin ==
    /\ path = "verify" /\ auth.ready /\ Show("login", auth, 0, FALSE, calls)
    /\ Clicked /\ UNCHANGED <<hub, cached>>

\* A handler that ends gives the busy flag of its page back.
End(s) == [calls EXCEPT ![s] = Idle]
MutUnbusy(s) == busy
Unbusy(s) == busy /\ ~calls[s].here
Stay(s) == Show(path, auth, stored, Unbusy(s), End(s)) /\ UNCHANGED <<hub, cached>>

\* api(): one retry after a refused token, with the token GET /me returns.
MutRetriable(c) == c.val \in {"csrf", "error"} /\ ~c.tried
Retriable(c) == c.val = "csrf" /\ ~c.tried
RetryCsrf(s) ==
    /\ calls[s].at = "posted" /\ Retriable(calls[s])
    /\ cached' = 0
    /\ calls' = [calls EXCEPT ![s].at = "csrfme"]
    /\ UNCHANGED <<hub, auth, path, busy, panel, stored, env, clicks>>
Resend(s) ==
    /\ calls[s].at = "csrfmed" /\ calls[s].me # None
    /\ cached' = calls[s].tok
    /\ calls' = [calls EXCEPT ![s].at = "post", ![s].tried = TRUE, ![s].sent = calls[s].tok,
                              ![s].val = "none", ![s].me = None]
    /\ UNCHANGED <<hub, auth, path, busy, panel, stored, env, clicks>>

\* The reply of the request itself.
PostFailed(s) ==
    /\ calls[s].at = "posted" /\ calls[s].val \in {"csrf", "error"} /\ ~Retriable(calls[s])
    /\ Stay(s) /\ UNCHANGED <<env, clicks>>
RetryFailed(s) == calls[s].at = "csrfmed" /\ calls[s].me = None /\ Stay(s) /\ UNCHANGED <<env, clicks>>
PostChallenged(s) ==
    /\ calls[s].at = "posted" /\ calls[s].val = "mfa"
    /\ Show("verify", auth, chal, Unbusy(s), End(s)) /\ UNCHANGED <<hub, cached, env, clicks>>
PostPrefs(s) ==
    /\ calls[s].at = "posted" /\ calls[s].op = "prefs" /\ calls[s].val = "ok"
    /\ cached' = calls[s].tok /\ Show(path, [auth EXCEPT !.me = calls[s].me], stored, Unbusy(s), End(s))
    /\ UNCHANGED <<hub, env, clicks>>
PostPanel(s) ==
    /\ calls[s].at = "posted" /\ calls[s].val = "ok"
    /\ calls[s].op \in {"mfastart", "mfaconfirm"}
    /\ panel' = IF calls[s].here
                THEN (IF calls[s].op = "mfastart" THEN "secret" ELSE "codes") ELSE panel
    /\ calls' = End(s) /\ busy' = (busy /\ ~calls[s].here)
    /\ UNCHANGED <<hub, auth, path, stored, cached, env, clicks>>
\* the other handlers refresh the profile next
PostOk(s) ==
    /\ calls[s].at = "posted" /\ calls[s].val = "ok"
    /\ calls[s].op \notin {"mfastart", "mfaconfirm", "logout", "prefs"}
    /\ calls' = [calls EXCEPT ![s].at = "status"]
    /\ stored' = IF calls[s].op = "verify" THEN 0 ELSE stored
    /\ UNCHANGED <<hub, auth, path, busy, panel, cached, env, clicks>>

\* Where a handler navigates once refresh() has returned m.
Target(op, m) ==
    CASE op \in {"boot", "impersonate"} -> path
      [] op = "setup" -> "app"
      [] op = "orgimpersonate" -> "library"
      [] op = "unimpersonate" -> IF acct.own.role = "instance" THEN "instance" ELSE "org"
      [] OTHER -> Continuation(m)
Finish(s, a) ==
    LET b == IF calls[s].op = "boot" THEN [a EXCEPT !.ready = TRUE] ELSE a IN
    /\ Show(Target(calls[s].op, b.me), b, stored, Unbusy(s), End(s))
    /\ UNCHANGED <<hub, env, clicks>>

\* refresh(): first the setup status, then the profile
GotStatus(s) ==
    /\ calls[s].at = "statused"
    /\ LET a == [auth EXCEPT !.boot = calls[s].val = "boot"] IN
       \/ ~a.boot /\ Finish(s, [a EXCEPT !.me = None]) /\ UNCHANGED cached
       \/ /\ a.boot /\ a = auth              \* equal state: nothing renders
          /\ calls' = [calls EXCEPT ![s].at = "me"]
          /\ UNCHANGED <<hub, auth, path, busy, panel, stored, cached, env, clicks>>
       \/ /\ a.boot /\ a # auth
          /\ Show(path, a, stored, busy, [calls EXCEPT ![s].at = "me"])
          /\ UNCHANGED <<hub, cached, env, clicks>>
GotMe(s) ==
    /\ calls[s].at = "med"
    /\ Finish(s, [auth EXCEPT !.me = calls[s].me])
    /\ IF calls[s].me = None THEN UNCHANGED cached ELSE cached' = calls[s].tok

\* A document load: the context is new and asks who is signed in.
Load(p) ==
    \E s \in Slot :
       /\ auth' = [ready |-> FALSE, boot |-> FALSE, me |-> None]
       /\ path' = p /\ busy' = FALSE /\ panel' = None /\ cached' = 0
       /\ calls' = [[x \in Slot |-> Idle] EXCEPT ![s] = [Idle EXCEPT !.op = "boot", !.at = "status"]]
       /\ UNCHANGED stored
LoggedOut(s) == /\ calls[s].at = "posted" /\ calls[s].op = "logout" /\ calls[s].val = "ok"
                /\ \E p \in {"login", "sso"} : Load(p)
                /\ UNCHANGED <<hub, env, clicks>>
-----------------------------------------------------------------------------
(* Other actors, at most MaxEnv steps *)

Count(k) == k \in Env /\ env < MaxEnv /\ env' = env + 1 /\ UNCHANGED clicks
Reload == Count("reload") /\ Load(path) /\ UNCHANGED hub
\* the identity provider sends the browser back to /app with a session
SsoReturn == /\ Count("sso") /\ path = "sso" /\ boot /\ NewSession /\ imp' = FALSE
             /\ Load("app") /\ UNCHANGED <<boot, acct, chal>>
Lost(s) == /\ Count("lost") /\ calls[s].op # None
           /\ calls[s].at \in {"post", "posted", "status", "statused", "me", "med", "csrfme"}
           /\ calls[s].op # "boot"
           /\ Stay(s)
\* a gateway answers with an error although the hub has carried the request out
Gateway(s) == /\ Count("lost") /\ calls[s].op # None /\ calls[s].at = "posted"
              /\ calls[s].val = "ok" /\ calls' = [calls EXCEPT ![s].val = "error"]
              /\ UNCHANGED <<hub, auth, path, busy, panel, stored, cached>>
\* a failed first refresh leaves nobody signed in
BootLost(s) == /\ Count("lost") /\ calls[s].op = "boot"
               /\ Show(path, [auth EXCEPT !.ready = TRUE, !.me = None], stored, busy, End(s))
               /\ UNCHANGED <<hub, cached>>
Expire == /\ Count("expire") /\ sess # 0 /\ sess' = 0 /\ imp' = FALSE
          /\ UNCHANGED <<boot, acct, made, chal, auth, path, busy, panel, stored, cached, calls>>
OtherTab == /\ Count("tab") /\ boot /\ NewSession /\ imp' = FALSE
            /\ UNCHANGED <<boot, acct, chal, auth, path, busy, panel, stored, cached, calls>>
\* an administrator resets the password, publishes documents, changes policy or role
Admin == /\ Count("admin") /\ ~imp /\ acct.own.role # "instance"
         /\ \E a \in {[acct.own EXCEPT !.pw = TRUE], [acct.own EXCEPT !.agree = TRUE],
                      [acct.own EXCEPT !.must2fa = TRUE], [acct.own EXCEPT !.mfa = FALSE],
                      [acct.own EXCEPT !.role = "member"]} :
               a # acct.own /\ acct' = [acct EXCEPT !.own = a]
         /\ UNCHANGED <<boot, imp, sess, made, chal, auth, path, busy, panel, stored, cached, calls>>
-----------------------------------------------------------------------------
Init ==
    /\ boot \in BOOLEAN /\ imp = FALSE /\ sess = 0 /\ made = 0 /\ chal = 0
    /\ acct \in [own : Accounts, target : {Fresh("member")}]
    /\ ~boot => acct.own = Fresh("instance")
    /\ auth = [ready |-> FALSE, boot |-> FALSE, me |-> None]
    /\ path = "login" /\ busy = FALSE /\ panel = None
    /\ stored = 0 /\ cached = 0 /\ env = 0 /\ clicks = 0
    /\ calls = [[x \in Slot |-> Idle] EXCEPT
                  ![CHOOSE x \in Slot : TRUE] = [Idle EXCEPT !.op = "boot", !.at = "status"]]

Hub(s) == Serve(s) \/ ServeStatus(s) \/ ServeMe(s)
Deliver(s) ==
    /\ calls[s].op # None
    /\ \/ RetryCsrf(s) \/ Resend(s) \/ PostFailed(s) \/ RetryFailed(s) \/ PostChallenged(s)
       \/ PostPrefs(s) \/ PostPanel(s) \/ PostOk(s) \/ GotStatus(s) \/ GotMe(s) \/ LoggedOut(s)
Next ==
    \/ Navigate
    \/ /\ Rendered
       /\ \/ \E s \in Slot : Hub(s) \/ Deliver(s) \/ Lost(s) \/ Gateway(s) \/ BootLost(s)
                            \/ \E op \in Op : Submit(s, op) \/ Click(s, op)
          \/ \E p \in Path : Follow(p)
          \/ BackToLogin \/ Reload \/ SsoReturn \/ Expire \/ OtherTab \/ Admin

Spec == Init /\ [][Next]_vars
LiveSpec ==
    /\ Spec /\ WF_vars(Navigate)
    /\ \A s \in Slot : WF_vars(Rendered /\ Hub(s)) /\ WF_vars(Rendered /\ Deliver(s))
-----------------------------------------------------------------------------
(* Properties *)

TypeOK ==
    /\ boot \in BOOLEAN /\ imp \in BOOLEAN /\ sess \in 0..MaxSessions /\ made \in 0..MaxSessions
    /\ chal \in 0..MaxSessions /\ stored \in 0..MaxSessions /\ cached \in 0..MaxSessions
    /\ acct \in [own : Account, target : Account]
    /\ auth \in [ready : BOOLEAN, boot : BOOLEAN, me : Me \cup {None}]
    /\ path \in Path /\ busy \in BOOLEAN /\ panel \in {None, "secret", "codes"}
    /\ \A s \in Slot : \/ calls[s] = Idle
                       \/ /\ calls[s].op \in Op /\ calls[s].at \in CallAt
                          /\ calls[s].n \in 0..2 /\ calls[s].here \in BOOLEAN
    /\ env \in 0..MaxEnv /\ clicks \in 0..MaxClicks

(* The <Navigate> elements of the gate and of the eight sign-in pages never send the browser
   round in a circle: whatever the context holds, the page that is shown renders itself. *)
NoRedirectLoop == []<>Rendered

(* The home page a user is sent to after signing in is one whose tab the top bar shows to that
   user, even if the default route was stored under another role or before impersonation. *)
HomeOffered == auth.me # None => Home(auth.me) \in NavOffered(auth.me)

(* The CSRF retry of api() never makes the hub carry out one user request twice. *)
AppliedOnce == \A s \in Slot : calls[s].n <= 1

(* A submit button that was disabled by its handler is given back: busy does not stick,
   whichever request of the handler fails or arrives late. *)
BusyEnds == busy ~> ~busy
=============================================================================
