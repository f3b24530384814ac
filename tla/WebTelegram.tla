------------------------------ MODULE WebTelegram -----------------------------
(* Linking an account with the Telegram bot: MeTelegramProvider, which every    *)
(* page shares, the section of the profile page that gets a code, and the hub.  *)
(* The client asks for the status on focus, every 15 s on the profile page and  *)
(* every 3 s while it waits for the bot; sessionStorage keeps that it waits.    *)
EXTENDS Naturals, FiniteSets

CONSTANTS MaxActs,    \* inputs of the user
          MaxBots,    \* times the admin replaces the bot
          MaxLosses,  \* requests that fail
          MaxFlight,  \* requests for the status in flight when another is sent
          None

VARIABLES
    bot,      \* hub: the bot's number
    linked,   \* hub: the account is linked with this bot
    code,     \* hub: the code that can be redeemed, None or its number
    status,   \* client: the status shown, None before the first
    awaiting, \* it waits for the bot
    stored,   \* the same in sessionStorage
    lastBot,  \* refs of the provider and of the section: the bot of the last status
    section,  \* None, or the section of the profile page: its code, its bot, busy
    asked,    \* the handlers in flight
    tgCount   \* inputs, bots, failures so far

tgVars == <<bot, linked, code, status, awaiting, stored, lastBot, section, asked, tgCount>>

client == <<status, awaiting, stored, lastBot, section>>
hubSide == <<bot, linked, code>>
Act == tgCount.acts < MaxActs /\ tgCount' = [tgCount EXCEPT !.acts = @ + 1]
Call(kind, then) == [kind |-> kind, at |-> "sent", then |-> then, ans |-> None]
Fresh == "fresh"  \* getMe first, also when the bot has changed
Wait(w) == awaiting' = w /\ stored' = w
-----------------------------------------------------------------------------
(* Telegram and the hub *)

HubSame == UNCHANGED <<client, asked>>
\* /start with the code, sent to the bot
BotLinks == /\ code # None /\ linked' = TRUE /\ code' = None
            /\ UNCHANGED <<bot, tgCount>> /\ HubSame
CodeExpires == code # None /\ code' = None /\ UNCHANGED <<bot, linked, tgCount>> /\ HubSame
\* another bot token: all links and codes are gone
AdminChangesBot == /\ tgCount.bots < MaxBots /\ tgCount' = [tgCount EXCEPT !.bots = @ + 1]
                   /\ bot' = bot + 1 /\ linked' = FALSE /\ code' = None /\ HubSame
Answered(c, a) == asked' = (asked \ {c}) \cup {[c EXCEPT !.at = "answered", !.ans = a]}
Serve(c) ==
    /\ c.at = "sent"
    /\ linked' = (linked /\ c.kind # "unlink")
    /\ code' = IF c.kind = "unlink" THEN None ELSE IF c.kind = "link" THEN tgCount.acts ELSE code
    /\ Answered(c, [bot |-> bot, linked |-> linked'])
    /\ UNCHANGED <<bot, client, tgCount>>
Lost(c) == /\ c.at # "failed" /\ tgCount.lost < MaxLosses /\ tgCount' = [tgCount EXCEPT !.lost = @ + 1]
           /\ asked' = (asked \ {c}) \cup {[c EXCEPT !.at = "failed"]}
           /\ UNCHANGED <<hubSide, client>>
-----------------------------------------------------------------------------
(* Asking *)

\* the handler in whose course the status was asked for ends with it
Finished(s, then) == IF then = "handler" /\ s # None THEN [s EXCEPT !.busy = FALSE] ELSE s
Linked == status # None /\ status.linked
Room == Cardinality({c \in asked : c.kind \in {"status", Fresh}}) < MaxFlight
MutPolls == section # None
Polls == (awaiting /\ ~Linked) \/ section # None
Tick == /\ Room /\ Polls /\ asked' = asked \cup {Call("status", "none")}
        /\ UNCHANGED <<hubSide, client, tgCount>>
Focus == /\ Act /\ asked' = asked \cup {Call("status", "none")} /\ UNCHANGED <<hubSide, client>>
-----------------------------------------------------------------------------
(* The profile page *)

\* its effects run before the provider has a status when the page is loaded there
Mounted(st) == [code |-> None, bot |-> IF st = None THEN 0 ELSE st.bot, busy |-> FALSE]
OpenSection == /\ section = None /\ Act /\ section' = Mounted(status)
               /\ asked' = asked \cup {Call(Fresh, "none")}
               /\ UNCHANGED <<hubSide, status, awaiting, stored, lastBot>>
CloseSection == /\ section # None /\ Act /\ section' = None
                /\ UNCHANGED <<hubSide, status, awaiting, stored, lastBot, asked>>
\* the browser loads the page again, here or on another page
Reload == /\ Act /\ status' = None /\ lastBot' = None /\ awaiting' = stored /\ UNCHANGED stored
          /\ section' \in {None, Mounted(None)}
          /\ asked' = {Call(IF section' = None THEN "status" ELSE Fresh, "none")} /\ UNCHANGED hubSide
Press(kind) ==
    /\ section # None /\ status # None /\ ~section.busy /\ (kind = "unlink") = status.linked /\ Act
    /\ section' = [section EXCEPT !.busy = TRUE] /\ asked' = asked \cup {Call(kind, "handler")}
    /\ UNCHANGED <<hubSide, status, awaiting, stored, lastBot>>
-----------------------------------------------------------------------------
(* The answers *)

Get(c) == c.at = "answered"
\* createLink and unlink go on with refresh(); a code of another bot than the one shown is hidden
OfThisBot(a) == status # None => status.bot = a.bot
HandlerGoesOn(c) ==
    /\ Get(c) /\ c.kind \in {"link", "unlink"}
    /\ Wait(c.kind = "link")
    /\ section' = IF section = None THEN None
                  ELSE [section EXCEPT !.code = IF c.kind = "link" /\ OfThisBot(c.ans) THEN c.ans.bot ELSE None]
    /\ asked' = (asked \ {c}) \cup {Call("status", "handler")}
    /\ UNCHANGED <<hubSide, status, lastBot, tgCount>>
\* another bot than in the last status: getMe first
AskAgain(c) ==
    /\ Get(c) /\ c.kind = "status" /\ lastBot # None /\ c.ans.bot # lastBot
    /\ asked' = (asked \ {c}) \cup {Call(Fresh, c.then)} /\ UNCHANGED <<hubSide, client, tgCount>>
\* applyStatus, then the effects of the section
KeepCode(s, a) == ~a.linked /\ s.bot = a.bot /\ s.code = a.bot
Effects(a) == IF section = None THEN None
              ELSE [section EXCEPT !.bot = a.bot, !.code = IF KeepCode(section, a) THEN @ ELSE None]
BotMoved(a) == (lastBot # None /\ lastBot # a.bot) \/ (section # None /\ section.bot # a.bot)
ApplyStatus(c) ==
    /\ Get(c) /\ c.kind \in {"status", Fresh}
    /\ c.kind = Fresh \/ lastBot \in {None, c.ans.bot}
    /\ status' = c.ans /\ lastBot' = c.ans.bot
    /\ IF c.ans.linked \/ BotMoved(c.ans) THEN Wait(FALSE) ELSE UNCHANGED <<awaiting, stored>>
    /\ section' = Finished(Effects(c.ans), c.then)
    /\ asked' = asked \ {c} /\ UNCHANGED <<hubSide, tgCount>>
Fails(c) == /\ c.at = "failed" /\ asked' = asked \ {c} /\ section' = Finished(section, c.then)
            /\ UNCHANGED <<hubSide, status, awaiting, stored, lastBot, tgCount>>
-----------------------------------------------------------------------------
InitTelegram ==
    /\ bot = 1 /\ linked = FALSE /\ code = None /\ status = None /\ awaiting = FALSE /\ stored = FALSE
    /\ lastBot = None /\ section = None /\ asked = {Call("status", "none")}
    /\ tgCount = [acts |-> 0, bots |-> 0, lost |-> 0]

Inputs ==
    \/ Focus
    \/ OpenSection
    \/ CloseSection
    \/ Reload
    \/ Press("link")
    \/ Press("unlink")
ServeAny == \E c \in asked : Serve(c)
Take(c) == HandlerGoesOn(c) \/ AskAgain(c) \/ ApplyStatus(c) \/ Fails(c)
Answer == \E c \in asked : Take(c)
Next ==
    \/ Inputs
    \/ BotLinks
    \/ CodeExpires
    \/ AdminChangesBot
    \/ Tick
    \/ ServeAny
    \/ Answer
    \/ \E c \in asked : Lost(c)
Spec == InitTelegram /\ [][Next]_tgVars
\* what can be in flight, and the handler it is in flight for
Kind == {<<"status", "none">>, <<"status", "handler">>, <<Fresh, "none">>, <<Fresh, "handler">>,
         <<"link", "handler">>, <<"unlink", "handler">>}
Of(k) == {c \in asked : <<c.kind, c.then>> = k}
ServeKind(k) == \E c \in Of(k) : Serve(c)
TakeKind(k) == \E c \in Of(k) : Take(c)
-----------------------------------------------------------------------------
(* Properties *)

TypeOK ==
    /\ bot \in 1..(MaxBots + 1) /\ {linked, awaiting, stored} \subseteq BOOLEAN
    /\ code \in {None} \cup 0..MaxActs
    /\ status # None => status.bot \in 1..bot /\ status.linked \in BOOLEAN
    /\ section # None => section.busy \in BOOLEAN /\ section.code \in {None} \cup 1..bot

(* Once the bot has linked the account, a client that waits for it or shows the profile page
   notices, unless it stops to wait for it; also after a reload or failed polls. *)
Attentive == awaiting \/ section # None
LinkNoticed == (linked /\ Attentive) ~> (Linked \/ ~linked \/ ~Attentive)

(* frontend.md: the client "polls every 3s while a link code is pending (sessionStorage ...
   survives refresh)": as long as the code is pending, the client waits. *)
WaitKept == [][stored /\ ~stored' => code = None]_tgVars
=============================================================================
