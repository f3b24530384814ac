------------------------------ MODULE WebQueries ------------------------------
(* The filtered lists of the web client: the library (useLibraryList), the      *)
(* statistics of the organization and of the instance, the ledger of an         *)
(* organization and the audit log.  Every change of a filter sends a request,   *)
(* none is ever cancelled, and the last answer to arrive is shown.              *)
EXTENDS Naturals, FiniteSets

CONSTANTS MaxPicks,   \* inputs
          MaxUnheard, \* requests that fail
          None

List == {"library", "audit", "orgStats", "instanceStats", "ledger"}
Scope == 0..1                \* the tab, the organization, the card; 0 is all of them
Person == Scope \X {"user"}  \* somebody of a scope

VARIABLES
    list,     \* the list on the screen
    scope,    \* its outer filter
    person,   \* its inner filter, None for everybody
    page,     \* the page the user has turned to
    rows,     \* what is shown: the query and how many pages it has, None at first
    queries,  \* the requests in flight
    latest,   \* the newest request that has been answered
    overrun,  \* an answer came after that of a newer request
    pickCount \* inputs, failures, requests so far

queryVars == <<list, scope, person, page, rows, queries, latest, overrun, pickCount>>

Paged == {"library", "audit"}
\* the filters of these lists name a user of the organization chosen beside them
OfScope == {"audit", "instanceStats", "ledger"}
-----------------------------------------------------------------------------
(* The query *)

Extent(q) == IF list \in Paged /\ q.person = None THEN 2 ELSE 1
PagesShown == IF rows = None THEN 1 ELSE rows.pages
\* listPageBounds
SafePage(p, pages) == IF p < pages THEN p ELSE pages - 1
\* the library asks for the page the user turned to, the audit log for one that exists
AskedPage(p, pages) == IF list = "audit" THEN SafePage(p, pages) ELSE p
Query(s, i, p, pages) == [scope |-> s, person |-> i, page |-> AskedPage(p, pages)]
Current == Query(scope, person, page, PagesShown)

\* the queries the effects send, oldest first: the library first asks for the new filter with
\* the old page, then its other effect sets the page to 0
MutAsks(s, i, p) ==
    LET old == [scope |-> s, person |-> i, page |-> page]
    IN IF list = "library" THEN <<old>> ELSE <<Query(s, i, p, PagesShown)>>
Asks(s, i, p) ==
    LET old == [scope |-> s, person |-> i, page |-> page]
        new == Query(s, i, p, PagesShown)
    IN IF list = "library" /\ old # new THEN <<old, new>>
       ELSE IF new = Current THEN << >> ELSE <<new>>
Sent(qs) == {[id |-> pickCount.sent + n, q |-> qs[n], at |-> "sent"] : n \in DOMAIN qs}
Send(qs, more) ==
    /\ queries' = more \cup Sent(qs)
    /\ pickCount' = [pickCount EXCEPT !.sent = @ + Cardinality(DOMAIN qs)]
-----------------------------------------------------------------------------
(* The user *)

Pick(s, i) ==
    /\ pickCount.picks < MaxPicks
    /\ scope' = s /\ person' = i /\ page' = 0
    /\ LET qs == Asks(s, i, 0) IN
       /\ queries' = queries \cup Sent(qs)
       /\ pickCount' = [pickCount EXCEPT !.picks = @ + 1, !.sent = @ + Cardinality(DOMAIN qs)]
    /\ UNCHANGED <<list, latest, overrun>>
\* a tab, an organization; another card opens empty, with its filters cleared
SetScope(s) ==
    /\ s # scope /\ list # "orgStats" /\ Pick(s, IF list \in OfScope THEN None ELSE person)
    /\ rows' = IF list = "ledger" THEN None ELSE rows
SetPerson(i) ==
    /\ i # person
    /\ i # None => CASE list = "ledger" -> i[1] = scope
                     [] list \in OfScope -> i[1] = scope /\ scope # 0
                     [] OTHER -> i[1] = 0
    /\ Pick(scope, i) /\ UNCHANGED rows
\* Previous and Next count from the page that exists, by what is shown
TurnPage(p) ==
    /\ list \in Paged /\ rows # None /\ pickCount.picks < MaxPicks
    /\ p # SafePage(page, PagesShown) /\ p < PagesShown
    /\ page' = p
    /\ LET q == Query(scope, person, p, PagesShown) IN
       /\ queries' = IF q = Current THEN queries ELSE queries \cup Sent(<<q>>)
       /\ pickCount' = [pickCount EXCEPT !.picks = @ + 1, !.sent = IF q = Current THEN @ ELSE @ + 1]
    /\ UNCHANGED <<list, scope, person, rows, latest, overrun>>
-----------------------------------------------------------------------------
(* The hub and its answers *)

QueryFails(c) ==
    /\ pickCount.lost < MaxUnheard /\ pickCount' = [pickCount EXCEPT !.lost = @ + 1]
    /\ queries' = queries \ {c}
    /\ UNCHANGED <<list, scope, person, page, rows, latest, overrun>>
\* the answer brings the number of rows, which may move the audit log to another page
QueryAnswered(c) ==
    /\ rows' = [q |-> c.q, pages |-> Extent(c.q)]
    /\ latest' = IF c.id > latest THEN c.id ELSE latest
    /\ overrun' = (overrun \/ c.id < latest)
    /\ LET q == Query(scope, person, page, Extent(c.q))
       IN Send(IF q = Current THEN << >> ELSE <<q>>, queries \ {c})
    /\ UNCHANGED <<list, scope, person, page>>
-----------------------------------------------------------------------------
InitQueries ==
    /\ list \in List /\ scope = 0 /\ person = None /\ page = 0 /\ rows = None
    /\ queries = {[id |-> 1, q |-> [scope |-> 0, person |-> None, page |-> 0]]}
    /\ latest = 0 /\ overrun = FALSE
    /\ pickCount = [picks |-> 0, lost |-> 0, sent |-> 1]

AnswerQuery == \E c \in queries : QueryAnswered(c)
Next ==
    \/ \E s \in Scope : SetScope(s)
    \/ \E i \in Person \cup {None} : SetPerson(i)
    \/ \E p \in 0..1 : TurnPage(p)
    \/ \E c \in queries : QueryFails(c)
    \/ AnswerQuery
Spec == InitQueries /\ [][Next]_queryVars
-----------------------------------------------------------------------------
(* Properties *)

TypeOK ==
    /\ list \in List /\ scope \in Scope /\ person \in Person \cup {None} /\ page \in 0..1
    /\ rows # None => rows.q \in [scope : Scope, person : Person \cup {None}, page : 0..1]
    /\ overrun \in BOOLEAN /\ latest <= pickCount.sent

(* When every request has been answered, in order, the rows shown are those of the filters shown:
   an effect sent a request for the last combination of filters and page. *)
ListSettles == queries = {} /\ pickCount.lost = 0 /\ ~overrun => rows # None /\ rows.q = Current
=============================================================================
