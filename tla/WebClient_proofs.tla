--------------------------- MODULE WebClient_proofs ---------------------------
(* Theorems about the web client.  The filtered lists, the recording dialog and *)
(* the task pages come first, for any number of inputs, requests, streams and   *)
(* pauses.  Then what is proved about a part is carried to the client: a step   *)
(* of another part leaves its variables alone.                                  *)
EXTENDS WebClient, TLAPS, FiniteSetTheorems
-----------------------------------------------------------------------------
(* Cardinality is the same in every part. *)
LEMMA SameCardinality ==
    \A S : Lists!Cardinality(S) = Cardinality(S) /\ Recorder!Cardinality(S) = Cardinality(S)
PROOF BY DEF Lists!Cardinality, Recorder!Cardinality, Cardinality

(* The filtered lists                                                          *)

sentCount == pickCount.sent

(* Requests are numbered as they are sent, and answered once. *)
QueriesNumbered ==
    /\ newest \in Nat /\ newest <= sentCount
    /\ \A c \in queries : c.id \in Nat /\ c.id <= sentCount /\ c.id # newest
    /\ \A c, d \in queries : c.id = d.id => c = d
QueriesTyped ==
    /\ list \in Lists!List /\ scope \in Lists!Scope /\ person \in Lists!Person \cup {None}
    /\ listPage \in 0..1
    /\ overrun \in BOOLEAN
    /\ listRows # None => listRows.pages \in 1..2
    /\ pickCount \in [picks : Nat, lost : Nat, sent : Nat]

(* The newest request asks for what the filters show; once it has been answered, *)
(* only an answer that overtook it can replace its rows.                         *)
NewestAsked ==
    pickCount.lost = 0 =>
        \/ \E c \in queries : c.id = sentCount /\ c.q = Lists!Current
        \/ newest = sentCount /\ (~overrun => listRows # None /\ listRows.q = Lists!Current)

QueriesInv == QueriesTyped /\ QueriesNumbered /\ NewestAsked
-----------------------------------------------------------------------------
(* The lengths of what the effects of one input send. *)
LEMMA Lengths ==
    ASSUME NEW a, NEW b
    PROVE  /\ DOMAIN << >> = {} /\ Cardinality(DOMAIN << >>) = 0
           /\ DOMAIN <<a>> = {1} /\ Cardinality(DOMAIN <<a>>) = 1
           /\ DOMAIN <<a, b>> = {1, 2} /\ Cardinality(DOMAIN <<a, b>>) = 2
PROOF
<1>1. DOMAIN << >> = {} /\ DOMAIN <<a>> = {1} /\ DOMAIN <<a, b>> = {1, 2}
  OBVIOUS
<1>2. Cardinality({}) = 0 /\ Cardinality({1}) = 1
  BY FS_EmptySet, FS_Singleton
<1>3. Cardinality({1, 2}) = 2
  <2>1. {1, 2} = {1} \cup {2} /\ 2 \notin {1}
    OBVIOUS
  <2>2. IsFiniteSet({1})
    BY FS_Singleton
  <2>3. Cardinality({1} \cup {2}) = Cardinality({1}) + 1
    BY <2>1, <2>2, FS_AddElement, Zenon
  <2>. QED BY <1>2, <2>1, <2>3
<1>. QED BY <1>1, <1>2, <1>3

(* The count of inputs and requests. *)
LEMMA Counts ==
    ASSUME NEW k \in [picks : Nat, lost : Nat, sent : Nat], NEW m \in Nat, NEW n \in Nat,
           NEW l, l = [k EXCEPT !.picks = @ + m, !.sent = @ + n]
    PROVE  /\ l \in [picks : Nat, lost : Nat, sent : Nat]
           /\ l.sent = k.sent + n /\ l.lost = k.lost
PROOF
<1>. DEFINE a == [k EXCEPT !.picks = @ + m]
            b == [a EXCEPT !.sent = @ + n]
<1>1. a \in [picks : Nat, lost : Nat, sent : Nat] /\ a.sent = k.sent /\ a.lost = k.lost
  OBVIOUS
<1>. HIDE DEF a
<1>2. b \in [picks : Nat, lost : Nat, sent : Nat] /\ b.sent = k.sent + n /\ b.lost = k.lost
  BY <1>1
<1>3. l = b
  BY DEF a
<1>. QED BY <1>2, <1>3

(* An input that sends at least one request, the last of them for the new filters. *)
LEMMA SentSettles ==
    ASSUME QueriesInv, QueriesTyped', UNCHANGED <<newest, overrun, list>>,
           NEW q, NEW n \in {1, 2}, NEW old,
           queries' = queries \cup (IF n = 1 THEN Lists!Sent(<<q>>) ELSE Lists!Sent(<<old, q>>)),
           pickCount'.sent = pickCount.sent + n, Lists!Current' = q
    PROVE  QueriesInv'
PROOF
<1>1. sentCount \in Nat /\ sentCount' = sentCount + n
  BY DEF QueriesInv, QueriesTyped, sentCount
<1>2. \A c \in queries' \ queries : c.id \in Nat /\ sentCount < c.id /\ c.id <= sentCount'
  BY <1>1, Lengths DEF Lists!Sent, sentCount
<1>3. \A c, d \in queries' \ queries : c.id = d.id => c = d
  BY <1>1, Lengths DEF Lists!Sent, sentCount
<1>4. \E c \in queries' : c.id = sentCount' /\ c.q = q
  <2>1. CASE n = 1
    <3>1. [id |-> sentCount + 1, q |-> q, at |-> "sent"] \in Lists!Sent(<<q>>)
      BY Lengths DEF Lists!Sent, sentCount
    <3>. QED BY <1>1, <2>1, <3>1
  <2>2. CASE n = 2
    <3>1. [id |-> sentCount + 2, q |-> q, at |-> "sent"] \in Lists!Sent(<<old, q>>)
      BY Lengths DEF Lists!Sent, sentCount
    <3>. QED BY <1>1, <2>2, <3>1
  <2>. QED BY <2>1, <2>2
<1>5. NewestAsked'
  BY <1>4 DEF NewestAsked
<1>6. QueriesNumbered'
  <2>1. QueriesNumbered /\ queries \subseteq queries'
    BY DEF QueriesInv
  <2>. QED BY <1>1, <1>2, <1>3, <2>1 DEF QueriesNumbered
<1>. QED BY <1>5, <1>6 DEF QueriesInv

(* A new filter: the effects always ask for it. *)
LEMMA PickSettles ==
    ASSUME QueriesInv, NEW s \in Lists!Scope, NEW i \in Lists!Person \cup {None}, Lists!Pick(s, i),
           s # scope \/ i # person, listRows' \in {listRows, None},
           list = "audit" => listRows' = listRows
    PROVE  QueriesInv'
PROOF
<1>. DEFINE old == [scope |-> s, person |-> i, page |-> listPage]
            new == Lists!Query(s, i, 0, Lists!PagesShown)
            qs == Lists!Asks(s, i, 0)
<1>1. /\ scope' = s /\ person' = i /\ listPage' = 0 /\ UNCHANGED <<list, newest, overrun>>
      /\ queries' = queries \cup Lists!Sent(qs)
      /\ pickCount' = [pickCount EXCEPT !.picks = @ + 1, !.sent = @ + Cardinality(DOMAIN qs)]
  BY SameCardinality DEF Lists!Pick
<1>2. Lists!Current' = new
  BY <1>1 DEF Lists!Current, Lists!Query, Lists!AskedPage, Lists!PagesShown
<1>3. new # Lists!Current
  BY DEF Lists!Current, Lists!Query
<1>4. qs = <<old, new>> \/ qs = <<new>>
  BY <1>3 DEF Lists!Asks
<1>5. pickCount \in [picks : Nat, lost : Nat, sent : Nat]
  BY DEF QueriesInv, QueriesTyped
<1>. HIDE DEF new, old, qs
<1>6. PICK n \in {1, 2} : /\ qs = IF n = 1 THEN <<new>> ELSE <<old, new>>
                          /\ Cardinality(DOMAIN qs) = n
  BY <1>4, Lengths
<1>7. pickCount'.sent = pickCount.sent + n /\ pickCount' \in [picks : Nat, lost : Nat, sent : Nat]
  <2>1. pickCount' = [pickCount EXCEPT !.picks = @ + 1, !.sent = @ + n]
    BY <1>1, <1>6, Zenon
  <2>2. n \in Nat /\ 1 \in Nat
    OBVIOUS
  <2>. QED BY <1>5, <2>1, <2>2, Counts, Zenon
<1>8. QueriesTyped'
  BY <1>1, <1>7 DEF QueriesInv, QueriesTyped
<1>9. queries' = queries \cup (IF n = 1 THEN Lists!Sent(<<new>>) ELSE Lists!Sent(<<old, new>>))
  BY <1>1, <1>6
<1>. QED BY <1>1, <1>2, <1>7, <1>8, <1>9, SentSettles

LEMMA TurnPageSettles ==
    ASSUME QueriesInv, NEW p \in 0..1, Lists!TurnPage(p)
    PROVE  QueriesInv'
PROOF
<1>. DEFINE q == Lists!Query(scope, person, p, Lists!PagesShown)
<1>1. /\ listPage' = p /\ UNCHANGED <<list, scope, person, listRows, newest, overrun>>
      /\ queries' = IF q = Lists!Current THEN queries ELSE queries \cup Lists!Sent(<<q>>)
      /\ pickCount' = [pickCount EXCEPT !.picks = @ + 1,
                                        !.sent = IF q = Lists!Current THEN @ ELSE @ + 1]
  BY DEF Lists!TurnPage
<1>2. Lists!Current' = q
  BY <1>1 DEF Lists!Current, Lists!PagesShown, Lists!Query, Lists!AskedPage
<1>3. pickCount \in [picks : Nat, lost : Nat, sent : Nat]
  BY DEF QueriesInv, QueriesTyped
<1>. HIDE DEF q
<1>4. CASE q = Lists!Current
  <2>1. /\ pickCount'.sent = pickCount.sent /\ pickCount'.lost = pickCount.lost
        /\ pickCount' \in [picks : Nat, lost : Nat, sent : Nat]
    <3>1. pickCount' = [pickCount EXCEPT !.picks = @ + 1, !.sent = @]
      BY <1>1, <1>4, Zenon
    <3>2. pickCount' = [pickCount EXCEPT !.picks = @ + 1]
      BY <1>3, <3>1
    <3>. QED BY <1>3, <3>2
  <2>2. QueriesTyped' /\ QueriesNumbered'
    BY <1>1, <1>4, <2>1 DEF QueriesInv, QueriesTyped, QueriesNumbered, sentCount
  <2>3. NewestAsked'
    BY <1>1, <1>2, <1>4, <2>1 DEF QueriesInv, NewestAsked, sentCount
  <2>. QED BY <2>2, <2>3 DEF QueriesInv
<1>5. CASE q # Lists!Current
  <2>1. /\ pickCount'.sent = pickCount.sent + 1
        /\ pickCount' \in [picks : Nat, lost : Nat, sent : Nat]
    <3>1. pickCount' = [pickCount EXCEPT !.picks = @ + 1, !.sent = @ + 1]
      BY <1>1, <1>5, Zenon
    <3>2. 1 \in Nat
      OBVIOUS
    <3>. QED BY <1>3, <3>1, <3>2, Counts, Zenon
  <2>2. QueriesTyped'
    BY <1>1, <2>1 DEF QueriesInv, QueriesTyped
  <2>. QED BY <1>1, <1>2, <1>5, <2>1, <2>2, SentSettles
<1>. QED BY <1>4, <1>5

LEMMA FailSettles ==
    ASSUME QueriesInv, NEW c \in queries, Lists!QueryFails(c)
    PROVE  QueriesInv'
PROOF
<1>1. /\ pickCount \in [picks : Nat, lost : Nat, sent : Nat]
      /\ pickCount' = [pickCount EXCEPT !.lost = @ + 1] /\ queries' = queries \ {c}
      /\ UNCHANGED <<list, scope, person, listPage, listRows, newest, overrun>>
  BY DEF Lists!QueryFails, QueriesInv, QueriesTyped
<1>2. /\ pickCount'.sent = pickCount.sent /\ pickCount'.lost # 0
      /\ pickCount' \in [picks : Nat, lost : Nat, sent : Nat]
  BY <1>1
<1>. QED BY <1>1, <1>2 DEF QueriesInv, QueriesTyped, QueriesNumbered, NewestAsked, sentCount

(* An answer is shown; if it moves the audit log to another page, that page is *)
(* asked for.                                                                  *)
LEMMA AnswerSettles ==
    ASSUME QueriesInv, NEW c \in queries, Lists!QueryAnswered(c),
           \A x, n : None # [q |-> x, pages |-> n]
    PROVE  QueriesInv'
PROOF
<1>. DEFINE q == Lists!Query(scope, person, listPage, Lists!Extent(c.q))
            qs == IF q = Lists!Current THEN << >> ELSE <<q>>
<1>1. /\ listRows' = [q |-> c.q, pages |-> Lists!Extent(c.q)]
      /\ newest' = (IF c.id > newest THEN c.id ELSE newest)
      /\ overrun' = (overrun \/ c.id < newest)
      /\ queries' = (queries \ {c}) \cup Lists!Sent(qs)
      /\ pickCount' = [pickCount EXCEPT !.sent = @ + Cardinality(DOMAIN qs)]
      /\ UNCHANGED <<list, scope, person, listPage>>
  BY SameCardinality DEF Lists!QueryAnswered, Lists!Send
<1>2. /\ listRows' # None /\ listRows'.q = c.q /\ listRows'.pages = Lists!Extent(c.q)
      /\ Lists!Extent(c.q) \in 1..2
  BY <1>1 DEF Lists!Extent
<1>3. Lists!Current' = q
  BY <1>1, <1>2 DEF Lists!Current, Lists!PagesShown, Lists!Query, Lists!AskedPage
<1>4. /\ pickCount \in [picks : Nat, lost : Nat, sent : Nat] /\ newest \in Nat
      /\ QueriesNumbered /\ NewestAsked /\ c.id \in Nat /\ c.id <= sentCount /\ c.id # newest
  BY DEF QueriesInv, QueriesTyped, QueriesNumbered
<1>5. \A d \in queries \ {c} : d.id # c.id
  BY <1>4 DEF QueriesNumbered
<1>. HIDE DEF q
<1>6. CASE q = Lists!Current
  <2>1. queries' = queries \ {c} /\ pickCount' = pickCount
    <3>1. qs = << >> /\ Cardinality(DOMAIN qs) = 0 /\ Lists!Sent(qs) = {}
      BY <1>6, Lengths DEF Lists!Sent
    <3>. HIDE DEF qs
    <3>. QED BY <1>1, <1>4, <3>1
  <2>2. QueriesTyped'
    BY <1>1, <1>2, <2>1 DEF QueriesInv, QueriesTyped
  <2>3. QueriesNumbered'
    BY <1>1, <1>4, <1>5, <2>1 DEF QueriesNumbered, sentCount
  <2>4. NewestAsked'
    <3>1. CASE pickCount.lost # 0
      BY <2>1, <3>1 DEF NewestAsked
    <3>2. CASE c.id = sentCount /\ c.q = Lists!Current
      BY <1>1, <1>2, <1>3, <1>4, <1>6, <2>1, <3>2 DEF QueriesNumbered, NewestAsked, sentCount
    <3>3. ASSUME NEW d \in queries, d # c, d.id = sentCount, d.q = Lists!Current PROVE NewestAsked'
      BY <1>3, <1>6, <2>1, <3>3 DEF NewestAsked, sentCount
    <3>4. CASE newest = sentCount
      <4>1. c.id < newest /\ sentCount' = sentCount
        BY <1>4, <2>1, <3>4 DEF sentCount
      <4>2. newest' = newest
        BY <1>1, <1>4, <4>1
      <4>3. overrun'
        BY <1>1, <4>1, Zenon
      <4>. QED BY <3>4, <4>1, <4>2, <4>3 DEF NewestAsked
    <3>. QED BY <1>4, <3>1, <3>2, <3>3, <3>4 DEF NewestAsked
  <2>. QED BY <2>2, <2>3, <2>4 DEF QueriesInv
<1>7. CASE q # Lists!Current
  <2>. DEFINE d == [id |-> sentCount + 1, q |-> q, at |-> "sent"]
  <2>1. /\ queries' = (queries \ {c}) \cup {d}
        /\ pickCount'.sent = sentCount + 1 /\ pickCount' \in [picks : Nat, lost : Nat, sent : Nat]
    <3>1. Cardinality(DOMAIN qs) = 1 /\ Lists!Sent(qs) = {d}
      BY <1>7, Lengths DEF Lists!Sent, sentCount
    <3>. HIDE DEF qs, d
    <3>. QED BY <1>1, <1>4, <3>1 DEF sentCount
  <2>2. d.id = sentCount + 1 /\ d.q = q
    OBVIOUS
  <2>. HIDE DEF d
  <2>3. QueriesTyped'
    BY <1>1, <1>2, <2>1 DEF QueriesInv, QueriesTyped
  <2>4. QueriesNumbered'
    BY <1>1, <1>4, <1>5, <2>1, <2>2 DEF QueriesNumbered, sentCount
  <2>5. NewestAsked'
    BY <1>3, <2>1, <2>2 DEF NewestAsked, sentCount
  <2>. QED BY <2>3, <2>4, <2>5 DEF QueriesInv
<1>. QED BY <1>6, <1>7

LEMMA InitQueriesHolds == Lists!InitQueries => QueriesInv
PROOF
<1>. SUFFICES ASSUME Lists!InitQueries PROVE QueriesInv
  OBVIOUS
<1>1. QueriesTyped
  <2>1. scope \in Lists!Scope /\ listPage \in 0..1 /\ pickCount \in [picks : Nat, lost : Nat, sent : Nat]
    BY DEF Lists!InitQueries, Lists!Scope
  <2>. QED BY <2>1, Zenon DEF Lists!InitQueries, QueriesTyped
<1>2. QueriesNumbered
  BY DEF Lists!InitQueries, QueriesNumbered, sentCount
<1>3. NewestAsked
  BY DEF Lists!InitQueries, NewestAsked, sentCount, Lists!Current, Lists!Query, Lists!AskedPage,
       Lists!PagesShown, Lists!SafePage
<1>. QED BY <1>1, <1>2, <1>3 DEF QueriesInv

LEMMA NextQueriesHolds ==
    ASSUME \A x, n : None # [q |-> x, pages |-> n], QueriesInv, [Lists!Next]_(Lists!queryVars)
    PROVE  QueriesInv'
PROOF
<1>1. ASSUME NEW s \in Lists!Scope, Lists!SetScope(s) PROVE QueriesInv'
  <2>. DEFINE i == IF list \in Lists!OfScope THEN None ELSE person
  <2>1. /\ s # scope /\ Lists!Pick(s, i) /\ listRows' \in {listRows, None}
        /\ list = "audit" => listRows' = listRows
        /\ i \in Lists!Person \cup {None}
    BY <1>1 DEF Lists!SetScope, QueriesInv, QueriesTyped
  <2>. HIDE DEF i
  <2>. QED BY <2>1, PickSettles
<1>2. ASSUME NEW i \in Lists!Person \cup {None}, Lists!SetPerson(i) PROVE QueriesInv'
  <2>1. i # person /\ Lists!Pick(scope, i) /\ listRows' = listRows /\ scope \in Lists!Scope
    BY <1>2 DEF Lists!SetPerson, QueriesInv, QueriesTyped
  <2>. QED BY <2>1, PickSettles
<1>3. ASSUME NEW p \in 0..1, Lists!TurnPage(p) PROVE QueriesInv'
  BY <1>3, TurnPageSettles
<1>4. ASSUME NEW c \in queries, Lists!QueryFails(c) PROVE QueriesInv'
  BY <1>4, FailSettles
<1>5. ASSUME NEW c \in queries, Lists!QueryAnswered(c) PROVE QueriesInv'
  BY <1>5, AnswerSettles
<1>6. CASE UNCHANGED Lists!queryVars
  BY <1>6 DEF Lists!queryVars, QueriesInv, QueriesTyped, QueriesNumbered, NewestAsked, sentCount,
       Lists!Current, Lists!Query, Lists!AskedPage, Lists!PagesShown
<1>. QED BY <1>1, <1>2, <1>3, <1>4, <1>5, <1>6 DEF Lists!Next, Lists!AnswerQuery

(* A list whose requests have all been answered, in order, shows what its filters *)
(* say, however often they are changed: useLibraryList and the effects of the     *)
(* statistics, the ledger and the audit log always ask for the last choice.       *)
THEOREM ListsSettle == (\A x, n : None # [q |-> x, pages |-> n]) /\ Lists!Spec => []Lists!ListSettles
PROOF
<1>. SUFFICES ASSUME \A x, n : None # [q |-> x, pages |-> n]
              PROVE  Lists!Spec => []Lists!ListSettles
  OBVIOUS
<1>1. QueriesInv /\ [Lists!Next]_(Lists!queryVars) => QueriesInv'
  BY NextQueriesHolds
<1>2. QueriesInv => Lists!ListSettles
  BY DEF QueriesInv, NewestAsked, Lists!ListSettles
<1>. QED BY <1>1, <1>2, InitQueriesHolds, PTL DEF Lists!Spec
-----------------------------------------------------------------------------
(* Types: what a list asks for and what it shows are combinations of its filters. *)
Queried == [scope : Lists!Scope, person : Lists!Person \cup {None}, page : 0..1]
QueriesOK == /\ \A c \in queries : c.q \in Queried
             /\ listRows # None => listRows.q \in Queried

LEMMA PagesTyped == QueriesInv => Lists!PagesShown \in 1..2
<1>1. QueriesInv => (listRows # None => listRows.pages \in 1..2)
    BY DEF QueriesInv, QueriesTyped
<1>2. 1 \in 1..2
    OBVIOUS
<1> QED BY <1>1, <1>2, Zenon DEF Lists!PagesShown

LEMMA QueryTyped ==
    ASSUME NEW s \in Lists!Scope, NEW i \in Lists!Person \cup {None}, NEW p \in 0..1, NEW n \in 1..2
    PROVE  Lists!Query(s, i, p, n) \in Queried
BY DEF Lists!Query, Lists!AskedPage, Lists!SafePage, Queried

LEMMA SentTyped ==
    /\ Lists!Sent(<< >>) = {}
    /\ \A q \in Queried : \A c \in Lists!Sent(<<q>>) : c.q \in Queried
    /\ \A q, r \in Queried : \A c \in Lists!Sent(<<q, r>>) : c.q \in Queried
BY Lengths DEF Lists!Sent

LEMMA PickTyped ==
    ASSUME QueriesInv, QueriesOK, NEW s \in Lists!Scope, NEW i \in Lists!Person \cup {None},
           Lists!Pick(s, i)
    PROVE  \A c \in queries' : c.q \in Queried
<1> DEFINE old == [scope |-> s, person |-> i, page |-> listPage]
           new == Lists!Query(s, i, 0, Lists!PagesShown)
<1>1. old \in Queried /\ Lists!PagesShown \in 1..2
    BY PagesTyped DEF QueriesInv, QueriesTyped, Queried
<1>2. new \in Queried
    BY <1>1, QueryTyped
<1>3. Lists!Asks(s, i, 0) \in {<< >>, <<new>>, <<old, new>>}
    BY DEF Lists!Asks
<1>4. queries' = queries \cup Lists!Sent(Lists!Asks(s, i, 0))
    BY DEF Lists!Pick
<1> HIDE DEF old, new
<1> QED BY <1>1, <1>2, <1>3, <1>4, SentTyped DEF QueriesOK

LEMMA QueriesTypeStep ==
    ASSUME QueriesInv, QueriesOK, [Lists!Next]_(Lists!queryVars)
    PROVE  QueriesOK'
<1>t. /\ scope \in Lists!Scope /\ person \in Lists!Person \cup {None} /\ listPage \in 0..1
      /\ Lists!PagesShown \in 1..2
    BY PagesTyped DEF QueriesInv, QueriesTyped
<1>1. ASSUME NEW s \in Lists!Scope, Lists!SetScope(s) PROVE QueriesOK'
  <2> DEFINE i == IF list \in Lists!OfScope THEN None ELSE person
  <2>1. Lists!Pick(s, i) /\ i \in Lists!Person \cup {None} /\ listRows' \in {listRows, None}
    BY <1>1, <1>t DEF Lists!SetScope
  <2> HIDE DEF i
  <2> QED BY <2>1, PickTyped DEF QueriesOK
<1>2. ASSUME NEW i \in Lists!Person \cup {None}, Lists!SetPerson(i) PROVE QueriesOK'
  <2>1. Lists!Pick(scope, i) /\ listRows' = listRows
    BY <1>2 DEF Lists!SetPerson
  <2> QED BY <2>1, <1>t, PickTyped DEF QueriesOK
<1>3. ASSUME NEW p \in 0..1, Lists!TurnPage(p) PROVE QueriesOK'
  <2> DEFINE q == Lists!Query(scope, person, p, Lists!PagesShown)
  <2>1. q \in Queried
    BY <1>t, QueryTyped
  <2>2. queries' \in {queries, queries \cup Lists!Sent(<<q>>)} /\ listRows' = listRows
    BY <1>3 DEF Lists!TurnPage
  <2> HIDE DEF q
  <2> QED BY <2>1, <2>2, SentTyped DEF QueriesOK
<1>4. ASSUME NEW c \in queries, Lists!QueryFails(c) PROVE QueriesOK'
    BY <1>4 DEF Lists!QueryFails, QueriesOK
<1>5. ASSUME NEW c \in queries, Lists!QueryAnswered(c) PROVE QueriesOK'
  <2> DEFINE q == Lists!Query(scope, person, listPage, Lists!Extent(c.q))
  <2>1. Lists!Extent(c.q) \in 1..2
    BY DEF Lists!Extent
  <2>2. q \in Queried
    BY <2>1, <1>t, QueryTyped
  <2>3. \E qs \in {<< >>, <<q>>} : queries' = (queries \ {c}) \cup Lists!Sent(qs)
    BY <1>5 DEF Lists!QueryAnswered, Lists!Send
  <2>4. listRows'.q = c.q
    BY <1>5 DEF Lists!QueryAnswered
  <2> HIDE DEF q
  <2> QED BY <2>2, <2>3, <2>4, SentTyped DEF QueriesOK
<1>6. CASE UNCHANGED Lists!queryVars
    BY <1>6 DEF Lists!queryVars, QueriesOK
<1> QED BY <1>1, <1>2, <1>3, <1>4, <1>5, <1>6 DEF Lists!Next, Lists!AnswerQuery

LEMMA ListsTyping ==
    (\A x, n : None # [q |-> x, pages |-> n]) /\ Lists!Spec => []Lists!TypeOK
<1> SUFFICES ASSUME \A x, n : None # [q |-> x, pages |-> n] PROVE Lists!Spec => []Lists!TypeOK
    OBVIOUS
<1>1. Lists!InitQueries => QueriesOK
    BY DEF Lists!InitQueries, QueriesOK, Queried, Lists!Scope
<1>2. QueriesInv /\ [Lists!Next]_(Lists!queryVars) => QueriesInv'
    BY NextQueriesHolds
<1>3. QueriesInv /\ QueriesOK /\ [Lists!Next]_(Lists!queryVars) => QueriesOK'
    BY QueriesTypeStep
<1>4. QueriesInv /\ QueriesOK => Lists!TypeOK
  <2>1. QueriesInv => newest <= pickCount.sent
    BY DEF QueriesInv, QueriesNumbered, sentCount
  <2> QED BY <2>1, Zenon DEF QueriesInv, QueriesTyped, QueriesOK, Queried, Lists!TypeOK
<1> QED BY InitQueriesHolds, <1>1, <1>2, <1>3, <1>4, PTL DEF Lists!Spec
-----------------------------------------------------------------------------
(* The recording dialog: whatever the order in which the browser answers, one   *)
(* dialog holds one microphone and uploads one take.                            *)

\* what is open and what has been heard belongs to the current stream
OneStreamOK ==
    /\ live \subseteq {ref} /\ chunks \subseteq {ref} /\ recorder \in {ref, NoStream}
    /\ Cardinality(upload) <= 1

\* while startCapture waits for the old recorder, and then for the new stream
StartOK ==
    /\ start.at = "stopping" => recorder = NoStream /\ switching
    /\ start.at = "media" =>
        live = {} /\ chunks = {} /\ recorder = NoStream /\ starting /\ start.gen <= gen

\* handleSave waits alone, and with nothing in its hands once the dialog is closed
SaveOK ==
    save.at = "stopping" =>
        saving /\ start.at = "idle" /\ recorder = NoStream /\ (open \/ chunks = {})

\* a dialog closed with no recorder being stopped has let go of everything
ClosedOK ==
    ~open /\ ~raced =>
        /\ live = {} /\ start.at # "stopping" /\ save.at # "stopping"
        /\ start.at = "media" => Recorder!Stale

RecorderTyped == gen \in Nat /\ start.gen \in Nat /\ start.at \in Recorder!StartAt
RecorderInv == RecorderTyped /\ OneStreamOK /\ StartOK /\ SaveOK /\ ClosedOK
-----------------------------------------------------------------------------
LEMMA AtMostOne ==
    ASSUME NEW x, NEW S, S \subseteq {x}
    PROVE  IsFiniteSet(S) /\ Cardinality(S) <= 1
<1>1. IsFiniteSet({x}) /\ Cardinality({x}) = 1
    BY FS_Singleton
<1> QED BY <1>1, FS_Subset

LEMMA InitRecorderHolds == Recorder!Init => RecorderInv
BY FS_EmptySet DEF Recorder!Init, RecorderInv, RecorderTyped, Recorder!StartAt, OneStreamOK,
    StartOK,
     SaveOK, ClosedOK, Recorder!Stale

LEMMA RecorderStoppedKeeps == RecorderInv /\ Recorder!RecorderStopped => RecorderInv'
<1> SUFFICES ASSUME RecorderInv, Recorder!RecorderStopped PROVE RecorderInv'
    OBVIOUS
<1> USE DEF RecorderInv, RecorderTyped, Recorder!StartAt, OneStreamOK, StartOK, SaveOK,
     Recorder!RecorderStopped, Recorder!Released, Recorder!Ask, Recorder!Dropped
<1>1. RecorderTyped'
    OBVIOUS
<1>2. OneStreamOK'
    OBVIOUS
<1>3. StartOK'
    OBVIOUS
<1>4. SaveOK'
    OBVIOUS
<1>5. ClosedOK'
    BY DEF ClosedOK, Recorder!Stale
<1> QED BY <1>1, <1>2, <1>3, <1>4, <1>5

LEMMA GrantedKeeps == RecorderInv /\ (\E s \in Stream : Recorder!Granted(s)) => RecorderInv'
<1> SUFFICES ASSUME RecorderInv, \E s \in Stream : Recorder!Granted(s) PROVE RecorderInv'
    OBVIOUS
<1> USE DEF RecorderInv, RecorderTyped, Recorder!StartAt, OneStreamOK, StartOK, SaveOK,
     Recorder!Granted, Recorder!Unused, Recorder!NoStart
<1>1. RecorderTyped'
    OBVIOUS
<1>2. OneStreamOK'
    OBVIOUS
<1>3. StartOK'
    OBVIOUS
<1>4. SaveOK'
    OBVIOUS
<1>5. ClosedOK'
    BY DEF ClosedOK, Recorder!Stale
<1> QED BY <1>1, <1>2, <1>3, <1>4, <1>5

LEMMA GrantedTooLateKeeps == RecorderInv /\ Recorder!GrantedTooLate => RecorderInv'
<1> SUFFICES ASSUME RecorderInv, Recorder!GrantedTooLate PROVE RecorderInv'
    OBVIOUS
<1> USE DEF RecorderInv, RecorderTyped, Recorder!StartAt, OneStreamOK, StartOK, SaveOK,
     Recorder!GrantedTooLate, Recorder!NoStart, Recorder!refs
<1>1. RecorderTyped'
    OBVIOUS
<1>2. OneStreamOK'
    OBVIOUS
<1>3. StartOK'
    OBVIOUS
<1>4. SaveOK'
    OBVIOUS
<1>5. ClosedOK'
    BY DEF ClosedOK, Recorder!Stale
<1> QED BY <1>1, <1>2, <1>3, <1>4, <1>5

LEMMA DeniedKeeps == RecorderInv /\ Recorder!Denied => RecorderInv'
<1> SUFFICES ASSUME RecorderInv, Recorder!Denied PROVE RecorderInv'
    OBVIOUS
<1> USE DEF RecorderInv, RecorderTyped, Recorder!StartAt, OneStreamOK, StartOK, SaveOK,
     Recorder!Denied, Recorder!NoStart, Recorder!Leave, Recorder!Detach, Recorder!refs,
     Recorder!Dropped
<1>1. RecorderTyped'
    OBVIOUS
<1>2. OneStreamOK'
    OBVIOUS
<1>3. StartOK'
    OBVIOUS
<1>4. SaveOK'
    OBVIOUS
<1>5. ClosedOK'
    BY DEF ClosedOK, Recorder!Stale
<1> QED BY <1>1, <1>2, <1>3, <1>4, <1>5

LEMMA ChunkKeeps == RecorderInv /\ Recorder!Chunk => RecorderInv'
<1> SUFFICES ASSUME RecorderInv, Recorder!Chunk PROVE RecorderInv'
    OBVIOUS
<1> USE DEF RecorderInv, RecorderTyped, Recorder!StartAt, OneStreamOK, StartOK, SaveOK,
    Recorder!Chunk
<1>1. RecorderTyped'
    OBVIOUS
<1>2. OneStreamOK'
    OBVIOUS
<1>3. StartOK'
    OBVIOUS
<1>4. SaveOK'
    OBVIOUS
<1>5. ClosedOK'
    BY DEF ClosedOK, Recorder!Stale
<1> QED BY <1>1, <1>2, <1>3, <1>4, <1>5

LEMMA UnplugKeeps == RecorderInv /\ Recorder!Unplug => RecorderInv'
<1> SUFFICES ASSUME RecorderInv, Recorder!Unplug PROVE RecorderInv'
    OBVIOUS
<1> USE DEF RecorderInv, RecorderTyped, Recorder!StartAt, OneStreamOK, StartOK, SaveOK,
     Recorder!Unplug, Recorder!flags
<1>1. RecorderTyped'
    OBVIOUS
<1>2. OneStreamOK'
    OBVIOUS
<1>3. StartOK'
    OBVIOUS
<1>4. SaveOK'
    OBVIOUS
<1>5. ClosedOK'
    BY DEF ClosedOK, Recorder!Stale
<1> QED BY <1>1, <1>2, <1>3, <1>4, <1>5

LEMMA PauseKeeps == RecorderInv /\ Recorder!Pause => RecorderInv'
<1> SUFFICES ASSUME RecorderInv, Recorder!Pause PROVE RecorderInv'
    OBVIOUS
<1> USE DEF RecorderInv, RecorderTyped, Recorder!StartAt, OneStreamOK, StartOK, SaveOK,
    Recorder!Pause,
     Recorder!Transport
<1>1. RecorderTyped'
    OBVIOUS
<1>2. OneStreamOK'
    OBVIOUS
<1>3. StartOK'
    OBVIOUS
<1>4. SaveOK'
    OBVIOUS
<1>5. ClosedOK'
    BY DEF ClosedOK, Recorder!Stale
<1> QED BY <1>1, <1>2, <1>3, <1>4, <1>5

LEMMA ResumeKeeps == RecorderInv /\ Recorder!Resume => RecorderInv'
<1> SUFFICES ASSUME RecorderInv, Recorder!Resume PROVE RecorderInv'
    OBVIOUS
<1> USE DEF RecorderInv, RecorderTyped, Recorder!StartAt, OneStreamOK, StartOK, SaveOK,
     Recorder!Resume, Recorder!Transport
<1>1. RecorderTyped'
    OBVIOUS
<1>2. OneStreamOK'
    OBVIOUS
<1>3. StartOK'
    OBVIOUS
<1>4. SaveOK'
    OBVIOUS
<1>5. ClosedOK'
    BY DEF ClosedOK, Recorder!Stale
<1> QED BY <1>1, <1>2, <1>3, <1>4, <1>5

LEMMA SwitchDeviceKeeps == RecorderInv /\ Recorder!SwitchDevice => RecorderInv'
<1> SUFFICES ASSUME RecorderInv, Recorder!SwitchDevice PROVE RecorderInv'
    OBVIOUS
<1> USE DEF RecorderInv, RecorderTyped, Recorder!StartAt, OneStreamOK, StartOK, SaveOK,
     Recorder!SwitchDevice, Recorder!StartCapture, Recorder!Stopping, Recorder!Detach,
     Recorder!Released, Recorder!Ask, Recorder!Transport, Recorder!Dropped
<1>1. RecorderTyped'
    OBVIOUS
<1>2. OneStreamOK'
    OBVIOUS
<1>3. StartOK'
    OBVIOUS
<1>4. SaveOK'
    OBVIOUS
<1>5. ClosedOK'
    BY DEF ClosedOK, Recorder!Stale
<1> QED BY <1>1, <1>2, <1>3, <1>4, <1>5

LEMMA SaveKeeps == RecorderInv /\ Recorder!Save => RecorderInv'
<1> SUFFICES ASSUME RecorderInv, Recorder!Save PROVE RecorderInv'
    OBVIOUS
<1> USE DEF RecorderInv, RecorderTyped, Recorder!StartAt, OneStreamOK, StartOK, SaveOK,
    Recorder!Save,
     Recorder!Transport, Recorder!Detach, Recorder!Stopping
<1>1. RecorderTyped'
    OBVIOUS
<1>2. OneStreamOK'
    OBVIOUS
<1>3. StartOK'
    OBVIOUS
<1>4. SaveOK'
    OBVIOUS
<1>5. ClosedOK'
    BY DEF ClosedOK, Recorder!Stale
<1> QED BY <1>1, <1>2, <1>3, <1>4, <1>5

LEMMA UploadsKeeps == RecorderInv /\ Recorder!Uploads => RecorderInv'
<1> SUFFICES ASSUME RecorderInv, Recorder!Uploads PROVE RecorderInv'
    OBVIOUS
<1> USE DEF RecorderInv, RecorderTyped, Recorder!StartAt, OneStreamOK, StartOK, SaveOK,
     Recorder!Uploads, Recorder!BigEnough, Recorder!flags
<1>1. RecorderTyped'
    OBVIOUS
<1>2. OneStreamOK'
    BY AtMostOne
<1>3. StartOK'
    OBVIOUS
<1>4. SaveOK'
    OBVIOUS
<1>5. ClosedOK'
    BY DEF ClosedOK, Recorder!Stale
<1> QED BY <1>1, <1>2, <1>3, <1>4, <1>5

LEMMA TooShortKeeps == RecorderInv /\ Recorder!TooShort => RecorderInv'
<1> SUFFICES ASSUME RecorderInv, Recorder!TooShort PROVE RecorderInv'
    OBVIOUS
<1> USE DEF RecorderInv, RecorderTyped, Recorder!StartAt, OneStreamOK, StartOK, SaveOK,
     Recorder!TooShort, Recorder!Again, Recorder!Released, Recorder!Ask, Recorder!Dropped
<1>1. RecorderTyped'
    OBVIOUS
<1>2. OneStreamOK'
    OBVIOUS
<1>3. StartOK'
    OBVIOUS
<1>4. SaveOK'
    OBVIOUS
<1>5. ClosedOK'
    BY DEF ClosedOK, Recorder!Stale
<1> QED BY <1>1, <1>2, <1>3, <1>4, <1>5

LEMMA CloseKeeps == RecorderInv /\ Recorder!Close => RecorderInv'
<1> SUFFICES ASSUME RecorderInv, Recorder!Close PROVE RecorderInv'
    OBVIOUS
<1> USE DEF RecorderInv, RecorderTyped, Recorder!StartAt, OneStreamOK, StartOK, SaveOK,
    Recorder!Close,
     Recorder!Leave, Recorder!Detach, Recorder!Dropped
<1>1. RecorderTyped'
    OBVIOUS
<1>2. OneStreamOK'
    OBVIOUS
<1>3. StartOK'
    OBVIOUS
<1>4. SaveOK'
    OBVIOUS
<1>5. ClosedOK'
  <2>1. live' = {}
    OBVIOUS
  <2>2. ~raced' => start'.at # "stopping" /\ save'.at # "stopping"
    OBVIOUS
  <2>3. start'.at = "media" => Recorder!Stale'
    BY DEF Recorder!Stale
  <2> QED BY <2>1, <2>2, <2>3 DEF ClosedOK
<1> QED BY <1>1, <1>2, <1>3, <1>4, <1>5

LEMMA RecorderRests == RecorderInv /\ UNCHANGED Recorder!rVars => RecorderInv'
BY DEF Recorder!rVars, RecorderInv, RecorderTyped, Recorder!StartAt, OneStreamOK, StartOK, SaveOK,
     ClosedOK, Recorder!Stale

LEMMA NextRecorderHolds == RecorderInv /\ [Recorder!Next]_(Recorder!rVars) => RecorderInv'
<1> SUFFICES ASSUME RecorderInv, [Recorder!Next]_(Recorder!rVars) PROVE RecorderInv'
    OBVIOUS
<1> QED
    BY RecorderStoppedKeeps, GrantedKeeps, GrantedTooLateKeeps, DeniedKeeps, ChunkKeeps,
       UnplugKeeps, PauseKeeps, ResumeKeeps, SwitchDeviceKeeps, SaveKeeps, UploadsKeeps,
       TooShortKeeps, CloseKeeps, RecorderRests
    DEF Recorder!Next, Recorder!Browser
(* The strengthening that the others rest on: what releaseCapture, startCapture and handleSave
   leave in the refs of the dialog at each of their awaits. *)
THEOREM RecorderInvariant == Recorder!Spec => []RecorderInv
<1>1. Recorder!Init => RecorderInv
    BY InitRecorderHolds
<1>2. RecorderInv /\ [Recorder!Next]_(Recorder!rVars) => RecorderInv'
    BY NextRecorderHolds
<1> QED BY <1>1, <1>2, PTL DEF Recorder!Spec

(* startCapture opens a stream only after releaseCapture has stopped the tracks of the one
   before: a dialog holds one microphone, however late getUserMedia answers. *)
THEOREM HoldsOneMicrophone == Recorder!Spec => []Recorder!OneMicrophone
<1>1. RecorderInv => Recorder!OneMicrophone
    BY AtMostOne, SameCardinality DEF RecorderInv, OneStreamOK, Recorder!OneMicrophone
<1> QED BY <1>1, RecorderInvariant, PTL

(* chunksRef never mixes two recorders, so handleSave uploads audio of one of them. *)
THEOREM UploadsOneTake == Recorder!Spec => []Recorder!OneTake
<1>1. RecorderInv => Recorder!OneTake
    BY AtMostOne, SameCardinality DEF RecorderInv, OneStreamOK, Recorder!OneTake
<1> QED BY <1>1, RecorderInvariant, PTL

(* The cleanup of the dialog turns the microphone off, and the generation keeps it off, unless
   the dialog was closed while a recorder was being stopped. *)
THEOREM TurnsMicrophoneOff == Recorder!Spec => []Recorder!MicrophoneOff
<1>1. RecorderInv => Recorder!MicrophoneOff
    BY DEF RecorderInv, ClosedOK, Recorder!MicrophoneOff
<1> QED BY <1>1, RecorderInvariant, PTL

(* A dialog closed while handleSave stops the recorder has emptied chunksRef, so handleSave
   finds nothing to upload: what the user dismissed stays dismissed. *)
THEOREM DismissalIsFinal == Recorder!Spec => Recorder!DismissedStays
<1>1. RecorderInv /\ [Recorder!Next]_(Recorder!rVars) => [~open => upload' = upload]_(Recorder!rVars)
  <2> SUFFICES ASSUME RecorderInv, Recorder!Next, ~open PROVE upload' = upload
    BY DEF Recorder!rVars
  <2>1. ~Recorder!Uploads
    BY DEF RecorderInv, SaveOK, Recorder!Uploads, Recorder!BigEnough
  <2> QED
    BY <2>1 DEF Recorder!Next, Recorder!Browser, Recorder!RecorderStopped, Recorder!Granted,
         Recorder!GrantedTooLate, Recorder!Denied, Recorder!Chunk, Recorder!Unplug,
       Recorder!Pause, Recorder!Resume, Recorder!SwitchDevice, Recorder!Save, Recorder!TooShort,
       Recorder!Close
<1> QED BY <1>1, RecorderInvariant, PTL DEF Recorder!Spec, Recorder!DismissedStays
-----------------------------------------------------------------------------
(* The types of the recording dialog: what it holds, stops or uploads are       *)
(* streams the browser gave it.                                                 *)
Streams == Stream \cup {NoStream}
FlagsTyped ==
    /\ open \in BOOLEAN /\ recording \in BOOLEAN /\ paused \in BOOLEAN /\ starting \in BOOLEAN
    /\ switching \in BOOLEAN /\ saving \in BOOLEAN /\ hasAudio \in BOOLEAN /\ raced \in BOOLEAN
WaitsTyped ==
    /\ start \in [at : Recorder!StartAt, gen : Nat, rec : Streams]
    /\ save \in [at : Recorder!SaveAt, rec : Streams]
    /\ gen \in Nat /\ pauses \in 0..MaxPauses
HoldsTyped ==
    /\ ref \in Streams /\ recorder \in Streams /\ rec \in [Stream -> Recorder!RecState]
    /\ live \subseteq Stream /\ chunks \subseteq Stream /\ upload \subseteq Stream
RecorderTypes == FlagsTyped /\ WaitsTyped /\ HoldsTyped

LEMMA QuietTyped ==
    ASSUME RecorderTypes, NEW r \in Streams
    PROVE  Recorder!Quiet(r) \in [Stream -> Recorder!RecState]
BY DEF RecorderTypes, HoldsTyped, Streams, Recorder!Quiet, Recorder!RecState

LEMMA RecorderTypeStep ==
    ASSUME MaxPauses \in Nat, RecorderTypes, [Recorder!Next]_(Recorder!rVars)
    PROVE  RecorderTypes'
<1>q. \A r \in Streams : Recorder!Quiet(r) \in [Stream -> Recorder!RecState]
    BY QuietTyped
<1>r. \A r \in Streams, x \in {"recording", "paused", "inactive"} :
          [rec EXCEPT ![r] = x] \in [Stream -> Recorder!RecState]
    BY DEF RecorderTypes, HoldsTyped, Recorder!RecState
<1>s. FlagsTyped /\ WaitsTyped /\ HoldsTyped
    BY DEF RecorderTypes
<1> USE <1>s
<1>1. CASE UNCHANGED Recorder!rVars
    BY <1>1 DEF Recorder!rVars, RecorderTypes, FlagsTyped, WaitsTyped, HoldsTyped
<1>2. ASSUME NEW s \in Stream, Recorder!Granted(s) PROVE RecorderTypes'
  <2>1. FlagsTyped' /\ WaitsTyped'
    BY <1>2 DEF FlagsTyped, WaitsTyped, Recorder!Granted, Recorder!NoStart, Recorder!StartAt, Streams
  <2>2. HoldsTyped'
    BY <1>2, <1>r DEF HoldsTyped, Recorder!Granted, Streams
  <2> QED BY <2>1, <2>2 DEF RecorderTypes
<1>3. CASE Recorder!RecorderStopped
  <2> USE <1>3 DEF Recorder!RecorderStopped, Recorder!Released, Recorder!Dropped, Recorder!Ask,
        Recorder!StartAt
  <2>1. FlagsTyped'
    BY DEF FlagsTyped
  <2>2. WaitsTyped'
    BY DEF WaitsTyped, HoldsTyped, Streams
  <2>3. HoldsTyped'
    BY <1>q DEF HoldsTyped, WaitsTyped, Streams
  <2> QED BY <2>1, <2>2, <2>3 DEF RecorderTypes
<1>4. CASE Recorder!GrantedTooLate
  <2> USE <1>4 DEF Recorder!GrantedTooLate, Recorder!NoStart, Recorder!StartAt, Recorder!refs
  <2>1. FlagsTyped'
    BY DEF FlagsTyped
  <2>2. WaitsTyped'
    BY DEF WaitsTyped, HoldsTyped, Streams
  <2>3. HoldsTyped'
    BY DEF HoldsTyped, WaitsTyped, Streams
  <2> QED BY <2>1, <2>2, <2>3 DEF RecorderTypes
<1>5. CASE Recorder!Denied
  <2> USE <1>5 DEF Recorder!Denied, Recorder!NoStart, Recorder!StartAt, Recorder!Leave,
        Recorder!Detach, Recorder!Dropped, Recorder!refs
  <2>1. FlagsTyped'
    BY DEF FlagsTyped
  <2>2. WaitsTyped'
    BY DEF WaitsTyped, HoldsTyped, Streams
  <2>3. HoldsTyped'
    BY <1>q DEF HoldsTyped, WaitsTyped, Streams
  <2> QED BY <2>1, <2>2, <2>3 DEF RecorderTypes
<1>6. CASE Recorder!Chunk
  <2> USE <1>6 DEF Recorder!Chunk
  <2>1. FlagsTyped'
    BY DEF FlagsTyped
  <2>2. WaitsTyped'
    BY DEF WaitsTyped, HoldsTyped, Streams
  <2>3. HoldsTyped'
    BY DEF HoldsTyped, WaitsTyped, Streams
  <2> QED BY <2>1, <2>2, <2>3 DEF RecorderTypes
<1>7. CASE Recorder!Unplug
  <2> USE <1>7 DEF Recorder!Unplug, Recorder!flags
  <2>1. FlagsTyped'
    BY DEF FlagsTyped
  <2>2. WaitsTyped'
    BY DEF WaitsTyped, HoldsTyped, Streams
  <2>3. HoldsTyped'
    BY <1>r DEF HoldsTyped, WaitsTyped, Streams
  <2> QED BY <2>1, <2>2, <2>3 DEF RecorderTypes
<1>8. CASE Recorder!Pause
  <2> USE <1>8 DEF Recorder!Pause
  <2>1. FlagsTyped'
    BY DEF FlagsTyped
  <2>2. WaitsTyped'
    BY DEF WaitsTyped, HoldsTyped, Streams
  <2>3. HoldsTyped'
    BY <1>r DEF HoldsTyped, WaitsTyped, Streams
  <2> QED BY <2>1, <2>2, <2>3 DEF RecorderTypes
<1>9. CASE Recorder!Resume
  <2> USE <1>9 DEF Recorder!Resume
  <2>1. FlagsTyped'
    BY DEF FlagsTyped
  <2>2. WaitsTyped'
    BY DEF WaitsTyped, HoldsTyped, Streams
  <2>3. HoldsTyped'
    BY <1>r DEF HoldsTyped, WaitsTyped, Streams
  <2> QED BY <2>1, <2>2, <2>3 DEF RecorderTypes
<1>10. CASE Recorder!SwitchDevice
  <2> USE <1>10 DEF Recorder!SwitchDevice, Recorder!StartCapture, Recorder!Detach,
        Recorder!Released, Recorder!Dropped, Recorder!Ask, Recorder!StartAt
  <2>1. FlagsTyped'
    BY DEF FlagsTyped
  <2>2. WaitsTyped'
    BY DEF WaitsTyped, HoldsTyped, Streams
  <2>3. HoldsTyped'
    BY DEF HoldsTyped, WaitsTyped, Streams
  <2> QED BY <2>1, <2>2, <2>3 DEF RecorderTypes
<1>11. CASE Recorder!Save
  <2> USE <1>11 DEF Recorder!Save, Recorder!Detach, Recorder!SaveAt
  <2>1. FlagsTyped'
    BY DEF FlagsTyped
  <2>2. WaitsTyped'
    BY DEF WaitsTyped, HoldsTyped, Streams
  <2>3. HoldsTyped'
    BY DEF HoldsTyped, WaitsTyped, Streams
  <2> QED BY <2>1, <2>2, <2>3 DEF RecorderTypes
<1>12. CASE Recorder!Uploads
  <2> USE <1>12 DEF Recorder!Uploads, Recorder!SaveAt, Recorder!flags
  <2>1. FlagsTyped'
    BY DEF FlagsTyped
  <2>2. WaitsTyped'
    BY DEF WaitsTyped, HoldsTyped, Streams
  <2>3. HoldsTyped'
    BY <1>q DEF HoldsTyped, WaitsTyped, Streams
  <2> QED BY <2>1, <2>2, <2>3 DEF RecorderTypes
<1>13. CASE Recorder!TooShort
  <2> USE <1>13 DEF Recorder!TooShort, Recorder!Again, Recorder!Released, Recorder!Dropped,
        Recorder!Ask, Recorder!StartAt, Recorder!SaveAt
  <2>1. FlagsTyped'
    BY DEF FlagsTyped
  <2>2. WaitsTyped'
    BY DEF WaitsTyped, HoldsTyped, Streams
  <2>3. HoldsTyped'
    BY <1>q DEF HoldsTyped, WaitsTyped, Streams
  <2> QED BY <2>1, <2>2, <2>3 DEF RecorderTypes
<1>14. CASE Recorder!Close
  <2> USE <1>14 DEF Recorder!Close, Recorder!Leave, Recorder!Detach, Recorder!Dropped
  <2>1. FlagsTyped'
    BY DEF FlagsTyped
  <2>2. WaitsTyped'
    BY DEF WaitsTyped, HoldsTyped, Streams
  <2>3. HoldsTyped'
    BY <1>q DEF HoldsTyped, WaitsTyped, Streams
  <2> QED BY <2>1, <2>2, <2>3 DEF RecorderTypes
<1> QED BY <1>1, <1>2, <1>3, <1>4, <1>5, <1>6, <1>7, <1>8, <1>9, <1>10, <1>11,
           <1>12, <1>13, <1>14 DEF Recorder!Next, Recorder!Browser

LEMMA RecorderTyping == MaxPauses \in Nat /\ Recorder!Spec => []Recorder!TypeOK
<1> SUFFICES ASSUME MaxPauses \in Nat PROVE Recorder!Spec => []Recorder!TypeOK
    OBVIOUS
<1>1. Recorder!Init => RecorderTypes
  <2> SUFFICES ASSUME Recorder!Init PROVE RecorderTypes
    OBVIOUS
  <2>1. FlagsTyped
    BY DEF Recorder!Init, FlagsTyped
  <2>2. WaitsTyped
    BY DEF Recorder!Init, WaitsTyped, Streams, Recorder!StartAt, Recorder!SaveAt
  <2>3. HoldsTyped
    BY DEF Recorder!Init, HoldsTyped, Streams, Recorder!RecState
  <2> QED BY <2>1, <2>2, <2>3 DEF RecorderTypes
<1>2. RecorderTypes /\ [Recorder!Next]_(Recorder!rVars) => RecorderTypes'
    BY RecorderTypeStep
<1>3. RecorderTypes => Recorder!TypeOK
    BY DEF RecorderTypes, FlagsTyped, WaitsTyped, HoldsTyped, Streams, Recorder!TypeOK
<1> QED BY <1>1, <1>2, <1>3, PTL DEF Recorder!Spec
-----------------------------------------------------------------------------
(* The list: an answer that may still be applied is not older than the rows *)

Answered(q) == q # None /\ q.ans \notin {None, Refused}
RequestOK(q) == q # None => "ans" \in DOMAIN q
Older(a, b) == a = None \/ (a.ver \in Nat /\ a.ver <= b)
AnswerOK(q, who) ==
    Answered(q) => /\ q.ans.ver \in Nat /\ q.ans.ver <= ver
                   /\ latest = who => Older(rows, q.ans.ver)

ListInv ==
    /\ ver \in Nat /\ Older(rows, ver)
    /\ RequestOK(tick) /\ AnswerOK(tick, "tick")
    /\ RequestOK(reload) /\ AnswerOK(reload, "reload")

\* what one step does to the rows and to the hub's version
ListStep ==
    \/ rows' = rows /\ ver' \in {ver, ver + 1}
    \/ rows' = None /\ ver' = ver
    \/ /\ ver' = ver /\ rows'.ver \in Nat /\ rows'.ver <= ver
       /\ Older(rows, rows'.ver)

LEMMA InitList == Tasks!Init => ListInv
BY DEF Tasks!Init, ListInv, Older, RequestOK, AnswerOK, Answered, Tasks!Request

LEMMA HubList ==
    ASSUME ListInv, (\E t \in Tasks!Task : Tasks!HubStep(t)) \/ Tasks!ServeCall \/ Tasks!ServeTask
    PROVE  ListInv' /\ ListStep
<1>1. ver' \in {ver, ver + 1} /\ UNCHANGED <<rows, tick, reload, latest>>
    BY DEF Tasks!HubStep, Tasks!ServeCall, Tasks!ServeTask, Tasks!HubAccepts, Tasks!HubRefuses,
        Tasks!Change, Tasks!listVars, Tasks!hubVars
<1> QED BY <1>1 DEF ListInv, ListStep, Older, RequestOK, AnswerOK, Answered

LEMMA ServeList ==
    ASSUME ListInv, Tasks!ServeTick \/ Tasks!ServeReload \/ Tasks!Lose
    PROVE  ListInv' /\ ListStep
<1> USE DEF ListInv, ListStep, Older, RequestOK, AnswerOK, Answered, Tasks!List, Tasks!listVars,
    Tasks!hubVars
<1>1. CASE Tasks!ServeTick
    BY <1>1 DEF Tasks!ServeTick
<1>2. CASE Tasks!ServeReload
    BY <1>2 DEF Tasks!ServeReload
<1>3. CASE Tasks!Lose
    BY <1>3 DEF Tasks!Lose
<1> QED BY <1>1, <1>2, <1>3

LEMMA PageList ==
    ASSUME ListInv, Tasks!TaskDeliver \/ Tasks!CallDeliver \/ Tasks!User
    PROVE  ListInv' /\ ListStep
<1> USE DEF ListInv, ListStep, Older, RequestOK, AnswerOK, Answered, Tasks!Request, Tasks!hubVars,
    Tasks!listVars
<1>1. CASE Tasks!TaskDeliver
    BY <1>1 DEF Tasks!TaskDeliver, Tasks!PollFailed, Tasks!PollActive, Tasks!PollEnds,
        Tasks!PollFollowUp, Tasks!PollRedirects, Tasks!Wake,
                Tasks!KeepRest
<1>2. CASE Tasks!CallDeliver
    BY <1>2 DEF Tasks!CallDeliver, Tasks!CallFailed, Tasks!CanceledOnPage, Tasks!StoppedOnPage,
        Tasks!RetriedOnPage, Tasks!DoneInList,
                Tasks!OpenList, Tasks!ListOn
<1>3. CASE Tasks!User
    BY <1>3 DEF Tasks!User, Tasks!FollowRow, Tasks!PressRow, Tasks!PressTask, Tasks!PressPurge,
        Tasks!BackToList, Tasks!SetFilter, Tasks!Press,
                Tasks!OpenTask, Tasks!OpenList, Tasks!ListOn, Tasks!ListOff
<1> QED BY <1>1, <1>2, <1>3

LEMMA DeliverList ==
    ASSUME ListInv, Tasks!ListDeliver
    PROVE  ListInv' /\ ListStep
BY DEF ListInv, ListStep, Older, RequestOK, AnswerOK, Answered, Tasks!Request, Tasks!hubVars,
    Tasks!ListRest,
       Tasks!ListDeliver, Tasks!TickApplied, Tasks!TickFailed, Tasks!TickOvertaken, Tasks!Timeout,
       Tasks!ReloadDone, Tasks!ReloadIsLatest

LEMMA StepList == ListInv /\ [Tasks!Next]_(Tasks!tVars) => ListInv' /\ (ListStep \/ UNCHANGED <<rows, ver>>)
<1> SUFFICES ASSUME ListInv, [Tasks!Next]_(Tasks!tVars) PROVE ListInv' /\ (ListStep \/ UNCHANGED <<rows, ver>>)
    OBVIOUS
<1>1. CASE UNCHANGED Tasks!tVars
    BY <1>1 DEF Tasks!tVars, ListInv, Older, RequestOK, AnswerOK, Answered
<1> QED BY <1>1, HubList, ServeList, PageList, DeliverList DEF Tasks!Next, Tasks!Serve

LEMMA ListInvariant == Tasks!Spec => []ListInv
<1> QED BY InitList, StepList, PTL DEF Tasks!Spec

(* useTasksListPoll shows the tasks as of some moment up to now, and fetchSeq keeps it from ever
   going back to an older one: the list implements Mirror. *)
THEOREM ListImplementsMirror == Tasks!Spec => Tasks!ListIsMirror
<1>1. Tasks!Init => Tasks!M!Init
    BY DEF Tasks!Init, Tasks!M!Init
<1>2. ListInv /\ [Tasks!Next]_(Tasks!tVars) => [Tasks!M!Next]_(Tasks!M!mirrorVars)
  <2> SUFFICES ASSUME ListInv, ListStep PROVE [Tasks!M!Next]_(Tasks!M!mirrorVars)
    BY StepList DEF Tasks!M!mirrorVars
  <2> QED BY DEF ListStep, ListInv, Older, Tasks!M!Next, Tasks!M!Change, Tasks!M!Show,
      Tasks!M!Forget, Tasks!M!mirrorVars
<1> QED BY <1>1, <1>2, ListInvariant, PTL DEF Tasks!Spec, Tasks!ListIsMirror, Tasks!M!Spec
-----------------------------------------------------------------------------
(* The list's poller: it has a request or a timeout, or a reload() overtook it *)

PollInv == /\ tick # None => tick = [filt |-> tick.filt, ans |-> tick.ans]
           /\ Tasks!PollsUnlessOvertaken

\* nothing that is None can be mistaken for a request
Requests == \A f, a : None # [filt |-> f, ans |-> a]

LEMMA InitPoll == ASSUME Requests PROVE Tasks!Init => PollInv
BY DEF Tasks!Init, PollInv, Tasks!PollsUnlessOvertaken, Tasks!Request, Requests

\* an answer or an error fills the request in and leaves it a request
LEMMA AnsweredRequest ==
    ASSUME Requests, tick # None, PollInv, NEW a, tick' = [tick EXCEPT !.ans = a]
    PROVE  tick' # None /\ tick' = [filt |-> tick'.filt, ans |-> tick'.ans]
<1>1. tick = [filt |-> tick.filt, ans |-> tick.ans]
    BY DEF PollInv
<1>2. tick' = [filt |-> tick.filt, ans |-> a]
    BY <1>1
<1> QED BY <1>2 DEF Requests

LEMMA ServePoll ==
    ASSUME Requests, PollInv, (\E t \in Tasks!Task : Tasks!HubStep(t)) \/ Tasks!Serve \/ Tasks!Lose
    PROVE  PollInv'
<1>1. /\ UNCHANGED <<page, timer, latest>>
      /\ \/ UNCHANGED tick
         \/ tick # None /\ \E a : tick' = [tick EXCEPT !.ans = a]
    BY DEF Tasks!HubStep, Tasks!Serve, Tasks!ServeCall, Tasks!ServeTask, Tasks!ServeTick,
        Tasks!ServeReload, Tasks!Lose, Tasks!listVars, Tasks!taskVars
<1>2. CASE UNCHANGED tick
    BY <1>1, <1>2 DEF PollInv, Tasks!PollsUnlessOvertaken
<1>3. CASE tick # None /\ \E a : tick' = [tick EXCEPT !.ans = a]
    BY <1>1, <1>3, AnsweredRequest DEF PollInv, Tasks!PollsUnlessOvertaken
<1> QED BY <1>1, <1>2, <1>3

\* what the page, the buttons and the poller itself do to the poller
LEMMA PagePoll ==
    ASSUME Requests, PollInv, Tasks!TaskDeliver \/ Tasks!CallDeliver \/ Tasks!User \/ Tasks!ListDeliver
    PROVE  PollInv'
<1> USE DEF PollInv, Tasks!PollsUnlessOvertaken, Tasks!Request, Requests, Tasks!hubVars,
    Tasks!listVars
<1>1. CASE Tasks!TaskDeliver
    BY <1>1 DEF Tasks!TaskDeliver, Tasks!PollFailed, Tasks!PollActive, Tasks!PollEnds,
        Tasks!PollFollowUp, Tasks!PollRedirects, Tasks!Wake,
                Tasks!KeepRest
<1>2. CASE Tasks!CallDeliver
    BY <1>2 DEF Tasks!CallDeliver, Tasks!CallFailed, Tasks!CanceledOnPage, Tasks!StoppedOnPage,
        Tasks!RetriedOnPage, Tasks!DoneInList,
                Tasks!OpenList, Tasks!ListOn
<1>3. CASE Tasks!User
    BY <1>3 DEF Tasks!User, Tasks!FollowRow, Tasks!PressRow, Tasks!PressTask, Tasks!PressPurge,
        Tasks!BackToList, Tasks!SetFilter, Tasks!Press,
                Tasks!OpenTask, Tasks!OpenList, Tasks!ListOn, Tasks!ListOff
<1>4. CASE Tasks!ListDeliver
    BY <1>4 DEF Tasks!ListDeliver, Tasks!ListRest, Tasks!TickApplied, Tasks!TickFailed,
        Tasks!TickOvertaken, Tasks!Timeout, Tasks!ReloadDone
<1> QED BY <1>1, <1>2, <1>3, <1>4

LEMMA StepPoll == ASSUME Requests PROVE PollInv /\ [Tasks!Next]_(Tasks!tVars) => PollInv'
<1> SUFFICES ASSUME PollInv, [Tasks!Next]_(Tasks!tVars) PROVE PollInv'
    OBVIOUS
<1>1. CASE UNCHANGED Tasks!tVars
    BY <1>1 DEF Tasks!tVars, PollInv, Tasks!PollsUnlessOvertaken
<1> QED BY <1>1, ServePoll, PagePoll DEF Tasks!Next

(* However requests fail, overtake each other or are replaced by a change of the filter, the
   poller of the list ends only where a reload() took its sequence number (useTasksListPoll). *)
THEOREM PollerGoesOn == (\A f, a : None # [filt |-> f, ans |-> a]) /\ Tasks!Spec => []Tasks!PollsUnlessOvertaken
<1> SUFFICES ASSUME Requests PROVE Tasks!Spec => []Tasks!PollsUnlessOvertaken
    BY DEF Requests
<1>1. PollInv /\ [Tasks!Next]_(Tasks!tVars) => PollInv'
    BY StepPoll
<1>2. Tasks!Init => PollInv
    BY InitPoll
<1>3. PollInv => Tasks!PollsUnlessOvertaken
    BY DEF PollInv
<1> QED BY <1>1, <1>2, <1>3, PTL DEF Tasks!Spec
-----------------------------------------------------------------------------
(* The page of a task: what its poller has heard of a success stays true *)

Done == {"success", "gone"}
HubOK == /\ st \in [Tasks!Task -> Tasks!Status]
         /\ st["transcribe"] # "none" => chain /\ st["capture"] \in Done
LoopOK ==
    /\ {"id", "at", "ans"} \subseteq DOMAIN loop
    /\ IF loop.at = "end" THEN loop.ans = None ELSE loop.id \in Tasks!Task
    /\ loop.ans \notin {None, Refused} =>
           loop.id \in Tasks!Task /\ (loop.ans.s = "success" => st[loop.id] \in Done)
HandlerOK ==
    /\ page = "task" => rid \in Tasks!Task
    /\ call # None => {"here", "from", "ans"} \subseteq DOMAIN call
    /\ call # None /\ call.here /\ call.from = "task" => rid \in Tasks!Task
ChainInv == HubOK /\ LoopOK /\ HandlerOK

\* no step of the hub takes a success back
Final == \A t \in Tasks!Task : st[t] \in Done => st'[t] \in Done

LEMMA InitChain == Tasks!Init => ChainInv
BY DEF Tasks!Init, ChainInv, HubOK, LoopOK, HandlerOK, Tasks!Task, Tasks!Status, Tasks!NoLoop,
    Tasks!Poll

LEMMA HubKeepsSuccess ==
    ASSUME HubOK, \/ \E t \in Tasks!Task : Tasks!HubStep(t)
                  \/ Tasks!ServeCall
                  \/ UNCHANGED <<st, chain>>
    PROVE  HubOK' /\ Final
<1> USE DEF HubOK, Final, Done, Tasks!Task, Tasks!Status
<1>1. ASSUME NEW t \in Tasks!Task, Tasks!HubStep(t) PROVE HubOK' /\ Final
    BY <1>1 DEF Tasks!HubStep, Tasks!Change, Tasks!FollowUp, Tasks!Active
<1>2. CASE Tasks!ServeCall
    BY <1>2 DEF Tasks!ServeCall, Tasks!HubAccepts, Tasks!HubRefuses, Tasks!Change, Tasks!CanCancel,
        Tasks!Active, Tasks!Retriable, Tasks!Terminal
<1>3. CASE UNCHANGED <<st, chain>>
    BY <1>3
<1> QED BY <1>1, <1>2, <1>3

LEMMA HubChain ==
    ASSUME ChainInv, (\E t \in Tasks!Task : Tasks!HubStep(t)) \/ Tasks!ServeCall
    PROVE  ChainInv' /\ ~(page = "task" /\ page' = "result")
<1>1. HubOK' /\ Final
    BY HubKeepsSuccess DEF ChainInv
<1>2. /\ UNCHANGED <<page, rid, shown, loop>>
      /\ \/ UNCHANGED call
         \/ call # None /\ \E a : call' = [call EXCEPT !.ans = a]
    BY DEF Tasks!HubStep, Tasks!ServeCall, Tasks!taskVars
<1>3. LoopOK'
    BY <1>1, <1>2 DEF ChainInv, LoopOK, Final
<1>4. HandlerOK'
    BY <1>2 DEF ChainInv, HandlerOK
<1> QED BY <1>1, <1>2, <1>3, <1>4 DEF ChainInv, HandlerOK

LEMMA ServeChain ==
    ASSUME ChainInv, Tasks!ServeTask \/ Tasks!ServeTick \/ Tasks!ServeReload \/ Tasks!Lose
    PROVE  ChainInv' /\ ~(page = "task" /\ page' = "result")
<1> USE DEF ChainInv
<1>1. HubOK'
    BY HubKeepsSuccess DEF Tasks!ServeTask, Tasks!ServeTick, Tasks!ServeReload, Tasks!Lose,
        Tasks!hubVars
<1>2. LoopOK'
    BY DEF LoopOK, Tasks!ServeTask, Tasks!ServeTick, Tasks!ServeReload, Tasks!Lose, Tasks!hubVars,
        Tasks!taskVars, Tasks!Snapshot, Done
<1>3. HandlerOK' /\ UNCHANGED page
    BY DEF HandlerOK, Tasks!ServeTask, Tasks!ServeTick, Tasks!ServeReload, Tasks!Lose,
        Tasks!taskVars
<1> QED BY <1>1, <1>2, <1>3 DEF HandlerOK

LEMMA PollChain ==
    ASSUME None \notin Tasks!Task \cup {Refused}, ChainInv, Tasks!TaskDeliver
    PROVE  /\ ChainInv'
           /\ page = "task" /\ page' = "result" =>
                  \A t \in Tasks!Task : st[t] \in {"none", "success", "gone"}
<1> USE DEF ChainInv
<1>1. HubOK'
    BY HubKeepsSuccess DEF Tasks!TaskDeliver, Tasks!PollFailed, Tasks!PollActive, Tasks!PollEnds,
        Tasks!PollFollowUp,
       Tasks!PollRedirects, Tasks!Wake, Tasks!KeepRest, Tasks!hubVars
<1>2. LoopOK'
  <2> USE DEF LoopOK, Tasks!KeepRest, Tasks!hubVars
  <2>1. CASE Tasks!PollFollowUp
    <3>1. Tasks!Next_(loop.id, "success") = "transcribe"
      BY <2>1 DEF Tasks!PollFollowUp, Tasks!Next_, Tasks!FollowUp
    <3> QED BY <2>1, <3>1 DEF Tasks!PollFollowUp, Tasks!Poll, Tasks!Task
  <2>2. CASE Tasks!PollRedirects
    BY <2>2 DEF Tasks!PollRedirects, Tasks!TaskOff, Tasks!NoLoop
  <2>3. CASE Tasks!PollFailed \/ Tasks!PollActive \/ Tasks!PollEnds
    BY <2>3 DEF Tasks!PollFailed, Tasks!PollActive, Tasks!PollEnds
  <2>4. CASE Tasks!Wake
    BY <2>4 DEF Tasks!Wake
  <2> QED BY <2>1, <2>2, <2>3, <2>4 DEF Tasks!TaskDeliver
<1>3. HandlerOK'
    BY DEF HandlerOK, Tasks!TaskDeliver, Tasks!PollFailed, Tasks!PollActive, Tasks!PollEnds,
        Tasks!PollFollowUp, Tasks!PollRedirects,
       Tasks!Wake, Tasks!KeepRest, Tasks!TaskOff, Tasks!Left
<1>4. ASSUME page = "task", page' = "result", NEW t \in Tasks!Task
      PROVE  st[t] \in {"none", "success", "gone"}
  <2>1. Tasks!PollRedirects
    BY <1>4 DEF Tasks!TaskDeliver, Tasks!PollFailed, Tasks!PollActive, Tasks!PollEnds,
        Tasks!PollFollowUp, Tasks!Wake
  <2>2. loop.id \in Tasks!Task /\ st[loop.id] \in Done
    BY <2>1 DEF Tasks!PollRedirects, LoopOK
  <2>3. loop.id = "capture" => ~chain
    BY <2>1 DEF Tasks!PollRedirects, Tasks!Next_, Tasks!FollowUp, Tasks!Task
  <2> QED BY <2>2, <2>3 DEF HubOK, Done, Tasks!Task
<1> QED BY <1>1, <1>2, <1>3, <1>4

LEMMA ButtonChain ==
    ASSUME ChainInv, Tasks!CallDeliver \/ Tasks!User \/ Tasks!ListDeliver
    PROVE  ChainInv' /\ ~(page = "task" /\ page' = "result")
<1> USE DEF ChainInv, Tasks!hubVars, Tasks!taskVars, Tasks!listVars
<1>1. CASE Tasks!CallDeliver
  <2> USE <1>1 DEF Tasks!CallDeliver, Tasks!CallFailed, Tasks!CanceledOnPage, Tasks!StoppedOnPage,
      Tasks!RetriedOnPage, Tasks!DoneInList,
                  Tasks!OpenList, Tasks!TaskOff, Tasks!NoLoop, Tasks!Poll
  <2>1. HubOK'
    BY HubKeepsSuccess
  <2>2. LoopOK'
    BY DEF LoopOK, HandlerOK
  <2>3. HandlerOK' /\ ~(page = "task" /\ page' = "result")
    BY DEF HandlerOK
  <2> QED BY <2>1, <2>2, <2>3
<1>2. CASE Tasks!User
  <2> USE <1>2 DEF Tasks!User, Tasks!FollowRow, Tasks!PressRow, Tasks!PressTask, Tasks!PressPurge,
      Tasks!BackToList, Tasks!SetFilter, Tasks!Press,
                  Tasks!OpenTask, Tasks!OpenList, Tasks!ListOff, Tasks!TaskOff, Tasks!NoLoop,
                  Tasks!Poll
  <2>1. HubOK'
    BY HubKeepsSuccess
  <2>2. LoopOK'
    BY DEF LoopOK
  <2>3. HandlerOK' /\ ~(page = "task" /\ page' = "result")
    BY DEF HandlerOK, Tasks!Left
  <2> QED BY <2>1, <2>2, <2>3
<1>3. CASE Tasks!ListDeliver
  <2> USE <1>3 DEF Tasks!ListDeliver, Tasks!TickApplied, Tasks!TickFailed, Tasks!TickOvertaken,
      Tasks!Timeout, Tasks!ReloadDone, Tasks!ListRest
  <2>1. HubOK'
    BY HubKeepsSuccess
  <2>2. LoopOK'
    BY DEF LoopOK
  <2>3. HandlerOK' /\ ~(page = "task" /\ page' = "result")
    BY DEF HandlerOK
  <2> QED BY <2>1, <2>2, <2>3
<1> QED BY <1>1, <1>2, <1>3

LEMMA StutterChain == ChainInv /\ UNCHANGED Tasks!tVars => ChainInv'
BY DEF Tasks!tVars, ChainInv, HubOK, LoopOK, HandlerOK

(* Whatever the user presses and whatever is lost meanwhile, useTaskPoll leaves the task page for
   an artifact only when the capture and the transcription that follows it have both succeeded. *)
THEOREM LeavesWhenDone == None \notin Tasks!Task \cup {Refused} /\ Tasks!Spec => Tasks!ChainDone
<1> SUFFICES ASSUME None \notin Tasks!Task \cup {Refused} PROVE Tasks!Spec => Tasks!ChainDone
    OBVIOUS
<1>1. ChainInv /\ [Tasks!Next]_(Tasks!tVars) =>
          /\ ChainInv'
          /\ [page = "task" /\ page' = "result" =>
                  \A t \in Tasks!Task : st[t] \in {"none", "success", "gone"}]_(Tasks!tVars)
    BY HubChain, ServeChain, PollChain, ButtonChain, StutterChain DEF Tasks!Next, Tasks!Serve
<1> QED BY <1>1, InitChain, PTL DEF Tasks!Spec, Tasks!ChainDone
-----------------------------------------------------------------------------
(* The types of the task pages.  A filter is one of the menu wherever it has     *)
(* been carried to, and what the page of a task shows is a task.                 *)
CallFields == {"op", "id", "from", "filt", "here", "ans"}
PageTyped ==
    /\ chain \in BOOLEAN /\ page \in {"list", "task", "result"}
    /\ rid \in Tasks!Task \cup {None} /\ (page = "task") = (rid # None)
    /\ latest \in {"tick", "reload"}
    /\ filt \in Tasks!Filter
    /\ timer \in BOOLEAN
LoopTyped ==
    /\ loop.at \in {"fetch", "sleep", "end"}
    /\ shown # None => shown.id \in Tasks!Task
    /\ loop.ans \notin {None, Refused} => loop.ans.id \in Tasks!Task
CallTyped ==
    call # None =>
        /\ CallFields \subseteq DOMAIN call /\ call.filt \in Tasks!Filter
        /\ call.from = "task" => call.op \in {"cancel", "retry", "stop"} /\ call.id \in Tasks!Task
        /\ call.from = "task" /\ call.ans \notin {None, Refused} => call.ans.id \in Tasks!Task
RequestTyped(q) ==
    q # None => /\ {"filt", "ans"} \subseteq DOMAIN q /\ q.filt \in Tasks!Filter
                /\ q.ans \notin {None, Refused} => q.ans.filt \in Tasks!Filter
RowsTyped == RequestTyped(tick) /\ RequestTyped(reload) /\ (rows # None => rows.filt \in Tasks!Filter)
TasksTypes == PageTyped /\ LoopTyped /\ CallTyped /\ RowsTyped

LEMMA HubTypes ==
    ASSUME TasksTypes, ChainInv,
           (\E t \in Tasks!Task : Tasks!HubStep(t)) \/ Tasks!Serve \/ Tasks!Lose
    PROVE  TasksTypes'
<1> USE DEF TasksTypes, Tasks!hubVars, Tasks!taskVars, Tasks!listVars
<1>1. CASE \E t \in Tasks!Task : Tasks!HubStep(t)
    BY <1>1 DEF Tasks!HubStep, PageTyped, LoopTyped, CallTyped, RowsTyped, RequestTyped
<1>2. CASE Tasks!ServeCall
  <2>1. UNCHANGED <<page, rid, latest, filt, timer, loop, shown, tick, reload, rows, chain>>
    BY <1>2 DEF Tasks!ServeCall
  <2>2. PageTyped' /\ LoopTyped' /\ RowsTyped'
    BY <2>1 DEF PageTyped, LoopTyped, RowsTyped, RequestTyped
  <2>3. CallTyped'
    <3>1. call # None /\ \E a : /\ call' = [call EXCEPT !.ans = a]
                                /\ a = Refused \/ call.op = "purge" \/ a.id = call.id
      BY <1>2 DEF Tasks!ServeCall
    <3>2. PICK a : /\ call' = [call EXCEPT !.ans = a]
                   /\ a = Refused \/ call.op = "purge" \/ a.id = call.id
      BY <3>1
    <3>3. call'.ans = a /\ \A x \in CallFields \ {"ans"} : call'[x] = call[x]
      BY <3>1, <3>2 DEF CallTyped, CallFields
    <3>4. CallFields \subseteq DOMAIN call'
      BY <3>1, <3>2 DEF CallTyped
    <3> QED BY <3>1, <3>2, <3>3, <3>4 DEF CallTyped, CallFields
  <2> QED BY <2>2, <2>3
<1>3. CASE Tasks!ServeTask
  <2>1. PageTyped' /\ CallTyped' /\ RowsTyped'
    BY <1>3 DEF Tasks!ServeTask, PageTyped, CallTyped, RowsTyped, RequestTyped
  <2>2. LoopTyped'
    BY <1>3 DEF Tasks!ServeTask, LoopTyped, Tasks!Snapshot, ChainInv, LoopOK
  <2> QED BY <2>1, <2>2
<1>4. CASE Tasks!ServeTick \/ Tasks!ServeReload
  <2>1. PageTyped' /\ CallTyped' /\ LoopTyped'
    BY <1>4 DEF Tasks!ServeTick, Tasks!ServeReload, PageTyped, CallTyped, LoopTyped
  <2>2. RowsTyped'
    BY <1>4 DEF Tasks!ServeTick, Tasks!ServeReload, RowsTyped, RequestTyped, Tasks!List
  <2> QED BY <2>1, <2>2
<1>5. CASE Tasks!Lose
  <2>1. PageTyped' /\ CallTyped'
    BY <1>5 DEF Tasks!Lose, PageTyped, CallTyped
  <2>2. LoopTyped'
    BY <1>5 DEF Tasks!Lose, LoopTyped, ChainInv, LoopOK
  <2>3. RowsTyped'
    BY <1>5 DEF Tasks!Lose, RowsTyped, RequestTyped
  <2> QED BY <2>1, <2>2, <2>3
<1> QED BY <1>1, <1>2, <1>3, <1>4, <1>5 DEF Tasks!Serve

\* a handler that outlives its page keeps all but its place
LEMMA LeftTyped == CallTyped /\ call' \in {None, Tasks!Left} => CallTyped'
<1> SUFFICES ASSUME CallTyped, call # None, call' = [call EXCEPT !.here = FALSE] PROVE CallTyped'
    BY DEF Tasks!Left, CallTyped
<1>1. CallFields \subseteq DOMAIN call' /\ \A x \in CallFields \ {"here"} : call'[x] = call[x]
    BY DEF CallTyped, CallFields
<1> QED BY <1>1 DEF CallTyped, CallFields

LEMMA PollTypes ==
    ASSUME None \notin Tasks!Task, TasksTypes, ChainInv, Tasks!TaskDeliver
    PROVE  TasksTypes'
<1> USE DEF TasksTypes, Tasks!hubVars, Tasks!listVars, Tasks!KeepRest
<1>1. RowsTyped'
    BY DEF Tasks!TaskDeliver, Tasks!PollFailed, Tasks!PollActive, Tasks!PollEnds, Tasks!PollFollowUp,
        Tasks!PollRedirects, Tasks!Wake, RowsTyped, RequestTyped
<1>2. CallTyped'
  <2>1. call' \in {call, Tasks!Left}
    BY DEF Tasks!TaskDeliver, Tasks!PollFailed, Tasks!PollActive, Tasks!PollEnds, Tasks!PollFollowUp,
        Tasks!PollRedirects, Tasks!Wake
  <2> QED BY <2>1, LeftTyped DEF CallTyped
<1>3. PageTyped'
    BY DEF Tasks!TaskDeliver, Tasks!PollFailed, Tasks!PollActive, Tasks!PollEnds, Tasks!PollFollowUp,
        Tasks!PollRedirects, Tasks!Wake, Tasks!TaskOff, PageTyped
<1>4. LoopTyped'
  <2> USE DEF LoopTyped
  <2>1. CASE Tasks!PollFailed \/ Tasks!PollActive \/ Tasks!PollEnds \/ Tasks!Wake
    BY <2>1 DEF Tasks!PollFailed, Tasks!PollActive, Tasks!PollEnds, Tasks!Wake, ChainInv, LoopOK
  <2>2. CASE Tasks!PollFollowUp
    BY <2>2 DEF Tasks!PollFollowUp, Tasks!Poll
  <2>3. CASE Tasks!PollRedirects
    BY <2>3 DEF Tasks!PollRedirects, Tasks!TaskOff, Tasks!NoLoop
  <2> QED BY <2>1, <2>2, <2>3 DEF Tasks!TaskDeliver
<1> QED BY <1>1, <1>2, <1>3, <1>4

LEMMA ListTypes == ASSUME TasksTypes, Tasks!ListDeliver PROVE TasksTypes'
<1> USE DEF TasksTypes, Tasks!hubVars, Tasks!taskVars, Tasks!ListRest, Tasks!ListDeliver,
    Tasks!TickApplied, Tasks!TickFailed, Tasks!TickOvertaken, Tasks!Timeout, Tasks!ReloadDone
<1>1. CallTyped' /\ LoopTyped'
    BY DEF CallTyped, LoopTyped
<1>2. PageTyped'
    BY DEF PageTyped
<1>3. RowsTyped'
    BY DEF RowsTyped, RequestTyped, PageTyped, Tasks!Request
<1> QED BY <1>1, <1>2, <1>3

LEMMA CallTypes ==
    ASSUME TasksTypes, ChainInv, Tasks!CallDeliver
    PROVE  TasksTypes'
<1> USE DEF TasksTypes, Tasks!hubVars, Tasks!taskVars, Tasks!listVars, Tasks!CallDeliver,
    Tasks!CallFailed, Tasks!CanceledOnPage, Tasks!StoppedOnPage, Tasks!RetriedOnPage,
    Tasks!DoneInList, Tasks!OpenList, Tasks!TaskOff, Tasks!ListOn
<1>1. CallTyped'
    BY DEF CallTyped
<1>2. PageTyped'
    BY DEF PageTyped, Tasks!Filter
<1>3. LoopTyped'
    BY DEF LoopTyped, CallTyped, Tasks!NoLoop, Tasks!Poll
<1>4. RowsTyped'
    BY DEF RowsTyped, RequestTyped, CallTyped, Tasks!Request, Tasks!Filter
<1> QED BY <1>1, <1>2, <1>3, <1>4

LEMMA UserTypes ==
    ASSUME None \notin Tasks!Task, TasksTypes, Tasks!User
    PROVE  TasksTypes'
<1> USE DEF TasksTypes, Tasks!hubVars, Tasks!taskVars, Tasks!listVars
<1>1. ASSUME NEW t \in Tasks!Task, Tasks!FollowRow(t) PROVE TasksTypes'
  <2> USE <1>1 DEF Tasks!FollowRow, Tasks!OpenTask, Tasks!ListOff
  <2>1. PageTyped' /\ RowsTyped'
    BY DEF PageTyped, RowsTyped, RequestTyped
  <2>2. CallTyped' /\ LoopTyped'
    BY LeftTyped DEF LoopTyped, Tasks!Poll
  <2> QED BY <2>1, <2>2
<1>2. ASSUME NEW op, NEW t, NEW s, Tasks!Press(op, t, s),
             page = "task" => op \in {"cancel", "retry", "stop"} /\ t \in Tasks!Task
      PROVE  TasksTypes'
  <2>1. PageTyped' /\ RowsTyped' /\ LoopTyped'
    BY <1>2 DEF Tasks!Press, PageTyped, RowsTyped, RequestTyped, LoopTyped
  <2>2. CallTyped'
    BY <1>2 DEF Tasks!Press, CallTyped, CallFields, PageTyped
  <2> QED BY <2>1, <2>2
<1>3. ASSUME NEW op, NEW t, Tasks!PressRow(op, t) PROVE TasksTypes'
    BY <1>2, <1>3 DEF Tasks!PressRow, Tasks!ListOffers
<1>4. ASSUME NEW op \in {"cancel", "retry", "stop"}, Tasks!PressTask(op) PROVE TasksTypes'
    BY <1>2, <1>4 DEF Tasks!PressTask, Tasks!TaskOffers, PageTyped
<1>5. CASE Tasks!PressPurge
    BY <1>2, <1>5 DEF Tasks!PressPurge
<1>6. CASE Tasks!BackToList
  <2> USE <1>6 DEF Tasks!BackToList, Tasks!OpenList, Tasks!ListOn, Tasks!TaskOff
  <2>1. PageTyped' /\ RowsTyped'
    BY DEF PageTyped, RowsTyped, RequestTyped, Tasks!Request, Tasks!Filter
  <2>2. CallTyped' /\ LoopTyped'
    BY LeftTyped DEF LoopTyped, Tasks!NoLoop
  <2> QED BY <2>1, <2>2
<1>7. ASSUME NEW f \in Tasks!Filter, Tasks!SetFilter(f) PROVE TasksTypes'
  <2> USE <1>7 DEF Tasks!SetFilter, Tasks!ListOn
  <2>1. PageTyped' /\ RowsTyped'
    BY DEF PageTyped, RowsTyped, RequestTyped, Tasks!Request
  <2>2. CallTyped' /\ LoopTyped'
    BY DEF CallTyped, LoopTyped
  <2> QED BY <2>1, <2>2
<1> HIDE DEF TasksTypes
<1> QED BY <1>1, <1>3, <1>4, <1>5, <1>6, <1>7 DEF Tasks!User

LEMMA TasksTyping == None \notin Tasks!Task \cup {Refused} /\ Tasks!Spec => []Tasks!TypeOK
<1> SUFFICES ASSUME None \notin Tasks!Task \cup {Refused} PROVE Tasks!Spec => []Tasks!TypeOK
    OBVIOUS
<1>1. Tasks!Init => TasksTypes
  <2> SUFFICES ASSUME Tasks!Init PROVE TasksTypes
    OBVIOUS
  <2>1. PageTyped
    BY DEF Tasks!Init, PageTyped, Tasks!Task, Tasks!Filter
  <2>2. LoopTyped /\ CallTyped
    BY DEF Tasks!Init, LoopTyped, CallTyped, Tasks!Task, Tasks!NoLoop, Tasks!Poll
  <2>3. RowsTyped
    BY DEF Tasks!Init, RowsTyped, RequestTyped, Tasks!Request, Tasks!Filter
  <2> QED BY <2>1, <2>2, <2>3 DEF TasksTypes
<1>2. ChainInv /\ [Tasks!Next]_(Tasks!tVars) => ChainInv'
    BY HubChain, ServeChain, PollChain, ButtonChain, StutterChain DEF Tasks!Next, Tasks!Serve
<1>3. TasksTypes /\ ChainInv /\ [Tasks!Next]_(Tasks!tVars) => TasksTypes'
  <2> SUFFICES ASSUME TasksTypes, ChainInv, [Tasks!Next]_(Tasks!tVars) PROVE TasksTypes'
    OBVIOUS
  <2>1. CASE UNCHANGED Tasks!tVars
    BY <2>1 DEF Tasks!tVars, TasksTypes, PageTyped, LoopTyped, CallTyped, RowsTyped, RequestTyped
  <2> QED BY <2>1, HubTypes, PollTypes, ListTypes, CallTypes, UserTypes DEF Tasks!Next
<1>4. ListInv /\ ChainInv /\ TasksTypes => Tasks!TypeOK
    BY DEF ListInv, ChainInv, HubOK, TasksTypes, PageTyped, LoopTyped, RowsTyped, Tasks!TypeOK
<1> QED BY InitChain, ListInvariant, <1>1, <1>2, <1>3, <1>4, PTL DEF Tasks!Spec
-----------------------------------------------------------------------------
(* Linking with Telegram: the types.  Every status on its way, shown or kept in *)
(* the section of the profile page names a bot the hub has had.                 *)
HeardOf(a, n) == a.bot \in 1..n /\ a.linked \in BOOLEAN
AskOK(c, n) == /\ c \in [kind : {c.kind}, at : {c.at}, then : {c.then}, ans : {c.ans}]
               /\ c.at = "answered" => HeardOf(c.ans, n)
SectionOK(s, n) ==
    s # None => /\ s \in [code : {s.code}, bot : {s.bot}, busy : {s.busy}]
                /\ s.busy \in BOOLEAN /\ s.code \in {None} \cup 1..n
AsksOK == \A c \in asked : AskOK(c, bot)
ShownOK == (status # None => HeardOf(status, bot)) /\ SectionOK(section, bot)
LinkOK == /\ linked \in BOOLEAN /\ awaiting \in BOOLEAN /\ stored \in BOOLEAN
          /\ code \in {None} \cup 0..MaxActs
CountOK == /\ tgCount \in [acts : 0..MaxActs, bots : 0..MaxBots, lost : Nat]
           /\ bot = 1 + tgCount.bots
TelegramTypes == CountOK /\ LinkOK /\ ShownOK /\ AsksOK

\* a call waits first; the hub answers with its bot of that moment
LEMMA CallOK == \A k, t, n : AskOK(Telegram!Call(k, t), n)
BY DEF AskOK, Telegram!Call

LEMMA AnswerOfHub ==
    ASSUME NEW c, NEW n \in Nat \ {0}, AskOK(c, n), NEW l \in BOOLEAN
    PROVE  /\ AskOK([c EXCEPT !.at = "answered", !.ans = [bot |-> n, linked |-> l]], n)
           /\ AskOK([c EXCEPT !.at = "failed"], n)
<1> DEFINE a == [bot |-> n, linked |-> l]
           d == [c EXCEPT !.at = "answered", !.ans = a]
           e == [c EXCEPT !.at = "failed"]
<1>1. HeardOf(a, n)
    BY DEF HeardOf
<1> HIDE DEF a
<1>2. d \in [kind : {c.kind}, at : {"answered"}, then : {c.then}, ans : {a}]
    BY DEF AskOK
<1>3. e \in [kind : {c.kind}, at : {"failed"}, then : {c.then}, ans : {c.ans}]
    BY DEF AskOK
<1> HIDE DEF d, e
<1>4. AskOK(d, n) /\ AskOK(e, n)
    BY <1>1, <1>2, <1>3 DEF AskOK
<1> QED BY <1>4 DEF a, d, e

\* what the handlers do to the section of the profile page
LEMMA SectionChanges ==
    ASSUME NEW n, NEW s, s # None, SectionOK(s, n), NEW b, NEW k \in {None} \cup 1..n
    PROVE  /\ SectionOK([s EXCEPT !.busy = TRUE], n) /\ SectionOK([s EXCEPT !.busy = FALSE], n)
           /\ SectionOK([s EXCEPT !.code = k], n) /\ SectionOK([s EXCEPT !.bot = b, !.code = k], n)
<1> DEFINE t == [s EXCEPT !.busy = TRUE]
           f == [s EXCEPT !.busy = FALSE]
           h == [s EXCEPT !.code = k]
           m == [s EXCEPT !.bot = b, !.code = k]
<1>1. /\ t \in [code : {s.code}, bot : {s.bot}, busy : {TRUE}]
      /\ f \in [code : {s.code}, bot : {s.bot}, busy : {FALSE}]
      /\ h \in [code : {k}, bot : {s.bot}, busy : {s.busy}]
      /\ m \in [code : {k}, bot : {b}, busy : {s.busy}]
    BY DEF SectionOK
<1>2. s.busy \in BOOLEAN /\ s.code \in {None} \cup 1..n
    BY DEF SectionOK
<1> HIDE DEF t, f, h, m
<1>3. SectionOK(t, n) /\ SectionOK(f, n) /\ SectionOK(h, n) /\ SectionOK(m, n)
    BY <1>1, <1>2 DEF SectionOK
<1> QED BY <1>3 DEF t, f, h, m

LEMMA FinishedOK ==
    ASSUME NEW n, NEW s, SectionOK(s, n), NEW t PROVE SectionOK(Telegram!Finished(s, t), n)
<1>1. CASE s = None
    BY <1>1 DEF Telegram!Finished
<1>2. CASE s # None
  <2>1. SectionOK([s EXCEPT !.busy = FALSE], n)
    BY <1>2, SectionChanges
  <2> QED BY <2>1 DEF Telegram!Finished
<1> QED BY <1>1, <1>2

LEMMA EffectsOK ==
    ASSUME NEW n, SectionOK(section, n), NEW a PROVE SectionOK(Telegram!Effects(a), n)
<1> DEFINE k == IF Telegram!KeepCode(section, a) THEN section.code ELSE None
<1>1. CASE section = None
    BY <1>1 DEF Telegram!Effects, SectionOK
<1>2. CASE section # None
  <2>1. k \in {None} \cup 1..n
    BY <1>2 DEF SectionOK
  <2>2. Telegram!Effects(a) = [section EXCEPT !.bot = a.bot, !.code = k]
    BY <1>2 DEF Telegram!Effects
  <2> HIDE DEF k
  <2>3. SectionOK([section EXCEPT !.bot = a.bot, !.code = k], n)
    BY <1>2, <2>1, SectionChanges
  <2> QED BY <2>2, <2>3
<1> QED BY <1>1, <1>2

LEMMA MountedOK == \A st1, n : SectionOK(Telegram!Mounted(st1), n)
BY DEF Telegram!Mounted, SectionOK

\* a step that leaves the hub's bot alone
LEMMA SameBotTypes ==
    ASSUME TelegramTypes, bot' = bot, CountOK', LinkOK',
           status' # None => HeardOf(status', bot), SectionOK(section', bot),
           \A c \in asked' : AskOK(c, bot)
    PROVE  TelegramTypes'
BY DEF TelegramTypes, ShownOK, AsksOK

LEMMA ActCounts ==
    ASSUME MaxActs \in Nat, MaxBots \in Nat, CountOK, Telegram!Act, bot' = bot
    PROVE  CountOK'
BY DEF CountOK, Telegram!Act

LEMMA HubTelegram ==
    ASSUME MaxActs \in Nat, MaxBots \in Nat, TelegramTypes,
           \/ Telegram!BotLinks \/ Telegram!CodeExpires \/ Telegram!AdminChangesBot
           \/ Telegram!ServeAny \/ \E c \in asked : Telegram!Lost(c)
    PROVE  TelegramTypes'
<1>t. CountOK /\ LinkOK /\ ShownOK /\ AsksOK /\ bot \in Nat \ {0}
    BY DEF TelegramTypes, CountOK
<1>1. CASE Telegram!BotLinks \/ Telegram!CodeExpires
  <2>1. /\ UNCHANGED <<bot, tgCount, status, section, asked, awaiting, stored>>
        /\ linked' \in {linked, TRUE} /\ code' = None
    BY <1>1 DEF Telegram!BotLinks, Telegram!CodeExpires, Telegram!HubSame, Telegram!client
  <2>2. CountOK' /\ LinkOK'
    BY <1>t, <2>1 DEF CountOK, LinkOK
  <2> QED BY <1>t, <2>1, <2>2, SameBotTypes DEF ShownOK, AsksOK
<1>2. CASE Telegram!AdminChangesBot
  <2>1. /\ UNCHANGED <<status, section, asked, awaiting, stored>>
        /\ tgCount.bots < MaxBots /\ tgCount' = [tgCount EXCEPT !.bots = @ + 1]
        /\ bot' = bot + 1 /\ linked' = FALSE /\ code' = None
    BY <1>2 DEF Telegram!AdminChangesBot, Telegram!HubSame, Telegram!client
  <2>2. CountOK'
    BY <1>t, <2>1 DEF CountOK
  <2>3. LinkOK'
    BY <1>t, <2>1 DEF LinkOK
  <2>4. \A a : HeardOf(a, bot) => HeardOf(a, bot')
    BY <1>t, <2>1 DEF HeardOf
  <2>5. \A s : SectionOK(s, bot) => SectionOK(s, bot')
    BY <1>t, <2>1 DEF SectionOK
  <2>6. ShownOK' /\ AsksOK'
    BY <1>t, <2>1, <2>4, <2>5 DEF ShownOK, AsksOK, AskOK
  <2> QED BY <2>2, <2>3, <2>6 DEF TelegramTypes
<1>3. ASSUME NEW c \in asked, Telegram!Serve(c) PROVE TelegramTypes'
  <2> DEFINE d == [c EXCEPT !.at = "answered", !.ans = [bot |-> bot, linked |-> linked']]
  <2>1. /\ UNCHANGED <<bot, tgCount, status, section, awaiting, stored>>
        /\ linked' = (linked /\ c.kind # "unlink") /\ code' \in {None, tgCount.acts, code}
        /\ asked' = (asked \ {c}) \cup {d}
    BY <1>3 DEF Telegram!Serve, Telegram!Answered, Telegram!client
  <2>2. linked' \in BOOLEAN
    BY <2>1, Zenon
  <2>3. AskOK(d, bot)
    BY <1>t, <2>2, AnswerOfHub DEF AsksOK
  <2> HIDE DEF d
  <2>4. CountOK' /\ LinkOK'
    BY <1>t, <2>1, <2>2 DEF CountOK, LinkOK
  <2> QED BY <1>t, <2>1, <2>3, <2>4, SameBotTypes DEF ShownOK, AsksOK
<1>4. ASSUME NEW c \in asked, Telegram!Lost(c) PROVE TelegramTypes'
  <2>1. /\ UNCHANGED <<bot, linked, code, status, section, awaiting, stored>>
        /\ tgCount' = [tgCount EXCEPT !.lost = @ + 1]
        /\ asked' = (asked \ {c}) \cup {[c EXCEPT !.at = "failed"]}
    BY <1>4 DEF Telegram!Lost, Telegram!hubSide, Telegram!client
  <2>2. AskOK([c EXCEPT !.at = "failed"], bot)
    BY <1>t, AnswerOfHub DEF AsksOK
  <2>3. CountOK' /\ LinkOK'
    BY <1>t, <2>1 DEF CountOK, LinkOK
  <2> QED BY <1>t, <2>1, <2>2, <2>3, SameBotTypes DEF ShownOK, AsksOK
<1> QED BY <1>1, <1>2, <1>3, <1>4 DEF Telegram!ServeAny

LEMMA UserTelegram ==
    ASSUME MaxActs \in Nat, MaxBots \in Nat, TelegramTypes, Telegram!Inputs \/ Telegram!Tick
    PROVE  TelegramTypes'
<1>t. CountOK /\ LinkOK /\ ShownOK /\ AsksOK
    BY DEF TelegramTypes
<1>u. UNCHANGED <<bot, linked, code>>
    BY DEF Telegram!Inputs, Telegram!Tick, Telegram!Focus, Telegram!OpenSection, Telegram!CloseSection,
        Telegram!Reload, Telegram!Press, Telegram!hubSide
<1>1. CountOK'
  <2>1. Telegram!Act \/ UNCHANGED tgCount
    BY DEF Telegram!Inputs, Telegram!Tick, Telegram!Focus, Telegram!OpenSection,
        Telegram!CloseSection, Telegram!Reload, Telegram!Press
  <2> QED BY <1>t, <1>u, <2>1, ActCounts DEF CountOK
<1>2. LinkOK'
  <2>1. awaiting' \in {awaiting, stored} /\ stored' = stored
    BY DEF Telegram!Inputs, Telegram!Tick, Telegram!Focus, Telegram!OpenSection,
        Telegram!CloseSection, Telegram!Reload, Telegram!Press, Telegram!client
  <2> QED BY <1>t, <1>u, <2>1 DEF LinkOK
<1>3. status' \in {status, None}
    BY DEF Telegram!Inputs, Telegram!Tick, Telegram!Focus, Telegram!OpenSection,
        Telegram!CloseSection, Telegram!Reload, Telegram!Press, Telegram!client
<1>4. SectionOK(section', bot)
  <2>1. \/ section' \in {section, None, Telegram!Mounted(status), Telegram!Mounted(None)}
        \/ section # None /\ section' = [section EXCEPT !.busy = TRUE]
    BY DEF Telegram!Inputs, Telegram!Tick, Telegram!Focus, Telegram!OpenSection,
        Telegram!CloseSection, Telegram!Reload, Telegram!Press, Telegram!client
  <2>2. SectionOK(section, bot) /\ SectionOK(None, bot)
    BY <1>t DEF ShownOK, SectionOK
  <2>3. section # None => SectionOK([section EXCEPT !.busy = TRUE], bot)
    BY <2>2, SectionChanges
  <2> QED BY <2>1, <2>2, <2>3, MountedOK
<1>5. \A c \in asked' : AskOK(c, bot)
  <2>1. asked' \subseteq asked \cup {Telegram!Call(k, t) :
            k \in {"status", Telegram!Fresh, "link", "unlink"}, t \in {"none", "handler"}}
    BY DEF Telegram!Inputs, Telegram!Tick, Telegram!Focus, Telegram!OpenSection,
        Telegram!CloseSection, Telegram!Reload, Telegram!Press
  <2> QED BY <1>t, <2>1, CallOK DEF AsksOK
<1> QED BY <1>t, <1>u, <1>1, <1>2, <1>3, <1>4, <1>5, SameBotTypes DEF ShownOK

LEMMA TakeTelegram ==
    ASSUME MaxActs \in Nat, MaxBots \in Nat, TelegramTypes, NEW c \in asked, Telegram!Take(c)
    PROVE  TelegramTypes'
<1>t. CountOK /\ LinkOK /\ ShownOK /\ AsksOK /\ AskOK(c, bot) /\ SectionOK(section, bot)
    BY DEF TelegramTypes, AsksOK, ShownOK
<1>u. UNCHANGED <<bot, linked, code, tgCount>>
    BY DEF Telegram!Take, Telegram!HandlerGoesOn, Telegram!AskAgain, Telegram!ApplyStatus,
        Telegram!Fails, Telegram!hubSide
<1>1. CountOK'
    BY <1>t, <1>u DEF CountOK
<1>2. \A d \in asked' : AskOK(d, bot)
  <2>1. asked' \subseteq asked \cup {Telegram!Call("status", "handler"),
                                    Telegram!Call(Telegram!Fresh, c.then)}
    BY DEF Telegram!Take, Telegram!HandlerGoesOn, Telegram!AskAgain, Telegram!ApplyStatus,
        Telegram!Fails
  <2> QED BY <1>t, <2>1, CallOK DEF AsksOK
<1>3. CASE Telegram!HandlerGoesOn(c)
  <2> DEFINE k == IF c.kind = "link" /\ Telegram!OfThisBot(c.ans) THEN c.ans.bot ELSE None
  <2>1. /\ awaiting' = (c.kind = "link") /\ stored' = (c.kind = "link") /\ status' = status
        /\ section' = IF section = None THEN None ELSE [section EXCEPT !.code = k]
    BY <1>3 DEF Telegram!HandlerGoesOn, Telegram!Wait
  <2>2. k \in {None} \cup 1..bot
    BY <1>t, <1>3 DEF Telegram!HandlerGoesOn, Telegram!Get, AskOK, HeardOf
  <2>3. section # None => SectionOK([section EXCEPT !.code = k], bot)
    <3> HIDE DEF k
    <3> QED BY <1>t, <2>2, SectionChanges
  <2> HIDE DEF k
  <2>4. SectionOK(section', bot)
    BY <1>t, <2>1, <2>3
  <2>5. awaiting' \in BOOLEAN /\ stored' \in BOOLEAN
    BY <2>1, Zenon
  <2>6. LinkOK'
    BY <1>t, <1>u, <2>5 DEF LinkOK
  <2> QED BY <1>t, <1>u, <1>1, <1>2, <2>1, <2>4, <2>6, SameBotTypes DEF ShownOK
<1>4. CASE Telegram!AskAgain(c)
  <2>1. UNCHANGED <<awaiting, stored, status, section>>
    BY <1>4 DEF Telegram!AskAgain, Telegram!client
  <2>2. LinkOK'
    BY <1>t, <1>u, <2>1 DEF LinkOK
  <2> QED BY <1>t, <1>u, <1>1, <1>2, <2>1, <2>2, SameBotTypes DEF ShownOK
<1>5. CASE Telegram!ApplyStatus(c)
  <2>1. /\ awaiting' \in {awaiting, FALSE} /\ stored' \in {stored, FALSE} /\ status' = c.ans
        /\ section' = Telegram!Finished(Telegram!Effects(c.ans), c.then) /\ c.at = "answered"
    BY <1>5 DEF Telegram!ApplyStatus, Telegram!Wait, Telegram!Get
  <2>2. SectionOK(section', bot)
    BY <1>t, <2>1, EffectsOK, FinishedOK
  <2>3. LinkOK'
    BY <1>t, <1>u, <2>1 DEF LinkOK
  <2>4. HeardOf(status', bot)
    BY <1>t, <2>1 DEF AskOK
  <2> QED BY <1>u, <1>1, <1>2, <2>2, <2>3, <2>4, SameBotTypes
<1>6. CASE Telegram!Fails(c)
  <2>1. UNCHANGED <<awaiting, stored, status>> /\ section' = Telegram!Finished(section, c.then)
    BY <1>6 DEF Telegram!Fails
  <2>2. LinkOK'
    BY <1>t, <1>u, <2>1 DEF LinkOK
  <2> QED BY <1>t, <1>u, <1>1, <1>2, <2>1, <2>2, FinishedOK, SameBotTypes DEF ShownOK
<1> QED BY <1>3, <1>4, <1>5, <1>6 DEF Telegram!Take

LEMMA TelegramTyping == MaxActs \in Nat /\ MaxBots \in Nat /\ Telegram!Spec => []Telegram!TypeOK
<1> SUFFICES ASSUME MaxActs \in Nat, MaxBots \in Nat PROVE Telegram!Spec => []Telegram!TypeOK
    OBVIOUS
<1>1. Telegram!InitTelegram => TelegramTypes
  <2> SUFFICES ASSUME Telegram!InitTelegram PROVE TelegramTypes
    OBVIOUS
  <2>1. CountOK
    BY DEF Telegram!InitTelegram, CountOK
  <2>2. LinkOK /\ ShownOK
    BY DEF Telegram!InitTelegram, LinkOK, ShownOK, SectionOK
  <2>3. AsksOK
    BY CallOK DEF Telegram!InitTelegram, AsksOK
  <2> QED BY <2>1, <2>2, <2>3 DEF TelegramTypes
<1>2. TelegramTypes /\ [Telegram!Next]_(Telegram!tgVars) => TelegramTypes'
  <2> SUFFICES ASSUME TelegramTypes, [Telegram!Next]_(Telegram!tgVars) PROVE TelegramTypes'
    OBVIOUS
  <2>1. CASE UNCHANGED Telegram!tgVars
    BY <2>1 DEF Telegram!tgVars, TelegramTypes, CountOK, LinkOK, ShownOK, AsksOK
  <2> QED BY <2>1, HubTelegram, UserTelegram, TakeTelegram DEF Telegram!Next, Telegram!Answer
<1>3. TelegramTypes => Telegram!TypeOK
  <2> SUFFICES ASSUME TelegramTypes PROVE Telegram!TypeOK
    OBVIOUS
  <2>1. bot \in 1..(MaxBots + 1)
    BY DEF TelegramTypes, CountOK
  <2> QED BY <2>1 DEF TelegramTypes, LinkOK, ShownOK, SectionOK, HeardOf, Telegram!TypeOK
<1> QED BY <1>1, <1>2, <1>3, PTL DEF Telegram!Spec
-----------------------------------------------------------------------------
(* The parts in the client                                                     *)

LEMMA RecorderPart == Spec => Recorder!Spec
PROOF
<1>1. Init => Recorder!Init
  BY DEF Init
<1>2. [Next]_vars => [Recorder!Next]_(Recorder!rVars)
  BY DEF Next, OnScreen, Rest, vars, recorderVars, Recorder!rVars
<1>. QED BY <1>1, <1>2, PTL DEF Spec, Recorder!Spec

LEMMA IngestPart == Spec => Ingest!Spec
PROOF
<1>1. Init => Ingest!Init
  BY DEF Init
<1>2. [Next]_vars => [Ingest!Next]_(Ingest!wVars)
  BY DEF Next, OnScreen, Rest, vars, ingestVars, Ingest!wVars
<1>. QED BY <1>1, <1>2, PTL DEF Spec, Ingest!Spec

LEMMA TasksPart == Spec => Tasks!Spec
PROOF
<1>1. Init => Tasks!Init
  BY DEF Init
<1>2. [Next]_vars => [Tasks!Next]_(Tasks!tVars)
  BY DEF Next, OnScreen, Rest, vars, tasksVars, Tasks!tVars
<1>. QED BY <1>1, <1>2, PTL DEF Spec, Tasks!Spec

LEMMA ListsPart == Spec => Lists!Spec
PROOF
<1>1. Init => Lists!InitQueries
  BY DEF Init
<1>2. [Next]_vars => [Lists!Next]_(Lists!queryVars)
  BY DEF Next, OnScreen, Rest, vars, listsVars, Lists!queryVars
<1>. QED BY <1>1, <1>2, PTL DEF Spec, Lists!Spec

LEMMA TelegramPart == Spec => Telegram!Spec
PROOF
<1>1. Init => Telegram!InitTelegram
  BY DEF Init
<1>2. [Next]_vars => [Telegram!Next]_(Telegram!tgVars)
  BY DEF Next, OnScreen, Rest, vars, telegramVars, Telegram!tgVars
<1>. QED BY <1>1, <1>2, PTL DEF Spec, Telegram!Spec
-----------------------------------------------------------------------------
(* An uploaded recording is one take: chunksRef never mixes two recorders. *)
THEOREM ClientUploadsOneTake == Spec => []OneTake
PROOF
<1>1. Recorder!Spec => []Recorder!OneTake
  BY UploadsOneTake
<1>. QED BY <1>1, RecorderPart DEF OneTake

(* The browser holds one microphone at most: releaseCapture comes before getUserMedia. *)
THEOREM ClientHoldsOneMicrophone == Spec => []OneMicrophone
PROOF
<1>1. Recorder!Spec => []Recorder!OneMicrophone
  BY HoldsOneMicrophone
<1>. QED BY <1>1, RecorderPart DEF OneMicrophone

(* The cleanup of the recording dialog turns the microphone off. *)
THEOREM ClientTurnsMicrophoneOff == Spec => []MicrophoneOff
PROOF
<1>1. Recorder!Spec => []Recorder!MicrophoneOff
  BY TurnsMicrophoneOff
<1>. QED BY <1>1, RecorderPart DEF MicrophoneOff

(* Every task carries the pipeline that was set when its flow was started (IngestPanel). *)
THEOREM ClientKeepsThePipeline == Spec => []PipelineHonoured
PROOF
<1>1. Ingest!Spec => []Ingest!PipelineHonoured
  BY Ingest!KeepsThePipeline
<1>. QED BY <1>1, IngestPart DEF PipelineHonoured

(* Extra tags are cleared only for something stored that carries them, or by a flow that
   outlived its panel (IngestPanel). *)
THEOREM ClientSpendsTagsOnce == Spec => TagsSpent
PROOF
<1>1. Ingest!Spec => Ingest!TagsSpent
  BY Ingest!SpendsTagsOnce
<1>. QED BY <1>1, IngestPart DEF TagsSpent

(* The task list of the client implements Mirror (useTasksListPoll, fetchSeq). *)
THEOREM ClientMirrorsTasks == Spec => ListIsMirror
PROOF
<1>1. Tasks!Spec => Tasks!ListIsMirror
  BY ListImplementsMirror
<1>. QED BY <1>1, TasksPart DEF ListIsMirror

(* The poller of the task list is lost to no failure and no change of a filter, only to a
   reload() that took its sequence number (useTasksListPoll). *)
THEOREM ClientKeepsPolling ==
    (\A f, a : None # [filt |-> f, ans |-> a]) /\ Spec => []PollsUnlessOvertaken
PROOF
<1>1. (\A f, a : None # [filt |-> f, ans |-> a]) /\ Tasks!Spec => []Tasks!PollsUnlessOvertaken
  BY PollerGoesOn
<1>. QED BY <1>1, TasksPart DEF PollsUnlessOvertaken

(* The task page leaves for an artifact only when the chain has succeeded (useTaskPoll). *)
THEOREM ClientLeavesWhenDone == None \notin Tasks!Task \cup {Refused} /\ Spec => ChainDone
PROOF
<1>1. None \notin Tasks!Task \cup {Refused} /\ Tasks!Spec => Tasks!ChainDone
  BY LeavesWhenDone
<1>. QED BY <1>1, TasksPart DEF ChainDone

(* A filtered list whose requests have been answered in order shows what its filters say
   (useLibraryList and the effects of the other lists). *)
THEOREM ClientListsSettle == (\A x, n : None # [q |-> x, pages |-> n]) /\ Spec => []ListSettles
PROOF
<1>1. (\A x, n : None # [q |-> x, pages |-> n]) /\ Lists!Spec => []Lists!ListSettles
  BY ListsSettle
<1>. QED BY <1>1, ListsPart DEF ListSettles

(* Every part of the client keeps its types, whatever is pressed, answered, lost or late: a
   request carries a filter of the menu, a page shows its own task, a stream is one the browser
   gave, a status names a bot the hub has had.  None is no task, request, answer or panel. *)
THEOREM ClientTyped ==
    /\ None \notin Tasks!Task \cup {Refused} \cup Ingest!PanelRec
    /\ \A x, n : None # [q |-> x, pages |-> n]
    /\ Spec
    => []TypeOK
PROOF
<1>. SUFFICES ASSUME None \notin Tasks!Task \cup {Refused} \cup Ingest!PanelRec,
                     \A x, n : None # [q |-> x, pages |-> n]
              PROVE  Spec => []TypeOK
  OBVIOUS
<1>1. {MaxInputs, MaxPauses, MaxActs, MaxBots} \subseteq Nat
  BY ClientBounds
<1>2. Tasks!Spec => []Tasks!TypeOK
  BY TasksTyping
<1>3. Ingest!Spec => []Ingest!TypeOK
  BY <1>1, Ingest!IngestTyped
<1>4. Recorder!Spec => []Recorder!TypeOK
  BY <1>1, RecorderTyping
<1>5. Lists!Spec => []Lists!TypeOK
  BY ListsTyping
<1>6. Telegram!Spec => []Telegram!TypeOK
  BY <1>1, TelegramTyping
<1>7. /\ Tasks!TypeOK /\ Ingest!TypeOK /\ Recorder!TypeOK /\ Lists!TypeOK /\ Telegram!TypeOK
      => TypeOK
  BY DEF TypeOK
<1>. QED BY <1>2, <1>3, <1>4, <1>5, <1>6, <1>7, TasksPart, IngestPart, RecorderPart, ListsPart,
            TelegramPart, PTL
=============================================================================
