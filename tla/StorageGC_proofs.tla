--------------------------- MODULE StorageGC_proofs ---------------------------
(* Proof that a row of table audios never loses its file, and that no deleted *)
(* audio is forgotten, for any number of paths, deletions, drains and deaths. *)
EXTENDS StorageGC, TLAPS

Typed ==
    /\ ingest \in [Path -> {"new", "saved", "stored", "lost"}]
    /\ tx \in [Wipe -> [at : {"new", "open", "done"}, todo : SUBSET Path,
                        gone : SUBSET Path, added : SUBSET Path]]
    /\ drain \in [Drainer -> [at : {"idle", "lock", "delete"}, batch : SUBSET Path,
                              ok : SUBSET Path]]

(* Every path the parts hold is that of an audio whose row was committed once: *)
(* a path is used once, so no ingest will write its blob or its row again.     *)
Stored == {p \in Path : ingest[p] = "stored"}
Committed ==
    /\ \A p \in Path : ingest[p] = "saved" => p \in blob
    /\ row \subseteq Stored /\ DOMAIN pending \subseteq Stored
    /\ \A w \in Wipe : tx[w].todo \subseteq Stored /\ tx[w].gone \subseteq Stored
    /\ \A d \in Drainer : drain[d].batch \subseteq Stored /\ drain[d].ok \subseteq Stored

(* A transaction deletes what it puts on the list; a row that is to go is on   *)
(* the list because of the transaction that deletes it, and no two open        *)
(* transactions delete the same row.                                           *)
TxOK(w) ==
    /\ tx[w].added \subseteq tx[w].gone
    /\ tx[w].gone \cap row \subseteq tx[w].added \cap DOMAIN pending
    /\ tx[w].at # "open" => tx[w].gone = {}
TxsOK ==
    /\ \A w \in Wipe : TxOK(w)
    /\ \A v, w \in Wipe : v # w => tx[v].gone \cap tx[w].gone = {}

(* What the list says once the open transactions are rolled back. *)
Listed == DOMAIN pending \ Uncommitted
DrainOK(d) ==
    /\ drain[d].batch \cap row = {} /\ drain[d].ok \cap (row \cup blob) = {}

(* The list never names a row that stays... *)
ListedIsGone == Listed \cap row = {}
(* ...and names every file whose row is gone. *)
NothingForgotten == (Stored \ row) \cap blob \subseteq Listed

IInv ==
    /\ Typed /\ Committed /\ TxsOK /\ (\A d \in Drainer : DrainOK(d))
    /\ ListedIsGone /\ NothingForgotten /\ BlobKept
-----------------------------------------------------------------------------
TxRec == [at : {"new", "open", "done"}, todo : SUBSET Path, gone : SUBSET Path, added : SUBSET Path]
DrainRec == [at : {"idle", "lock", "delete"}, batch : SUBSET Path, ok : SUBSET Path]

(* Taking paths off the list leaves the others on it. *)
LEMMA WithoutDomain == \A q, S : DOMAIN Without(q, S) = DOMAIN q \ S
PROOF BY DEF Without

LEMMA QueuedDomain == \A q, p : DOMAIN Queued(q, p) = DOMAIN q \cup {p}
PROOF BY DEF Queued

(* A drain takes committed rows of the list. *)
LEMMA OldestListed == Oldest \subseteq Listed
PROOF BY WithoutDomain DEF Oldest, Listed

(* The whole invariant when only the records of the drains and the lock change. *)
LEMMA DrainKeeps ==
    ASSUME IInv, UNCHANGED <<blob, ingestVars, pending, tx>>,
           NEW d \in Drainer, NEW r \in DrainRec, drain' = [drain EXCEPT ![d] = r],
           r.batch \subseteq Stored, r.batch \cap row = {},
           r.ok \subseteq Stored, r.ok \cap (row \cup blob) = {}
    PROVE  IInv'
PROOF
<1>1. \A e \in Drainer : drain'[e] = IF e = d THEN r ELSE drain[e]
  BY DEF IInv, Typed
<1>2. Typed'
  BY DEF IInv, Typed, DrainRec, ingestVars
<1>3. Committed'
  BY <1>1 DEF IInv, Committed, Stored, ingestVars
<1>4. \A e \in Drainer : DrainOK(e)'
  BY <1>1 DEF IInv, DrainOK, ingestVars
<1>5. UNCHANGED <<Listed, TxsOK, ListedIsGone, NothingForgotten, BlobKept>>
  BY DEF Listed, Uncommitted, TxsOK, TxOK, ListedIsGone, NothingForgotten, Stored, BlobKept, ingestVars
<1>. QED BY <1>2, <1>3, <1>4, <1>5 DEF IInv
-----------------------------------------------------------------------------
(* Ingest *)

LEMMA SaveKeeps ==
    ASSUME IInv, NEW p \in Path, Save(p)
    PROVE  IInv'
PROOF
<1>1. /\ ingest[p] = "new" /\ blob' = blob \cup {p} /\ ingest' = [ingest EXCEPT ![p] = "saved"]
      /\ UNCHANGED <<row, pending, tx, drain>>
  BY DEF Save
<1>2. Stored' = Stored /\ p \notin Stored
  BY <1>1 DEF Stored, IInv, Typed
<1>3. Typed' /\ Committed'
  BY <1>1, <1>2 DEF IInv, Typed, Committed
<1>4. \A d \in Drainer : DrainOK(d)'
  BY <1>1, <1>2 DEF IInv, DrainOK, Committed
<1>5. UNCHANGED <<Listed, TxsOK, ListedIsGone>>
  BY <1>1 DEF Listed, Uncommitted, TxsOK, TxOK, ListedIsGone
<1>6. NothingForgotten' /\ BlobKept'
  BY <1>1, <1>2, <1>5 DEF IInv, NothingForgotten, BlobKept
<1>. QED BY <1>3, <1>4, <1>5, <1>6 DEF IInv

LEMMA CommitAudioKeeps ==
    ASSUME IInv, NEW p \in Path, CommitAudio(p)
    PROVE  IInv'
PROOF
<1>1. /\ ingest[p] = "saved" /\ row' = row \cup {p} /\ ingest' = [ingest EXCEPT ![p] = "stored"]
      /\ UNCHANGED <<blob, pending, tx, drain>>
  BY DEF CommitAudio
<1>2. Stored' = Stored \cup {p} /\ p \notin Stored /\ p \in blob
  BY <1>1 DEF Stored, IInv, Typed, Committed
<1>3. Typed' /\ Committed'
  BY <1>1, <1>2 DEF IInv, Typed, Committed
<1>4. \A d \in Drainer : DrainOK(d)'
  BY <1>1, <1>2 DEF IInv, DrainOK, Committed
<1>5. Listed' = Listed /\ p \notin Listed
  BY <1>1, <1>2 DEF Listed, Uncommitted, IInv, Committed
<1>6. TxsOK'
  BY <1>1, <1>2 DEF IInv, Committed, TxsOK, TxOK
<1>7. ListedIsGone' /\ NothingForgotten' /\ BlobKept'
  BY <1>1, <1>2, <1>5 DEF IInv, ListedIsGone, NothingForgotten, BlobKept
<1>. QED BY <1>3, <1>4, <1>6, <1>7 DEF IInv

LEMMA LoseAudioKeeps ==
    ASSUME IInv, NEW p \in Path, LoseAudio(p)
    PROVE  IInv'
PROOF
<1>1. /\ ingest[p] = "saved" /\ ingest' = [ingest EXCEPT ![p] = "lost"]
      /\ UNCHANGED <<blob, row, pending, tx, drain>>
  BY DEF LoseAudio
<1>2. Stored' = Stored
  BY <1>1 DEF Stored, IInv, Typed
<1>3. Typed' /\ Committed'
  BY <1>1, <1>2 DEF IInv, Typed, Committed
<1>4. /\ UNCHANGED <<Listed, TxsOK, ListedIsGone, NothingForgotten, BlobKept>>
      /\ \A d \in Drainer : DrainOK(d) => DrainOK(d)'
  BY <1>1, <1>2 DEF Listed, Uncommitted, TxsOK, TxOK, ListedIsGone, NothingForgotten, BlobKept, DrainOK
<1>. QED BY <1>3, <1>4 DEF IInv
-----------------------------------------------------------------------------
(* Deletion *)

(* A transaction's record is replaced. *)
LEMMA TxRecord ==
    ASSUME Typed, NEW w \in Wipe, NEW r \in TxRec, tx' = [tx EXCEPT ![w] = r],
           UNCHANGED <<ingest, drain>>
    PROVE  Typed' /\ \A v \in Wipe : tx'[v] = IF v = w THEN r ELSE tx[v]
PROOF BY DEF Typed, TxRec

LEMMA OpenKeeps ==
    ASSUME IInv, NEW w \in Wipe, NEW S \in SUBSET row, Open(w, S)
    PROVE  IInv'
PROOF
<1>. DEFINE r == [NoTx EXCEPT !.at = "open", !.todo = S]
<1>1. /\ S \subseteq row /\ tx' = [tx EXCEPT ![w] = r]
      /\ UNCHANGED <<blob, row, ingest, pending, drain>>
  BY DEF Open, ingestVars
<1>2. S \subseteq Stored /\ S \subseteq Path
  BY <1>1 DEF IInv, Committed, Stored
<1>3. r \in TxRec /\ r.todo = S /\ r.gone = {} /\ r.added = {}
  BY <1>2 DEF NoTx, TxRec
<1>. HIDE DEF r
<1>4. Typed' /\ \A v \in Wipe : tx'[v] = IF v = w THEN r ELSE tx[v]
  BY <1>1, <1>3, TxRecord DEF IInv
<1>5. Committed'
  BY <1>1, <1>2, <1>3, <1>4 DEF IInv, Committed, Stored
<1>6. TxsOK'
  <2>1. \A v \in Wipe : TxOK(v)'
    BY <1>1, <1>3, <1>4 DEF IInv, TxsOK, TxOK
  <2>2. \A v \in Wipe : tx'[v].gone \subseteq tx[v].gone
    BY <1>3, <1>4
  <2>. QED BY <2>1, <2>2 DEF IInv, TxsOK
<1>7. Uncommitted' = Uncommitted
  <2>1. tx[w].added = {}
    BY DEF Open, IInv, TxsOK, TxOK
  <2>2. \A v \in Wipe : tx'[v].added = tx[v].added
    BY <1>3, <1>4, <2>1
  <2>. QED BY <2>2 DEF Uncommitted
<1>8. Listed' = Listed
  BY <1>1, <1>7 DEF Listed
<1>9. ListedIsGone' /\ NothingForgotten' /\ BlobKept' /\ \A d \in Drainer : DrainOK(d)'
  BY <1>1, <1>8 DEF IInv, ListedIsGone, NothingForgotten, BlobKept, DrainOK, Stored
<1>. QED BY <1>4, <1>5, <1>6, <1>9 DEF IInv

LEMMA HardDeleteKeeps ==
    ASSUME IInv, NEW w \in Wipe, NEW p \in Path, HardDelete(w, p)
    PROVE  IInv'
PROOF
<1>. DEFINE r == [at |-> "open", todo |-> tx[w].todo \ {p}, gone |-> tx[w].gone \cup {p},
                  added |-> tx[w].added \cup ({p} \ DOMAIN pending)]
<1>1. /\ tx[w].at = "open" /\ p \in tx[w].todo /\ ~Locked(p) /\ pending' = Queued(pending, p)
      /\ tx' = [tx EXCEPT ![w] = r] /\ UNCHANGED <<blob, row, ingest, drain>>
  BY DEF HardDelete, ingestVars, IInv, Typed
<1>2. DOMAIN pending' = DOMAIN pending \cup {p}
  BY <1>1, QueuedDomain
<1>3. r \in TxRec
  BY DEF IInv, Typed, TxRec
<1>4. /\ r.at = "open" /\ r.todo \subseteq tx[w].todo /\ r.gone = tx[w].gone \cup {p}
      /\ r.added = tx[w].added \cup ({p} \ DOMAIN pending)
  OBVIOUS
<1>. HIDE DEF r
<1>5. Typed' /\ \A v \in Wipe : tx'[v] = IF v = w THEN r ELSE tx[v]
  BY <1>1, <1>3, TxRecord DEF IInv
<1>6. \A v \in Wipe : p \notin tx[v].gone /\ p \notin tx[v].added
  BY <1>1 DEF Locked, IInv, TxsOK, TxOK
<1>7. Uncommitted' = Uncommitted \cup ({p} \ DOMAIN pending)
  <2>1. \A q : q \in Uncommitted <=> \E v \in Wipe : q \in tx[v].added
    BY DEF Uncommitted
  <2>2. \A q : q \in Uncommitted' <=> \E v \in Wipe : q \in tx'[v].added
    BY DEF Uncommitted
  <2>. QED BY <1>4, <1>5, <2>1, <2>2
<1>8. Listed' = Listed
  BY <1>2, <1>6, <1>7 DEF Listed, Uncommitted
<1>9. p \in row => p \notin DOMAIN pending
  BY <1>6 DEF IInv, ListedIsGone, Listed, Uncommitted
<1>10. Committed'
  BY <1>1, <1>2, <1>4, <1>5 DEF IInv, Committed, Stored
<1>11. \A v \in Wipe : TxOK(v)'
  <2>. SUFFICES ASSUME NEW v \in Wipe PROVE TxOK(v)'
    OBVIOUS
  <2>1. TxOK(v) /\ TxOK(w)
    BY DEF IInv, TxsOK
  <2>. QED BY <1>1, <1>2, <1>4, <1>5, <1>9, <2>1 DEF TxOK
<1>12. \A u, v \in Wipe : u # v => tx'[u].gone \cap tx'[v].gone = {}
  BY <1>4, <1>5, <1>6 DEF IInv, TxsOK
<1>13. ListedIsGone' /\ NothingForgotten' /\ BlobKept' /\ \A d \in Drainer : DrainOK(d)'
  BY <1>1, <1>8 DEF IInv, ListedIsGone, NothingForgotten, BlobKept, DrainOK, Stored
<1>. QED BY <1>5, <1>10, <1>11, <1>12, <1>13 DEF IInv, TxsOK

(* The record of a transaction that has ended. *)
LEMMA EndedRecord ==
    ASSUME Typed, NEW w \in Wipe, Ended(w)
    PROVE  /\ tx' \in [Wipe -> TxRec]
           /\ tx'[w].todo = {} /\ tx'[w].gone = {} /\ tx'[w].added = {} /\ tx'[w].at = "done"
           /\ \A v \in Wipe : v # w => tx'[v] = tx[v]
PROOF
<1>. DEFINE r == [NoTx EXCEPT !.at = "done"]
<1>1. r \in TxRec /\ r.todo = {} /\ r.gone = {} /\ r.added = {} /\ r.at = "done"
  BY DEF NoTx, TxRec
<1>2. tx' = [tx EXCEPT ![w] = r]
  BY DEF Ended
<1>. HIDE DEF r
<1>. QED BY <1>1, <1>2 DEF Typed, TxRec

(* The paths of uncommitted rows once a transaction has ended. *)
LEMMA EndedUncommitted ==
    ASSUME IInv, NEW w \in Wipe, Ended(w)
    PROVE  Uncommitted' = Uncommitted \ tx[w].added
PROOF
<1>1. tx'[w].added = {} /\ \A v \in Wipe : v # w => tx'[v] = tx[v]
  BY EndedRecord DEF IInv
<1>2. \A v \in Wipe : v # w => tx[v].added \cap tx[w].added = {}
  BY DEF IInv, TxsOK, TxOK
<1>3. \A q : q \in Uncommitted <=> \E v \in Wipe : q \in tx[v].added
  BY DEF Uncommitted
<1>4. \A q : q \in Uncommitted' <=> \E v \in Wipe : q \in tx'[v].added
  BY DEF Uncommitted
<1>. QED BY <1>1, <1>2, <1>3, <1>4

LEMMA CommitKeeps ==
    ASSUME IInv, NEW w \in Wipe, Commit(w)
    PROVE  IInv'
PROOF
<1>1. /\ row' = row \ tx[w].gone /\ Ended(w) /\ drain' = [drain EXCEPT ![w].at = "lock"]
      /\ UNCHANGED <<blob, ingest, pending>>
  BY DEF Commit, Woken
<1>2. /\ tx' \in [Wipe -> TxRec] /\ \A v \in Wipe : v # w => tx'[v] = tx[v]
      /\ tx'[w].todo = {} /\ tx'[w].gone = {} /\ tx'[w].added = {} /\ tx'[w].at = "done"
  BY <1>1, EndedRecord DEF IInv
<1>3. /\ drain' \in [Drainer -> DrainRec]
      /\ \A d \in Drainer : drain'[d].batch = drain[d].batch /\ drain'[d].ok = drain[d].ok
  BY <1>1 DEF IInv, Typed, DrainRec, Drainer
<1>4. Typed'
  BY <1>1, <1>2, <1>3 DEF IInv, Typed, TxRec, DrainRec
<1>5. Committed'
  <2>1. \A v \in Wipe : tx'[v].todo \subseteq Stored /\ tx'[v].gone \subseteq Stored
    BY <1>2 DEF IInv, Committed
  <2>. QED BY <1>1, <1>3, <2>1 DEF IInv, Committed, Stored
<1>6. TxsOK'
  <2>1. \A v \in Wipe : TxOK(v)'
    BY <1>1, <1>2 DEF IInv, TxsOK, TxOK
  <2>2. \A v \in Wipe : tx'[v].gone \subseteq tx[v].gone
    BY <1>2
  <2>. QED BY <2>1, <2>2 DEF IInv, TxsOK
<1>7. Listed' = Listed \cup (DOMAIN pending \cap tx[w].added)
  BY <1>1, EndedUncommitted DEF Listed, Uncommitted
<1>8. tx[w].gone \cap row \subseteq tx[w].added \cap DOMAIN pending /\ tx[w].added \subseteq tx[w].gone
  BY DEF IInv, TxsOK, TxOK
<1>9. ListedIsGone' /\ NothingForgotten' /\ BlobKept'
  BY <1>1, <1>7, <1>8 DEF IInv, ListedIsGone, NothingForgotten, BlobKept, Stored
<1>10. \A d \in Drainer : DrainOK(d)'
  BY <1>1, <1>3 DEF IInv, DrainOK
<1>. QED BY <1>4, <1>5, <1>6, <1>9, <1>10 DEF IInv

LEMMA RollbackKeeps ==
    ASSUME IInv, NEW w \in Wipe, Rollback(w)
    PROVE  IInv'
PROOF
<1>1. /\ DOMAIN pending' = DOMAIN pending \ tx[w].added /\ Ended(w)
      /\ UNCHANGED <<blob, ingest, row, drain>>
  BY WithoutDomain DEF Rollback, RolledBack, ingestVars
<1>2. /\ tx' \in [Wipe -> TxRec] /\ \A v \in Wipe : v # w => tx'[v] = tx[v]
      /\ tx'[w].todo = {} /\ tx'[w].gone = {} /\ tx'[w].added = {} /\ tx'[w].at = "done"
  BY <1>1, EndedRecord DEF IInv
<1>3. Typed'
  BY <1>1, <1>2 DEF IInv, Typed, TxRec
<1>4. Committed'
  <2>1. \A v \in Wipe : tx'[v].todo \subseteq Stored /\ tx'[v].gone \subseteq Stored
    BY <1>2 DEF IInv, Committed
  <2>. QED BY <1>1, <2>1 DEF IInv, Committed, Stored
<1>5. TxsOK'
  <2>1. \A v \in Wipe : v # w => tx[v].added \cap tx[w].added = {}
    BY DEF IInv, TxsOK, TxOK
  <2>2. \A v \in Wipe : TxOK(v)'
    BY <1>1, <1>2, <2>1 DEF IInv, TxsOK, TxOK
  <2>3. \A v \in Wipe : tx'[v].gone \subseteq tx[v].gone
    BY <1>2
  <2>. QED BY <2>2, <2>3 DEF IInv, TxsOK
<1>6. Listed' = Listed
  BY <1>1, EndedUncommitted DEF Listed, Uncommitted
<1>7. ListedIsGone' /\ NothingForgotten' /\ BlobKept' /\ \A d \in Drainer : DrainOK(d)'
  BY <1>1, <1>6 DEF IInv, ListedIsGone, NothingForgotten, BlobKept, DrainOK, Stored
<1>. QED BY <1>3, <1>4, <1>5, <1>7 DEF IInv
-----------------------------------------------------------------------------
(* The drains *)

(* A drain that has no batch. *)
LEMMA NoBatch ==
    ASSUME NEW r, r \in {NoDrain, [NoDrain EXCEPT !.at = "lock"]}
    PROVE  r \in DrainRec /\ r.batch = {} /\ r.ok = {}
PROOF BY DEF NoDrain, DrainRec

LEMMA TickDrainKeeps == ASSUME IInv, TickDrain PROVE IInv'
PROOF
<1>. DEFINE r == [NoDrain EXCEPT !.at = "lock"]
<1>1. /\ UNCHANGED <<blob, ingestVars, pending, tx>> /\ Tick \in Drainer
      /\ drain' = [drain EXCEPT ![Tick] = r]
  BY DEF TickDrain, Become, Drainer
<1>2. r \in DrainRec /\ r.batch = {} /\ r.ok = {}
  BY NoBatch
<1>. HIDE DEF r
<1>. QED BY <1>1, <1>2, DrainKeeps

LEMMA ReadBatchKeeps == ASSUME IInv, NEW d \in Drainer, ReadBatch(d) PROVE IInv'
PROOF
<1>1. UNCHANGED <<blob, ingestVars, pending, tx>>
  BY DEF ReadBatch
<1>2. CASE Leave(d)
  <2>1. drain' = [drain EXCEPT ![d] = NoDrain]
    BY <1>2 DEF Leave, Become
  <2>2. NoDrain \in DrainRec /\ NoDrain.batch = {} /\ NoDrain.ok = {}
    BY NoBatch
  <2>. QED BY <1>1, <2>1, <2>2, DrainKeeps
<1>3. CASE Become(d, [at |-> "delete", batch |-> Oldest, ok |-> {}])
  <2>. DEFINE r == [at |-> "delete", batch |-> Oldest, ok |-> {}]
  <2>1. drain' = [drain EXCEPT ![d] = r]
    BY <1>3 DEF Become
  <2>2. r.batch \subseteq Stored /\ r.batch \cap row = {}
    BY OldestListed DEF IInv, Committed, Listed, ListedIsGone
  <2>3. r \in DrainRec /\ r.ok = {}
    BY <2>2 DEF DrainRec, Stored
  <2>. HIDE DEF r
  <2>. QED BY <1>1, <2>1, <2>2, <2>3, DrainKeeps
<1>. QED BY <1>2, <1>3 DEF ReadBatch

(* One row of a batch is done. *)
LEMMA OneDone ==
    ASSUME NEW k \in DrainRec, NEW p \in Path, NEW o \in SUBSET Path
    PROVE  LET r == [k EXCEPT !.batch = @ \ {p}, !.ok = o]
           IN r \in DrainRec /\ r.batch = k.batch \ {p} /\ r.ok = o
PROOF
<1>. DEFINE a == [k EXCEPT !.batch = @ \ {p}]
            b == [a EXCEPT !.ok = o]
<1>1. a \in DrainRec /\ a.batch = k.batch \ {p} /\ a.ok = k.ok
  BY DEF DrainRec
<1>. HIDE DEF a
<1>2. b \in DrainRec /\ b.batch = k.batch \ {p} /\ b.ok = o
  BY <1>1 DEF DrainRec
<1>3. b = [k EXCEPT !.batch = @ \ {p}, !.ok = o]
  BY DEF a
<1>. QED BY <1>2, <1>3

(* A blob is deleted: its row is gone for good. *)
LEMMA DeleteBlobKeeps == ASSUME IInv, NEW d \in Drainer, NEW p \in Path, DeleteBlob(d, p) PROVE IInv'
PROOF
<1>. DEFINE r == [drain[d] EXCEPT !.batch = @ \ {p}, !.ok = @ \cup {p}]
<1>1. /\ p \in drain[d].batch /\ blob' = blob \ {p} /\ drain' = [drain EXCEPT ![d] = r]
      /\ UNCHANGED <<ingest, row, pending, tx>>
  BY DEF DeleteBlob, First, Become, ingestVars
<1>2. drain[d] \in DrainRec /\ drain[d].ok \cup {p} \in SUBSET Path
  BY DEF IInv, Typed, DrainRec
<1>3. r \in DrainRec /\ r.batch = drain[d].batch \ {p} /\ r.ok = drain[d].ok \cup {p}
  BY <1>2, OneDone
<1>. HIDE DEF r
<1>4. \A e \in Drainer : drain'[e] = IF e = d THEN r ELSE drain[e]
  BY <1>1 DEF IInv, Typed
<1>5. p \in Stored /\ p \notin row
  BY <1>1 DEF IInv, Committed, DrainOK
<1>6. Typed'
  BY <1>1, <1>3 DEF IInv, Typed, DrainRec
<1>7. Committed'
  BY <1>1, <1>3, <1>4, <1>5 DEF IInv, Committed, Stored
<1>8. \A e \in Drainer : DrainOK(e)'
  BY <1>1, <1>3, <1>4, <1>5 DEF IInv, DrainOK
<1>9. UNCHANGED <<Listed, TxsOK, ListedIsGone>>
  BY <1>1 DEF Listed, Uncommitted, TxsOK, TxOK, ListedIsGone
<1>10. NothingForgotten' /\ BlobKept'
  BY <1>1, <1>5, <1>9 DEF IInv, NothingForgotten, BlobKept, Stored
<1>. QED BY <1>6, <1>7, <1>8, <1>9, <1>10 DEF IInv

LEMMA DeleteFailsKeeps == ASSUME IInv, NEW d \in Drainer, NEW p \in Path, DeleteFails(d, p) PROVE IInv'
PROOF
<1>. DEFINE o == drain[d].ok
            r == [drain[d] EXCEPT !.batch = @ \ {p}, !.ok = o]
<1>1. UNCHANGED <<blob, ingestVars, pending, tx>> /\ drain' = [drain EXCEPT ![d] = r]
  BY DEF DeleteFails, Kept, Become
<1>2. drain[d] \in DrainRec /\ o \in SUBSET Path
  BY DEF IInv, Typed, DrainRec
<1>3. r \in DrainRec /\ r.batch = drain[d].batch \ {p} /\ r.ok = drain[d].ok
  <2>. HIDE DEF o
  <2>1. r \in DrainRec /\ r.batch = drain[d].batch \ {p} /\ r.ok = o
    BY <1>2, OneDone, Zenon
  <2>. QED BY <2>1 DEF o
<1>4. DrainOK(d) /\ drain[d].batch \subseteq Stored /\ drain[d].ok \subseteq Stored
  BY DEF IInv, Committed
<1>. HIDE DEF r
<1>5. /\ r.batch \subseteq Stored /\ r.batch \cap row = {}
      /\ r.ok \subseteq Stored /\ r.ok \cap (row \cup blob) = {}
  BY <1>3, <1>4 DEF DrainOK
<1>. QED BY <1>1, <1>3, <1>5, DrainKeeps

(* What a drain takes off the list has no row and no file. *)
LEMMA CommitDrainKeeps == ASSUME IInv, NEW d \in Drainer, CommitDrain(d) PROVE IInv'
PROOF
<1>1. /\ DOMAIN pending' = DOMAIN pending \ drain[d].ok
      /\ UNCHANGED <<blob, ingest, row, tx>>
  BY WithoutDomain DEF CommitDrain, ingestVars
<1>2. PICK r \in {NoDrain, [NoDrain EXCEPT !.at = "lock"]} : drain' = [drain EXCEPT ![d] = r]
  BY DEF CommitDrain, Leave, Become
<1>3. r \in DrainRec /\ r.batch = {} /\ r.ok = {}
  BY NoBatch
<1>4. \A e \in Drainer : drain'[e] = IF e = d THEN r ELSE drain[e]
  BY <1>2 DEF IInv, Typed
<1>5. drain[d].ok \cap (row \cup blob) = {}
  BY DEF IInv, DrainOK
<1>6. Typed'
  BY <1>1, <1>2, <1>3 DEF IInv, Typed, DrainRec
<1>7. Committed'
  BY <1>1, <1>3, <1>4 DEF IInv, Committed, Stored
<1>8. \A e \in Drainer : DrainOK(e)'
  BY <1>1, <1>3, <1>4 DEF IInv, DrainOK
<1>9. TxsOK'
  BY <1>1, <1>5 DEF IInv, TxsOK, TxOK
<1>10. Listed' = Listed \ drain[d].ok
  BY <1>1 DEF Listed, Uncommitted
<1>11. ListedIsGone' /\ NothingForgotten' /\ BlobKept'
  BY <1>1, <1>5, <1>10 DEF IInv, ListedIsGone, NothingForgotten, BlobKept, Stored
<1>. QED BY <1>6, <1>7, <1>8, <1>9, <1>11 DEF IInv

LEMMA DrainRaisesKeeps == ASSUME IInv, NEW d \in Drainer, DrainRaises(d) PROVE IInv'
PROOF
<1>1. UNCHANGED <<blob, ingestVars, pending, tx>>
  BY DEF DrainRaises
<1>2. PICK r \in {NoDrain, [NoDrain EXCEPT !.at = "lock"]} : drain' = [drain EXCEPT ![d] = r]
  BY DEF DrainRaises, Become
<1>3. r \in DrainRec /\ r.batch = {} /\ r.ok = {}
  BY NoBatch
<1>. QED BY <1>1, <1>2, <1>3, DrainKeeps

(* The process dies: the open transactions are rolled back. *)
LEMMA CrashKeeps == ASSUME IInv, Crash PROVE IInv'
PROOF
<1>. DEFINE r == [NoTx EXCEPT !.at = "done"]
<1>1. /\ DOMAIN pending' = Listed /\ UNCHANGED <<blob, row>>
      /\ ingest' = [p \in Path |-> IF ingest[p] = "saved" THEN "lost" ELSE ingest[p]]
  BY WithoutDomain DEF Crash, Listed
<1>2. Stored' = Stored /\ \A p \in Path : ingest'[p] # "saved"
  BY <1>1 DEF IInv, Typed, Stored
<1>3. r \in TxRec /\ r.todo = {} /\ r.gone = {} /\ r.added = {} /\ r.at = "done"
  BY DEF NoTx, TxRec
<1>4. tx' = [w \in Wipe |-> IF tx[w].at = "open" THEN r ELSE tx[w]]
  BY DEF Crash
<1>. HIDE DEF r
<1>5. /\ tx' \in [Wipe -> TxRec]
      /\ \A w \in Wipe : /\ tx'[w].at # "open" /\ tx'[w].gone = {} /\ tx'[w].added = {}
                          /\ tx'[w].todo \subseteq tx[w].todo
  BY <1>3, <1>4 DEF IInv, Typed, TxRec, TxsOK, TxOK
<1>6. /\ drain' \in [Drainer -> DrainRec]
      /\ \A d \in Drainer : drain'[d].batch = {} /\ drain'[d].ok = {}
  <2>1. \A d \in Drainer : drain'[d] \in {NoDrain, [NoDrain EXCEPT !.at = "lock"]}
    BY DEF Crash
  <2>2. drain' = [d \in Drainer |-> drain'[d]]
    BY DEF Crash
  <2>. QED BY <2>1, <2>2, NoBatch
<1>7. Typed'
  BY <1>1, <1>5, <1>6 DEF IInv, Typed, TxRec, DrainRec
<1>8. Committed'
  <2>1. \A w \in Wipe : tx[w].todo \subseteq Stored
    BY DEF IInv, Committed
  <2>. QED BY <1>1, <1>2, <1>5, <1>6, <2>1 DEF IInv, Committed, Listed
<1>9. TxsOK' /\ \A d \in Drainer : DrainOK(d)'
  BY <1>5, <1>6 DEF TxsOK, TxOK, DrainOK
<1>10. Listed' = Listed
  <2>1. Uncommitted' = {}
    BY <1>5 DEF Uncommitted
  <2>. QED BY <1>1, <2>1 DEF Listed
<1>11. ListedIsGone' /\ NothingForgotten' /\ BlobKept'
  BY <1>1, <1>2, <1>10 DEF IInv, ListedIsGone, NothingForgotten, BlobKept
<1>. QED BY <1>7, <1>8, <1>9, <1>11 DEF IInv
-----------------------------------------------------------------------------
LEMMA InitHolds == Init => IInv
PROOF
<1>. SUFFICES ASSUME Init PROVE IInv
  OBVIOUS
<1>1. NoTx \in TxRec /\ NoTx.at = "new" /\ NoTx.todo = {} /\ NoTx.gone = {} /\ NoTx.added = {}
  BY DEF NoTx, TxRec
<1>2. /\ tx \in [Wipe -> TxRec] /\ Uncommitted = {}
      /\ \A w \in Wipe : tx[w].at = "new" /\ tx[w].todo = {} /\ tx[w].gone = {} /\ tx[w].added = {}
  BY <1>1 DEF Init, Uncommitted
<1>3. /\ drain \in [Drainer -> DrainRec]
      /\ \A d \in Drainer : drain[d].batch = {} /\ drain[d].ok = {}
  <2>1. \A d \in Drainer : drain[d] \in {NoDrain, [NoDrain EXCEPT !.at = "lock"]}
    BY DEF Init
  <2>2. drain = [d \in Drainer |-> drain[d]]
    BY DEF Init
  <2>. QED BY <2>1, <2>2, NoBatch
<1>4. /\ blob = {} /\ row = {} /\ DOMAIN pending = {}
      /\ ingest \in [Path -> {"new", "saved", "stored", "lost"}]
      /\ \A p \in Path : ingest[p] = "new"
  BY DEF Init, Empty
<1>5. Typed /\ Committed
  BY <1>2, <1>3, <1>4 DEF Typed, TxRec, DrainRec, Committed
<1>6. TxsOK /\ \A d \in Drainer : DrainOK(d)
  BY <1>2, <1>3 DEF TxsOK, TxOK, DrainOK
<1>. QED BY <1>2, <1>4, <1>5, <1>6 DEF IInv, ListedIsGone, NothingForgotten, Listed, BlobKept

LEMMA NextHolds == IInv /\ [Next]_vars => IInv'
PROOF
<1>. SUFFICES ASSUME IInv, [Next]_vars PROVE IInv'
  OBVIOUS
<1>1. ASSUME NEW p \in Path, Save(p) \/ CommitAudio(p) \/ LoseAudio(p) PROVE IInv'
  BY <1>1, SaveKeeps, CommitAudioKeeps, LoseAudioKeeps
<1>2. ASSUME NEW w \in Wipe, NEW S \in SUBSET row, Open(w, S) PROVE IInv'
  BY <1>2, OpenKeeps
<1>3. ASSUME NEW w \in Wipe, NEW p \in Path, HardDelete(w, p) PROVE IInv'
  BY <1>3, HardDeleteKeeps
<1>4. ASSUME NEW w \in Wipe, Commit(w) \/ Rollback(w) PROVE IInv'
  BY <1>4, CommitKeeps, RollbackKeeps
<1>5. ASSUME NEW d \in Drainer, ReadBatch(d) \/ CommitDrain(d) \/ DrainRaises(d) PROVE IInv'
  BY <1>5, ReadBatchKeeps, CommitDrainKeeps, DrainRaisesKeeps
<1>6. ASSUME NEW d \in Drainer, NEW p \in Path, DeleteBlob(d, p) \/ DeleteFails(d, p) PROVE IInv'
  BY <1>6, DeleteBlobKeeps, DeleteFailsKeeps
<1>7. CASE TickDrain \/ Crash
  BY <1>7, TickDrainKeeps, CrashKeeps
<1>8. CASE UNCHANGED vars
  BY <1>8 DEF vars, ingestVars, IInv, Typed, Committed, TxsOK, TxOK, DrainOK, ListedIsGone,
              NothingForgotten, BlobKept, Stored, Listed, Uncommitted
<1>. QED BY <1>1, <1>2, <1>3, <1>4, <1>5, <1>6, <1>7, <1>8 DEF Next

(* A row that can be opened has its file, however deletions, rollbacks, drains and   *)
(* deaths of the process interleave (queue_storage_delete commits with the deletion, *)
(* a drain deletes before it commits).                                               *)
THEOREM KeepsBlobs == Spec => []BlobKept
PROOF
<1>1. IInv => BlobKept
  BY DEF IInv
<1>. QED BY <1>1, InitHolds, NextHolds, PTL DEF Spec

(* The file of a deleted audio stays on the list until it is gone: neither a commit *)
(* that fails nor a death of the process loses it.                                  *)
THEOREM ForgetsNoFile == Spec => []NothingForgotten
PROOF
<1>1. IInv => NothingForgotten
  BY DEF IInv
<1>. QED BY <1>1, InitHolds, NextHolds, PTL DEF Spec
=============================================================================
