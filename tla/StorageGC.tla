----------------------------- MODULE StorageGC -----------------------------
(***************************************************************************)
(* Audio blobs and the rows that refer to them (app/services/storage.py,   *)
(* storage_gc.py, artifacts.py).  An ingest saves the blob and then        *)
(* commits the row.  A deletion removes rows and inserts their paths into  *)
(* pending_storage_deletes in one transaction; its commit starts a thread  *)
(* that drains this table.  The dispatcher drains it after every tick and  *)
(* the application before it serves its first request.  The id of an audio *)
(* is part of its path, so a path is used once.                            *)
(***************************************************************************)
EXTENDS Naturals, FiniteSets

CONSTANTS
    Path,       \* storage paths
    Wipe,       \* transactions that delete audios, and the threads they start
    Tick,       \* the drain of startup and of the dispatcher
    None,       \* nobody
    Broken,     \* paths the storage refuses to delete whatever is tried
    Batch,      \* rows a drain takes at a time (100 in the code)
    MaxFaults   \* bound on process deaths and failed commits of a drain

ASSUME DrainerAssumption == Tick \notin Wipe /\ None \notin Wipe \cup {Tick}
(* With Batch or more refused paths in front, no drain gets past them. *)
ASSUME BatchAssumption == Broken \subseteq Path /\ Cardinality(Broken) < Batch
ASSUME FaultsAssumption == MaxFaults \in Nat

Drainer == Wipe \cup {Tick}

VARIABLES
    blob,     \* paths whose blob exists
    ingest,   \* what became of the audio of a path
    row,      \* paths of the committed rows of table audios
    pending,  \* pending_storage_deletes, uncommitted rows included: each path with those
              \* on the list before it
    tx,       \* the deleting transactions
    drain,    \* the drainers
    lock,     \* who holds _drain_lock
    serving,  \* the startup drain is over
    faults

ingestVars == <<ingest, row>>
vars == <<blob, ingestVars, pending, tx, drain, lock, serving, faults>>

NoTx == [at |-> "new", todo |-> {}, gone |-> {}, added |-> {}]
NoDrain == [at |-> "idle", batch |-> {}, ok |-> {}]
Empty == [p \in {} |-> {}]

Init ==
    /\ blob = {} /\ ingest = [p \in Path |-> "new"] /\ row = {}
    /\ pending = Empty /\ tx = [w \in Wipe |-> NoTx]
    /\ drain = [d \in Drainer |-> IF d = Tick THEN [NoDrain EXCEPT !.at = "lock"] ELSE NoDrain]
    /\ lock = None /\ serving = FALSE /\ faults = 0

-----------------------------------------------------------------------------
(* Ingest: the backend stores the bytes, then the row is committed, or the   *)
(* request fails in between and the blob stays without a row.                *)
Save(p) ==
    /\ serving /\ ingest[p] = "new"
    /\ blob' = blob \cup {p} /\ ingest' = [ingest EXCEPT ![p] = "saved"]
    /\ UNCHANGED <<row, pending, tx, drain, lock, serving, faults>>

CommitAudio(p) ==
    /\ serving /\ ingest[p] = "saved"
    /\ ingest' = [ingest EXCEPT ![p] = "stored"] /\ row' = row \cup {p}
    /\ UNCHANGED <<blob, pending, tx, drain, lock, serving, faults>>

LoseAudio(p) ==
    /\ serving /\ ingest[p] = "saved" /\ ingest' = [ingest EXCEPT ![p] = "lost"]
    /\ UNCHANGED <<blob, row, pending, tx, drain, lock, serving, faults>>

-----------------------------------------------------------------------------
(* Deletion: one audio (its page, MCP), or all of a user, of an organization *)
(* or past their retention.  A row that another transaction has deleted is   *)
(* locked until that one ends; deleting a row that is gone has no effect.    *)
Open(w, S) ==
    /\ serving /\ tx[w].at = "new" /\ S # {} /\ S \subseteq row
    /\ tx' = [tx EXCEPT ![w] = [NoTx EXCEPT !.at = "open", !.todo = S]]
    /\ UNCHANGED <<blob, ingestVars, pending, drain, lock, serving, faults>>

Locked(p) == \E w \in Wipe : p \in tx[w].gone

Queued(q, p) ==
    IF p \in DOMAIN q THEN q
    ELSE [o \in DOMAIN q \cup {p} |-> IF o = p THEN DOMAIN q ELSE q[o]]

HardDelete(w, p) ==
    /\ tx[w].at = "open" /\ p \in tx[w].todo /\ ~Locked(p)
    /\ pending' = Queued(pending, p)
    /\ tx' = [tx EXCEPT ![w] = [at |-> "open", todo |-> @.todo \ {p}, gone |-> @.gone \cup {p},
                                added |-> @.added \cup ({p} \ DOMAIN pending)]]
    /\ UNCHANGED <<blob, ingestVars, drain, lock, serving, faults>>

Ended(w) == tx' = [tx EXCEPT ![w] = [NoTx EXCEPT !.at = "done"]]

(* after_commit starts a thread that drains. *)
Woken(w) == [drain EXCEPT ![w].at = "lock"]

Commit(w) ==
    /\ tx[w].at = "open" /\ tx[w].todo = {}
    /\ row' = row \ tx[w].gone /\ Ended(w) /\ drain' = Woken(w)
    /\ UNCHANGED <<blob, ingest, pending, lock, serving, faults>>

Without(q, S) == [p \in DOMAIN q \ S |-> q[p] \ S]

MutRolledBack(w) == pending
RolledBack(w) == Without(pending, tx[w].added)

Rollback(w) ==
    /\ tx[w].at = "open" /\ pending' = RolledBack(w) /\ Ended(w)
    /\ UNCHANGED <<blob, ingestVars, drain, lock, serving, faults>>

-----------------------------------------------------------------------------
(* drain_all_pending_storage_deletes: batches under _drain_lock until one    *)
(* removes nothing.                                                          *)
Uncommitted == UNION {tx[w].added : w \in Wipe}

Oldest == LET q == Without(pending, Uncommitted)
          IN {p \in DOMAIN q : Cardinality(q[p]) < Batch}

First(d, p) == p \in drain[d].batch /\ pending[p] \cap drain[d].batch = {}

At(d, at) == drain[d].at = at

Become(d, r) == drain' = [drain EXCEPT ![d] = r]

(* The first request is served when the startup drain has returned. *)
Leave(d) == Become(d, NoDrain) /\ serving' = (serving \/ d = Tick)

TickDrain ==
    /\ serving /\ At(Tick, "idle") /\ Become(Tick, [NoDrain EXCEPT !.at = "lock"])
    /\ UNCHANGED <<blob, ingestVars, pending, tx, lock, serving, faults>>

ReadBatch(d) ==
    /\ At(d, "lock") /\ lock = None
    /\ \/ /\ Oldest = {} /\ Leave(d) /\ UNCHANGED lock
       \/ /\ Oldest # {} /\ lock' = d /\ UNCHANGED serving
          /\ Become(d, [at |-> "delete", batch |-> Oldest, ok |-> {}])
    /\ UNCHANGED <<blob, ingestVars, pending, tx, faults>>

(* Deleting a blob that is gone already succeeds. *)
DeleteBlob(d, p) ==
    /\ At(d, "delete") /\ First(d, p) /\ p \notin Broken
    /\ blob' = blob \ {p}
    /\ Become(d, [drain[d] EXCEPT !.batch = @ \ {p}, !.ok = @ \cup {p}])
    /\ UNCHANGED <<ingestVars, pending, tx, lock, serving, faults>>

MutKept(d, p) == drain[d].ok \cup {p}
Kept(d, p) == drain[d].ok

(* The storage fails: the row stays with one more attempt. *)
DeleteFails(d, p) ==
    /\ At(d, "delete") /\ First(d, p)
    /\ Become(d, [drain[d] EXCEPT !.batch = @ \ {p}, !.ok = Kept(d, p)])
    /\ UNCHANGED <<blob, ingestVars, pending, tx, lock, serving, faults>>

CommitDrain(d) ==
    /\ At(d, "delete") /\ drain[d].batch = {}
    /\ pending' = Without(pending, drain[d].ok) /\ lock' = None
    /\ IF drain[d].ok = {} THEN Leave(d)
       ELSE Become(d, [NoDrain EXCEPT !.at = "lock"]) /\ UNCHANGED serving
    /\ UNCHANGED <<blob, ingestVars, tx, faults>>

(* The commit raises.  At startup that ends the process, which is started    *)
(* again; later the exception is logged.                                     *)
DrainRaises(d) ==
    /\ At(d, "delete") /\ drain[d].batch = {} /\ faults < MaxFaults
    /\ faults' = faults + 1 /\ lock' = None
    /\ Become(d, IF serving THEN NoDrain ELSE [NoDrain EXCEPT !.at = "lock"])
    /\ UNCHANGED <<blob, ingestVars, pending, tx, serving>>

(* The process dies and starts again. *)
Crash ==
    /\ faults < MaxFaults /\ faults' = faults + 1
    /\ ingest' = [p \in Path |-> IF ingest[p] = "saved" THEN "lost" ELSE ingest[p]]
    /\ pending' = Without(pending, Uncommitted)
    /\ tx' = [w \in Wipe |-> IF tx[w].at = "open" THEN [NoTx EXCEPT !.at = "done"] ELSE tx[w]]
    /\ drain' = [d \in Drainer |-> IF d = Tick THEN [NoDrain EXCEPT !.at = "lock"] ELSE NoDrain]
    /\ lock' = None /\ serving' = FALSE /\ UNCHANGED <<blob, row>>

-----------------------------------------------------------------------------
Next ==
    \/ \E p \in Path : Save(p) \/ CommitAudio(p) \/ LoseAudio(p)
    \/ \E w \in Wipe : \/ \E S \in SUBSET row : Open(w, S)
                       \/ \E p \in Path : HardDelete(w, p)
                       \/ Commit(w) \/ Rollback(w)
    \/ \E d \in Drainer : \/ ReadBatch(d) \/ CommitDrain(d) \/ DrainRaises(d)
                          \/ \E p \in Path : DeleteBlob(d, p) \/ DeleteFails(d, p)
    \/ TickDrain \/ Crash

Spec == Init /\ [][Next]_vars

(* The dispatcher's loop comes round again, a drain takes its steps and gets *)
(* the lock it waits for, and a blob that can be deleted is deleted by one   *)
(* of the tries.  Requests need not end.                                     *)
LiveSpec ==
    /\ Spec /\ WF_vars(TickDrain)
    /\ \A d \in Drainer : SF_vars(ReadBatch(d)) /\ WF_vars(CommitDrain(d))
                          /\ WF_vars(\E p \in Path : DeleteBlob(d, p) \/ DeleteFails(d, p))
    /\ \A p \in Path \ Broken : SF_vars(\E d \in Drainer : DeleteBlob(d, p))

-----------------------------------------------------------------------------
(* An audio that can be opened has its file: neither a deletion that is      *)
(* rolled back or dies with the process, nor a drain that runs beside it,    *)
(* takes the blob of a row that stays.                                       *)
BlobKept == row \subseteq blob

(* The file of every deleted audio is removed in the end, through crashes,   *)
(* failing deletes, failing commits and other files that cannot be removed.  *)
FilesRemoved == \A p \in Path \ Broken : ingest[p] = "stored" /\ p \notin row ~> p \notin blob
=============================================================================
