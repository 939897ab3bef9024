----------------------------- MODULE Provenance -----------------------------
(***************************************************************************)
(* Ingest verdicts and their review: ingest, verify_retrieved and the      *)
(* review queue of services/ingest_guard.py, ingest_batch of pipeline.py,  *)
(* and delete, over the provenance stores of sessions/.                    *)
(*                                                                         *)
(* In memory and in SQL an operation of the store is one step ("atomic").  *)
(* On Redis it is a sequence of commands on two kinds of keys, the hash of *)
(* a document and an index of documents for each decision, and commands of *)
(* several operations interleave; the timeout of ResilientBackend, or a    *)
(* failing store, may cut an operation between any two.  A content stands  *)
(* for its hash.                                                           *)
(***************************************************************************)
EXTENDS ContentScan

CONSTANTS
    Docs,           \* document ids
    Contents,       \* what may be ingested and retrieved under an id
    Text,           \* what the scans find in each
    None,           \* an absent field of a hash
    Processes,      \* concurrent tasks
    Stores,         \* the stores considered: "atomic", "redis"
    RecordRejected, \* ingest(record_rejected=...)
    Shadow,         \* ingest(shadow=...)
    MaxOps          \* bound: operations each process begins

Decisions == {"accept", "quarantine", "reject"}

Tiers == DOMAIN RejectAt

Operations == {"ingest", "delete", "list", "decide"}

ASSUME ProvenanceAssumption ==
    /\ Docs # {} /\ IsFiniteSet(Processes)
    /\ None \notin Contents /\ None \notin Decisions
    /\ Stores \subseteq {"atomic", "redis"}
    /\ RecordRejected \in BOOLEAN /\ Shadow \in BOOLEAN
    /\ MaxOps \in Nat

VARIABLES
    store,     \* which of Stores: fixed
    hashes,    \* the record of each document
    index,     \* Redis: the documents indexed under each decision
    calls,     \* the operation of each process and how far it has come
    begun,     \* operations begun, per process
    pending,   \* verdicts whose callers wait for them to be recorded
    told,      \* history: verdicts returned, and no operation on the document since
    seen,      \* what each process, a reviewer, has read in the review queue
    verified,  \* history: the last document and content answered "verified"
    allowed,   \* history: contents an ingest or a reviewer accepted
    disturbed  \* history: see Disturbs

callVars == <<calls, pending, told>>

vars == <<store, hashes, index, callVars, begun, seen, verified, allowed, disturbed>>

Version == Docs \X Contents

(* A hash may hold a decision and no content.                              *)
NoHash == [content |-> None, decision |-> None]

Idle == [op |-> "idle"]

(* next: the command the operation sends next; old: the decision it read;  *)
(* todo: documents a listing has still to read.                            *)
Running == [op : Operations, next : {"hget", "hset", "zrem", "zadd", "del", "zrange", "all"},
            doc : Docs, content : Contents \cup {None}, decision : Decisions \cup {None},
            old : Decisions \cup {None}, todo : SUBSET Docs]

Init ==
    /\ store \in Stores
    /\ hashes = [d \in Docs |-> NoHash]
    /\ index = [x \in Decisions |-> {}]
    /\ calls = [p \in Processes |-> Idle]
    /\ begun = [p \in Processes |-> 0]
    /\ pending = {} /\ told = {}
    /\ seen = [p \in Processes |-> {}]
    /\ verified = <<>> /\ allowed = {} /\ disturbed = {}

----------------------------------------------------------------------------
(* Beginning an operation                                                  *)

(* History: the documents an operation meets another on, unless both are   *)
(* ingests.  A listing meets whatever is under way.                        *)
Disturbs(op, d) ==
    {e \in Docs : \E p \in Processes :
        /\ calls[p] # Idle
        /\ op = "list" \/ e = d
        /\ calls[p].op = "list" \/ calls[p].doc = e
        /\ {op, calls[p].op} # {"ingest"}}

(* Documents an operation that writes is under way on.                     *)
Busy == {calls[p].doc : p \in {q \in Processes : calls[q] # Idle /\ calls[q].op # "list"}}

(* History: what a new operation on these documents ends.                  *)
Forget(docs) == told' = {v \in told : v.doc \notin docs}

Alone(verdicts, docs) == {v \in verdicts : v.doc \notin docs}

(* Each of tasks, a set of idle processes, begins op on load[p].           *)
Starting(tasks, op, load) ==
    /\ \A p \in tasks : calls[p] = Idle /\ begun[p] < MaxOps
    /\ begun' = [p \in Processes |-> begun[p] + (IF p \in tasks THEN 1 ELSE 0)]
    /\ calls' = [p \in Processes |->
          IF p \notin tasks THEN calls[p] ELSE
          [op |-> op, doc |-> load[p].doc, content |-> load[p].content,
           decision |-> load[p].decision, old |-> None, todo |-> {},
           next |-> IF store = "atomic" THEN "all" ELSE IF op = "list" THEN "zrange" ELSE "hget"]]
    /\ disturbed' = disturbed \cup UNION {Disturbs(op, load[p].doc) : p \in tasks}
    /\ UNCHANGED <<hashes, index, seen, verified, allowed>>

Load(d, c, x) == [doc |-> d, content |-> c, decision |-> x]

(* The caller returns once every task has; what it was told is kept as     *)
(* long as no other operation is, or begins, on the document.              *)
Recording(tasks, load) ==
    LET docs    == {load[p].doc : p \in tasks}
        twice   == {d \in docs : Cardinality({p \in tasks : load[p].doc = d}) > 1}
        waiting == [tasks |-> tasks,
                    verdicts |-> Alone({load[p] : p \in tasks}, Busy \cup twice \cup disturbed)]
    IN  /\ Starting(tasks, "ingest", load)
        /\ pending' = {waiting} \cup {[w EXCEPT !.verdicts = Alone(@, docs)] : w \in pending}
        /\ Forget(docs)

Operating(p, op, d, x) ==
    /\ Starting({p}, op, [q \in {p} |-> Load(d, None, x)])
    /\ pending' = {[w EXCEPT !.verdicts = Alone(@, {d})] : w \in pending}
    /\ Forget({d})

(* The verdict as it is recorded: shadow mode accepts everything.          *)
Recorded ==
    [c \in Contents |-> [trust \in Tiers |->
        IF Shadow THEN "accept" ELSE Evaluate(Text[c], trust)]]

BeginIngest(p, d, c, trust) ==
    LET decision == Recorded[c][trust] IN
    /\ decision # "reject" \/ RecordRejected
    /\ Recording({p}, [q \in {p} |-> Load(d, c, decision)])

(* ingest_batch: everything is evaluated first, under one tier; then all   *)
(* verdicts are recorded at once, rejections too, each by a task, with     *)
(* none of the failure policy that ingest has.                             *)
BeginBatch(tasks, docs, contents, trust) ==
    Recording(tasks, [p \in tasks |-> Load(docs[p], contents[p], Recorded[contents[p]][trust])])

BeginDelete(p, d) == Operating(p, "delete", d, None)

BeginReviewQueue(p) ==
    /\ Starting({p}, "list", [q \in {p} |-> Load(CHOOSE d \in Docs : TRUE, None, "quarantine")])
    /\ UNCHANGED <<pending, told>>

(* approve and reject: of a document the reviewer found in the queue.      *)
BeginDecide(p, d, x) ==
    /\ \E c \in Contents : <<d, c>> \in seen[p]
    /\ Operating(p, "decide", d, x)

----------------------------------------------------------------------------
(* What an operation does to the records, and the history it makes.  Every *)
(* operation writes the hash of its document in one command.               *)

Allows(p, d, c) ==
    allowed' = IF c # None /\ calls[p].decision = "accept" THEN allowed \cup {<<d, c>>}
                                                          ELSE allowed

(* record replaces every field, set_decision one.                          *)
Write(p) ==
    LET call == calls[p]
        d    == call.doc
        hash == IF call.op = "ingest"
                THEN [content |-> call.content, decision |-> call.decision]
                ELSE [hashes[d] EXCEPT !.decision = call.decision]
    IN  /\ hashes' = [hashes EXCEPT ![d] = hash]
        /\ Allows(p, d, hash.content)

Goto(p, command) ==
    /\ calls' = [calls EXCEPT ![p].next = command]
    /\ UNCHANGED <<pending, told>>

(* Mutant: the caller does not wait for the other tasks.                   *)
Remaining_First(w, p) == IF p \in w.tasks THEN {} ELSE w.tasks

Remaining(w, p) == w.tasks \ {p}

(* The caller of p's task, if it was the last, has its answer.             *)
Return(p) ==
    LET over == {w \in pending : Remaining(w, p) = {}} IN
    /\ calls' = [calls EXCEPT ![p] = Idle]
    /\ pending' = {[w EXCEPT !.tasks = Remaining(w, p)] : w \in pending \ over}
    /\ told' = told \cup UNION {w.verdicts : w \in over}

----------------------------------------------------------------------------
(* The atomic stores                                                       *)

(* Mutant: an upsert, where a decision about no record is refused.         *)
Found_Upsert(d) == TRUE

Found(d) == hashes[d] # NoHash

AtomicStep(p) ==
    LET call == calls[p]
        d    == call.doc
    IN  /\ call # Idle /\ call.next = "all"
        /\ \/ /\ call.op = "ingest"
              /\ Write(p) /\ UNCHANGED seen
           \/ /\ call.op = "decide" /\ Found(d)
              /\ Write(p) /\ UNCHANGED seen
           \/ /\ call.op = "decide" /\ ~Found(d)
              /\ UNCHANGED <<hashes, seen, allowed>>
           \/ /\ call.op = "delete"
              /\ hashes' = [hashes EXCEPT ![d] = NoHash]
              /\ UNCHANGED <<seen, allowed>>
           \/ /\ call.op = "list"
              /\ seen' = [seen EXCEPT ![p] = {v \in Version :
                    hashes[v[1]] = [content |-> v[2], decision |-> "quarantine"]}]
              /\ UNCHANGED <<hashes, allowed>>
        /\ Return(p)
        /\ UNCHANGED <<index, begun, verified, disturbed>>

----------------------------------------------------------------------------
(* The Redis store, one command at a time                                  *)

(* The decision, or for set_decision the whole record, is read first.      *)
ReadOld(p) ==
    LET call == calls[p]
        old  == hashes[call.doc].decision
        proceed(command) ==
            /\ calls' = [calls EXCEPT ![p] = [@ EXCEPT !.old = old, !.next = command]]
            /\ UNCHANGED <<pending, told>>
    IN  /\ call # Idle /\ call.next = "hget" /\ call.op # "list"
        /\ \/ call.op = "ingest" /\ old \in {None, call.decision} /\ proceed("hset")
           \/ call.op = "ingest" /\ old \notin {None, call.decision} /\ proceed("zrem")
           \/ call.op = "decide" /\ hashes[call.doc].content # None /\ proceed("hset")
           \/ call.op = "decide" /\ hashes[call.doc].content = None /\ Return(p)
           \/ call.op = "delete" /\ proceed("del")
        /\ UNCHANGED <<hashes, index, begun, seen, verified, allowed, disturbed>>

SetHash(p) ==
    /\ calls[p] # Idle /\ calls[p].next = "hset"
    /\ Write(p)
    /\ Goto(p, IF calls[p].op = "ingest" THEN "zadd" ELSE "zrem")
    /\ UNCHANGED <<index, begun, seen, verified, disturbed>>

DeleteHash(p) ==
    LET call == calls[p] IN
    /\ call # Idle /\ call.next = "del"
    /\ hashes' = [hashes EXCEPT ![call.doc] = NoHash]
    /\ \/ call.old = None /\ Return(p)
       \/ call.old # None /\ Goto(p, "zrem")
    /\ UNCHANGED <<index, begun, seen, verified, allowed, disturbed>>

RemoveFromIndex(p) ==
    LET call == calls[p] IN
    /\ call # Idle /\ call.next = "zrem" /\ call.op # "list"
    /\ index' = [index EXCEPT ![call.old] = @ \ {call.doc}]
    /\ \/ call.op = "ingest" /\ Goto(p, "hset")
       \/ call.op = "decide" /\ Goto(p, "zadd")
       \/ call.op = "delete" /\ Return(p)
    /\ UNCHANGED <<hashes, begun, seen, verified, allowed, disturbed>>

(* Mutant: only a document that is new is added.                           *)
AddToIndex_Old(p) ==
    LET call == calls[p] IN
    /\ call # Idle /\ call.next = "zadd"
    /\ index' = [index EXCEPT ![call.decision] =
          IF call.old # None THEN @ ELSE @ \cup {call.doc}]
    /\ Return(p)
    /\ UNCHANGED <<hashes, begun, seen, verified, allowed, disturbed>>

AddToIndex(p) ==
    LET call == calls[p] IN
    /\ call # Idle /\ call.next = "zadd"
    /\ index' = [index EXCEPT ![call.decision] = @ \cup {call.doc}]
    /\ Return(p)
    /\ UNCHANGED <<hashes, begun, seen, verified, allowed, disturbed>>

(* list_by_decision: the index, then each document in it; a document that  *)
(* is gone, or has another decision, is taken out of the index.            *)
Continue(p, todo) ==
    IF todo = {} THEN Return(p)
    ELSE /\ \E d \in todo : calls' = [calls EXCEPT ![p] =
                [@ EXCEPT !.next = "hget", !.doc = d, !.todo = todo \ {d}]]
         /\ UNCHANGED <<pending, told>>

ReadIndex(p) ==
    /\ calls[p] # Idle /\ calls[p].next = "zrange"
    /\ seen' = [seen EXCEPT ![p] = {}]
    /\ Continue(p, index[calls[p].decision])
    /\ UNCHANGED <<hashes, index, begun, verified, allowed, disturbed>>

ReadListed(p) ==
    LET call == calls[p]
        hash == hashes[call.doc]
    IN  /\ call # Idle /\ call.op = "list" /\ call.next = "hget"
        /\ \/ /\ hash.content # None /\ hash.decision = call.decision
              /\ seen' = [seen EXCEPT ![p] = @ \cup {<<call.doc, hash.content>>}]
              /\ Continue(p, call.todo)
           \/ /\ hash = NoHash \/ (hash.content # None /\ hash.decision # call.decision)
              /\ Goto(p, "zrem") /\ UNCHANGED seen
           \/ /\ hash # NoHash /\ hash.content = None   \* KeyError: the listing fails
              /\ Return(p) /\ UNCHANGED seen
        /\ UNCHANGED <<hashes, index, begun, verified, allowed, disturbed>>

RemoveGhost(p) ==
    LET call == calls[p] IN
    /\ call # Idle /\ call.op = "list" /\ call.next = "zrem"
    /\ index' = [index EXCEPT ![call.decision] = @ \ {call.doc}]
    /\ Continue(p, call.todo)
    /\ UNCHANGED <<hashes, begun, seen, verified, allowed, disturbed>>

(* wait_for gives up, or the store raises, or the process stops: the       *)
(* caller has an error.  The other tasks of a batch are not cancelled.     *)
Cut(p) ==
    LET call == calls[p] IN
    /\ call # Idle
    /\ calls' = [calls EXCEPT ![p] = Idle]
    /\ pending' = {w \in pending : p \notin w.tasks}
    /\ disturbed' = disturbed \cup (IF call.op = "list" THEN {} ELSE {call.doc})
    /\ UNCHANGED <<hashes, index, told, begun, seen, verified, allowed>>

----------------------------------------------------------------------------
(* verify_retrieved reads one record and decides from it.  Only "verified" *)
(* is kept; every other answer is a refusal, or an error, or, where an     *)
(* open policy takes unverifiable for verified, says so.                   *)
(* Mutant: the recorded decision trusted whatever was retrieved.           *)
VerifyRetrieved_AnyContent(d, c) ==
    /\ hashes[d].decision = "accept"
    /\ verified' = <<d, c>>
    /\ UNCHANGED <<hashes, index, callVars, begun, seen, allowed, disturbed>>

VerifyRetrieved(d, c) ==
    /\ hashes[d] = [content |-> c, decision |-> "accept"]
    /\ verified' = <<d, c>>
    /\ UNCHANGED <<hashes, index, callVars, begun, seen, allowed, disturbed>>

Next ==
    /\ \/ \E p \in Processes :
             \/ \E d \in Docs : \/ \E c \in Contents, trust \in Tiers : BeginIngest(p, d, c, trust)
                                \/ \E x \in {"accept", "reject"} : BeginDecide(p, d, x)
                                \/ BeginDelete(p, d)
             \/ BeginReviewQueue(p)
             \/ AtomicStep(p)
             \/ ReadOld(p) \/ SetHash(p) \/ DeleteHash(p) \/ RemoveFromIndex(p) \/ AddToIndex(p)
             \/ ReadIndex(p) \/ ReadListed(p) \/ RemoveGhost(p)
             \/ Cut(p)
       \/ \E tasks \in (SUBSET Processes) \ {{}}, trust \in Tiers :
             \E docs \in [tasks -> Docs], contents \in [tasks -> Contents] :
                BeginBatch(tasks, docs, contents, trust)
       \/ \E d \in Docs, c \in Contents : VerifyRetrieved(d, c)
    /\ UNCHANGED store

Spec == Init /\ [][Next]_vars

----------------------------------------------------------------------------
(* However ingests, reviews and deletions of a document interleave, and    *)
(* wherever they are cut, a retrieved content is verified only if the      *)
(* thresholds accepted that content under that id, or an approval was      *)
(* written over its record.                                                *)
VerifiedWasAllowed == verified # <<>> => verified \in allowed

Quiet(d) == \A p \in Processes : calls[p] # Idle => calls[p].doc # d /\ d \notin calls[p].todo

(* The review queue is kept in step, whatever ingests race each other:     *)
(* once nothing is under way on a document, it is listed under the         *)
(* decision its record holds, unless something other than an ingest met an *)
(* operation on it, or one was cut.                                        *)
QueueIsComplete ==
    \A d \in Docs : store = "redis" /\ Quiet(d) /\ hashes[d].content # None =>
        d \in index[hashes[d].decision] \/ d \in disturbed

(* A verdict its caller was told is the one retrieval is judged by: until  *)
(* another operation on the document begins, its record holds that content *)
(* and that decision, whatever else of the batch succeeded, and whatever   *)
(* an earlier batch that failed still had to write.                        *)
ToldIsRecorded ==
    \A v \in told : hashes[v.doc] = [content |-> v.content, decision |-> v.decision]

(* A document has a whole record or none, unless on Redis operations other *)
(* than ingests met on it, or one was cut.                                 *)
RecordsAreWhole ==
    \A d \in Docs : hashes[d].content = None =>
        hashes[d] = NoHash \/ (store = "redis" /\ d \in disturbed)
=============================================================================
