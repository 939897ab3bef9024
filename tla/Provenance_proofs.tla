-------------------------- MODULE Provenance_proofs --------------------------
(* What TLC checks of Provenance on small instances, proved for every      *)
(* value of its constants: any documents, contents, thresholds and number  *)
(* of tasks, over the atomic stores and over Redis.                        *)
EXTENDS Provenance, FiniteSetTheorems, TLAPS

HashType == [content : Contents \cup {None}, decision : Decisions \cup {None}]

Verdicts == [doc : Docs, content : Contents, decision : Decisions]

Waiting == [tasks : SUBSET Processes, verdicts : SUBSET Verdicts]

(* A task that writes, or will, is under way on a document.                *)
On(p, d) == calls[p] # Idle /\ calls[p].op # "list" /\ calls[p].doc = d

TypeInv ==
    /\ store \in {"atomic", "redis"}
    /\ hashes \in [Docs -> HashType]
    /\ \A d \in Docs : hashes[d].content # None => hashes[d].decision # None
    /\ index \in [Decisions -> SUBSET Docs]
    /\ calls \in [Processes -> Running \cup {Idle}]
    /\ pending \subseteq Waiting /\ told \subseteq Verdicts
    /\ disturbed \subseteq Docs

(* The commands an operation sends, in any order.                          *)
Commands == [ingest |-> {"hget", "zrem", "hset", "zadd"},
             decide |-> {"hget", "hset", "zrem", "zadd"},
             delete |-> {"hget", "del", "zrem"},
             list   |-> {"zrange", "hget", "zrem"}]

CallOK(kind, r) ==
    r # Idle =>
        /\ r \in Running
        /\ r.next \in IF kind = "atomic" THEN {"all"} ELSE Commands[r.op]
        /\ r.op = "ingest" => r.content # None
        /\ r.op # "delete" => r.decision # None
        /\ r.op # "list" /\ r.next = "zrem" => r.old # None
        /\ r.op = "decide" /\ r.next = "hset" => r.old # None

CallsInv == \A p \in Processes : CallOK(store, calls[p])

(* Whom an operation has met, unless both were ingests.                    *)
MeetInv ==
    \A p, q \in Processes : p # q /\ calls[p] # Idle /\ calls[q] # Idle =>
        \/ calls[p].op = "list"
        \/ calls[p].doc \in disturbed
        \/ calls[q].op # "list" /\ calls[q].doc # calls[p].doc
        \/ calls[p].op = "ingest" /\ calls[q].op = "ingest"

(* What is allowed: the contents of accepted records.                      *)
AllowedInv ==
    /\ \A d \in Docs : hashes[d].content # None /\ hashes[d].decision = "accept" =>
          <<d, hashes[d].content>> \in allowed
    /\ verified # <<>> => verified \in allowed

(* A decision is written over a record that is still there.                *)
WholeInv ==
    /\ \A d \in Docs : store = "atomic" \/ d \notin disturbed =>
          (hashes[d].content = None => hashes[d] = NoHash)
    /\ \A p \in Processes : calls[p] # Idle /\ calls[p].op = "decide" /\ calls[p].next = "hset" =>
          hashes[calls[p].doc].content # None \/ calls[p].doc \in disturbed

(* A document that is not in the index of its decision will be: its record *)
(* is about to be replaced, or its new decision to be indexed.             *)
Indexing(p, d) ==
    /\ On(p, d)
    /\ \/ calls[p].op = "ingest" /\ calls[p].next = "hset"
       \/ /\ calls[p].decision = hashes[d].decision
          /\ calls[p].next = "zadd" \/ (calls[p].op = "decide" /\ calls[p].next = "zrem")

Queued(d) ==
    \/ d \in disturbed \/ hashes[d].content = None
    \/ d \in index[hashes[d].decision]
    \/ \E p \in Processes : Indexing(p, d)

(* What an operation knows of a document it takes out of an index.         *)
Removable(r) ==
    r # Idle /\ r.next = "zrem" /\ r.doc \notin disturbed =>
        /\ r.op = "delete" => hashes[r.doc].content = None
        /\ r.op = "decide" => hashes[r.doc].decision = r.decision
        /\ r.op = "list" => \/ hashes[r.doc].content = None
                            \/ hashes[r.doc].decision # r.decision

QueueInv ==
    store = "redis" => /\ \A d \in Docs : Queued(d)
                       /\ \A p \in Processes : Removable(calls[p])

Holds(v) == hashes[v.doc] = [content |-> v.content, decision |-> v.decision]

(* A verdict is recorded, and nobody is under way on its document.         *)
Stands(v) == Holds(v) /\ \A p \in Processes : ~On(p, v.doc)

(* A caller's verdict is recorded, or will be, by those who are under way  *)
(* on its document: all of them are tasks of that caller.                  *)
Pends(w) ==
    /\ w.tasks # {}
    /\ \A p \in w.tasks : p \in Processes /\ calls[p] # Idle /\ calls[p].op = "ingest"
    /\ \A v \in w.verdicts :
        /\ \A p \in Processes : On(p, v.doc) =>
              /\ p \in w.tasks
              /\ calls[p].content = v.content /\ calls[p].decision = v.decision
        /\ Holds(v) \/ \E p \in w.tasks : On(p, v.doc) /\ calls[p].next # "zadd"

ToldInv == (\A v \in told : Stands(v)) /\ (\A w \in pending : Pends(w))

ProvenanceInv ==
    /\ TypeInv /\ CallsInv
    /\ MeetInv /\ AllowedInv /\ WholeInv /\ QueueInv /\ ToldInv
----------------------------------------------------------------------------
(* An operation under way has all its fields.                              *)
LEMMA IdleIsNotRunning == Idle \notin Running
BY DEF Idle, Running, Operations

(* The fields of an operation under way.                                   *)
LEMMA RunningFields ==
    ASSUME NEW r \in Running
    PROVE  /\ r \in Running /\ r # Idle
           /\ r.op \in Operations /\ r.doc \in Docs
           /\ r.next \in {"hget", "hset", "zrem", "zadd", "del", "zrange", "all"}
           /\ r.content \in Contents \cup {None} /\ r.decision \in Decisions \cup {None}
           /\ r.old \in Decisions \cup {None} /\ r.todo \in SUBSET Docs
BY IdleIsNotRunning DEF Running

(* A step of an operation: the same, but for its next command.             *)
Steps(r, q) ==
    /\ r \in Running /\ q \in Running
    /\ q.op = r.op /\ q.content = r.content /\ q.decision = r.decision
    /\ r.op # "list" => q.doc = r.doc

(* Going to another command, the rest of the operation stays.              *)
LEMMA GotoSteps ==
    ASSUME NEW r \in Running,
           NEW command \in {"hget", "hset", "zrem", "zadd", "del", "zrange", "all"}
    PROVE  LET q == [r EXCEPT !.next = command]
           IN  /\ Steps(r, q) /\ q.next = command /\ q.doc = r.doc /\ q.old = r.old
BY DEF Steps, Running

(* Going on to another document of a listing.                              *)
LEMMA ListSteps ==
    ASSUME NEW r \in Running, r.op = "list", NEW d \in Docs, NEW todo \in SUBSET Docs
    PROVE  LET q == [r EXCEPT !.next = "hget", !.doc = d, !.todo = todo]
           IN  Steps(r, q) /\ q.next = "hget"
<1> DEFINE q == [r EXCEPT !.next = "hget", !.doc = d, !.todo = todo]
<1>1. PICK s : s = [r EXCEPT !.next = "hget"]
  OBVIOUS
<1>2. PICK t : t = [s EXCEPT !.doc = d]
  OBVIOUS
<1>3. q = [t EXCEPT !.todo = todo]
  BY <1>1, <1>2, Zenon
<1>4. s \in Running /\ s.op = r.op /\ s.content = r.content /\ s.decision = r.decision
      /\ s.next = "hget"
  BY <1>1 DEF Running
<1>5. t \in Running /\ t.op = r.op /\ t.content = r.content /\ t.decision = r.decision
      /\ t.next = "hget"
  BY <1>2, <1>4 DEF Running
<1>6. q \in Running /\ q.op = r.op /\ q.content = r.content /\ q.decision = r.decision
      /\ q.next = "hget"
  BY <1>3, <1>5 DEF Running
<1> HIDE DEF q
<1>7. Steps(r, q) /\ q.next = "hget"
  BY <1>6 DEF Steps
<1> QED BY <1>7 DEF q
----------------------------------------------------------------------------
(* What a step of an operation does to the records.                        *)
KeepsHashes == UNCHANGED <<hashes, allowed>>

WritesHash(p) ==
    /\ calls[p].op \in {"ingest", "decide"}
    /\ calls[p].op = "decide" =>
          hashes[calls[p].doc].content # None \/ (store = "redis" /\ calls[p].doc \in disturbed)
    /\ Write(p)

DeletesHash(p) ==
    /\ calls[p].op = "delete"
    /\ hashes' = [hashes EXCEPT ![calls[p].doc] = NoHash]
    /\ UNCHANGED allowed

(* ... to the operation, which goes on as q or is over, and to its caller; *)
(* an ingest is over, or indexes, once it has written.                     *)
Does(p, q) ==
    /\ calls[p] # Idle
    /\ calls' = [calls EXCEPT ![p] = q]
    /\ q # Idle => Steps(calls[p], q)
    /\ CallOK(store, q)
    /\ \/ q # Idle /\ UNCHANGED <<pending, told>>
       \/ q = Idle /\ Return(p)
    /\ KeepsHashes \/ WritesHash(p) \/ DeletesHash(p)
    /\ calls[p].op = "ingest" =>
          \/ WritesHash(p) /\ (q # Idle => q.next = "zadd")
          \/ KeepsHashes /\ q = Idle /\ calls[p].next = "zadd"
          \/ KeepsHashes /\ q # Idle /\ q.next # "zadd"
    /\ index' \in [Decisions -> SUBSET Docs]
    /\ UNCHANGED <<store, disturbed, verified>>

(* The operations under way after a step.                                  *)
LEMMA CallsAfter ==
    ASSUME ProvenanceInv, NEW p \in Processes, NEW q, Does(p, q)
    PROVE  /\ calls' \in [Processes -> Running \cup {Idle}]
           /\ calls'[p] = q
           /\ calls[p] \in Running
           /\ \A r \in Processes : r # p => calls'[r] = calls[r]
BY RunningFields DEF ProvenanceInv, TypeInv, Does, Steps

(* What a command that writes a hash leaves in it: a decision, and a       *)
(* content that the decision is about.                                     *)
LEMMA WriteHashes ==
    ASSUME ProvenanceInv, NEW p \in Processes, calls[p] \in Running, WritesHash(p)
    PROVE  \E hash \in HashType :
              /\ hashes' = [hashes EXCEPT ![calls[p].doc] = hash]
              /\ hashes'[calls[p].doc] = hash
              /\ \A d \in Docs : d # calls[p].doc => hashes'[d] = hashes[d]
              /\ hash.decision = calls[p].decision /\ hash.decision # None
              /\ Allows(p, calls[p].doc, hash.content)
              /\ calls[p].op = "ingest" => hash.content = calls[p].content /\ hash.content # None
                    /\ hash = [content |-> calls[p].content, decision |-> calls[p].decision]
              /\ calls[p].op = "decide" => hash.content = hashes[calls[p].doc].content
<1> DEFINE call == calls[p]
           d    == call.doc
<1>1. /\ d \in Docs /\ hashes[d] \in HashType /\ call.op \in {"ingest", "decide"}
      /\ call.content \in Contents \cup {None} /\ call.decision \in Decisions \cup {None}
      /\ call.decision # None /\ (call.op = "ingest" => call.content # None)
      /\ hashes \in [Docs -> HashType]
  BY RunningFields DEF ProvenanceInv, TypeInv, CallsInv, CallOK, WritesHash
<1>2. PICK hash : hash = IF call.op = "ingest"
                         THEN [content |-> call.content, decision |-> call.decision]
                         ELSE [hashes[d] EXCEPT !.decision = call.decision]
  OBVIOUS
<1>3. hashes' = [hashes EXCEPT ![d] = hash] /\ Allows(p, d, hash.content)
  BY <1>2, Zenon DEF WritesHash, Write
<1>4. CASE call.op = "ingest"
  <2>1. hash = [content |-> call.content, decision |-> call.decision]
    BY <1>2, <1>4
  <2>2. hash \in HashType /\ hash.content = call.content /\ hash.decision = call.decision
    BY <1>1, <2>1 DEF HashType
  <2> QED BY <1>1, <1>3, <1>4, <2>1, <2>2
<1>5. CASE call.op = "decide"
  <2>1. hash = [hashes[d] EXCEPT !.decision = call.decision]
    BY <1>2, <1>5
  <2>2. hash \in HashType /\ hash.content = hashes[d].content /\ hash.decision = call.decision
    BY <1>1, <2>1 DEF HashType
  <2> QED BY <1>1, <1>3, <1>5, <2>2
<1> QED BY <1>1, <1>4, <1>5

(* A deletion leaves nothing of its document, and the others alone.        *)
LEMMA DeleteHashes ==
    ASSUME ProvenanceInv, NEW p \in Processes, calls[p] \in Running, DeletesHash(p)
    PROVE  /\ hashes' \in [Docs -> HashType]
           /\ hashes'[calls[p].doc] = NoHash
           /\ \A d \in Docs : d # calls[p].doc => hashes'[d] = hashes[d]
BY RunningFields DEF ProvenanceInv, TypeInv, DeletesHash, HashType, NoHash

(* What a return leaves pending, and tells, is of its type.                *)
LEMMA ReturnTypes ==
    ASSUME ProvenanceInv, NEW p \in Processes, Return(p)
    PROVE  pending' \subseteq Waiting /\ told' \subseteq Verdicts
<1> DEFINE over == {w \in pending : Remaining(w, p) = {}}
           rest == {[w EXCEPT !.tasks = Remaining(w, p)] : w \in pending \ over}
<1>1. \A w \in Waiting : [w EXCEPT !.tasks = Remaining(w, p)] \in Waiting
  BY DEF Waiting, Remaining
<1>2. pending \subseteq Waiting /\ told \subseteq Verdicts
  BY DEF ProvenanceInv, TypeInv
<1>3. rest \subseteq Waiting
  BY <1>1, <1>2
<1>4. UNION {w.verdicts : w \in over} \subseteq Verdicts
  BY <1>2 DEF Waiting
<1>5. pending' = rest /\ told' = told \cup UNION {w.verdicts : w \in over}
  BY Zenon DEF Return
<1> QED BY <1>2, <1>3, <1>4, <1>5, Zenon

(* A step of an operation keeps the types, and the operations in order.    *)
LEMMA TypesAfter ==
    ASSUME ProvenanceInv, NEW p \in Processes, NEW q, Does(p, q)
    PROVE  TypeInv' /\ CallsInv'
<1>1. /\ calls' \in [Processes -> Running \cup {Idle}] /\ calls'[p] = q /\ calls[p] \in Running
      /\ \A r \in Processes : r # p => calls'[r] = calls[r]
  BY CallsAfter
<1>2. /\ hashes' \in [Docs -> HashType]
      /\ \A d \in Docs : hashes'[d].content # None => hashes'[d].decision # None
  <2>1. CASE KeepsHashes
    BY <2>1 DEF KeepsHashes, ProvenanceInv, TypeInv
  <2>2. CASE WritesHash(p)
    BY <1>1, <2>2, WriteHashes DEF ProvenanceInv, TypeInv
  <2>3. CASE DeletesHash(p)
    BY <1>1, <2>3, DeleteHashes DEF ProvenanceInv, TypeInv, NoHash
  <2> QED BY <2>1, <2>2, <2>3 DEF Does
<1>5. pending' \subseteq Waiting /\ told' \subseteq Verdicts
  BY ReturnTypes DEF Does, ProvenanceInv, TypeInv
<1>3. TypeInv'
  BY <1>1, <1>2, <1>5 DEF Does, ProvenanceInv, TypeInv
<1>4. CallsInv'
  BY <1>1 DEF Does, ProvenanceInv, CallsInv
<1> QED BY <1>3, <1>4

(* ... and marks every document on which operations met.                   *)
LEMMA MeetAfter ==
    ASSUME ProvenanceInv, NEW p \in Processes, NEW q, Does(p, q)
    PROVE  MeetInv'
<1>1. /\ calls'[p] = q /\ \A r \in Processes : r # p => calls'[r] = calls[r]
  BY CallsAfter
<1>2. q # Idle => q.op = calls[p].op /\ (q.op # "list" => q.doc = calls[p].doc)
  BY DEF Does, Steps
<1> QED BY <1>1, <1>2 DEF MeetInv, ProvenanceInv, Does

(* ... and records only what was allowed.                                  *)
LEMMA AllowedAfter ==
    ASSUME ProvenanceInv, NEW p \in Processes, NEW q, Does(p, q)
    PROVE  AllowedInv'
<1>1. calls[p] \in Running /\ UNCHANGED verified
  BY CallsAfter DEF Does
<1>2. CASE KeepsHashes
  BY <1>1, <1>2 DEF KeepsHashes, ProvenanceInv, AllowedInv
<1>3. CASE WritesHash(p)
  BY <1>1, <1>3, WriteHashes DEF ProvenanceInv, AllowedInv, Allows
<1>4. CASE DeletesHash(p)
  BY <1>1, <1>4, DeleteHashes DEF ProvenanceInv, AllowedInv, NoHash, DeletesHash
<1> QED BY <1>2, <1>3, <1>4 DEF Does

(* ... and leaves records whole, if a decision about to be written has a   *)
(* record to go to.                                                        *)
LEMMA WholeAfter ==
    ASSUME ProvenanceInv, NEW p \in Processes, NEW q, Does(p, q),
           q # Idle /\ q.op = "decide" /\ q.next = "hset" =>
              hashes'[q.doc].content # None \/ q.doc \in disturbed
    PROVE  WholeInv'
<1>1. /\ calls'[p] = q /\ calls[p] \in Running /\ calls[p] # Idle
      /\ \A r \in Processes : r # p => calls'[r] = calls[r]
      /\ UNCHANGED <<store, disturbed>> /\ calls \in [Processes -> Running \cup {Idle}]
      /\ store \in {"atomic", "redis"}
  BY CallsAfter DEF Does, ProvenanceInv, TypeInv
<1>2. /\ \A d \in Docs : store = "atomic" \/ d \notin disturbed =>
            (hashes'[d].content = None => hashes'[d] = NoHash)
      /\ \A d \in Docs : hashes[d].content # None /\ hashes'[d].content = None =>
            calls[p].op = "delete" /\ calls[p].doc = d
  <2>1. CASE KeepsHashes
    BY <2>1 DEF KeepsHashes, ProvenanceInv, WholeInv
  <2>2. CASE WritesHash(p)
    BY <1>1, <2>2, WriteHashes DEF ProvenanceInv, WholeInv, WritesHash
  <2>3. CASE DeletesHash(p)
    BY <1>1, <2>3, DeleteHashes DEF ProvenanceInv, WholeInv, DeletesHash
  <2> QED BY <2>1, <2>2, <2>3 DEF Does
<1>3. ASSUME NEW r \in Processes, calls'[r] # Idle, calls'[r].op = "decide",
             calls'[r].next = "hset"
      PROVE  hashes'[calls'[r].doc].content # None \/ calls'[r].doc \in disturbed
  <2>1. CASE r = p
    BY <1>1, <1>3, <2>1
  <2>2. CASE r # p
    <3>1. calls'[r] = calls[r] /\ calls[r] \in Running /\ calls[r].doc \in Docs
      BY <1>1, <1>3, <2>2, RunningFields
    <3>2. hashes[calls[r].doc].content # None \/ calls[r].doc \in disturbed
      BY <1>3, <3>1 DEF ProvenanceInv, WholeInv
    <3>3. calls[p].op = "delete" /\ calls[p].doc = calls[r].doc => calls[r].doc \in disturbed
      BY <1>1, <1>3, <2>2, <3>1 DEF ProvenanceInv, MeetInv
    <3> QED BY <1>2, <3>1, <3>2, <3>3
  <2> QED BY <2>1, <2>2
<1> QED BY <1>1, <1>2, <1>3 DEF WholeInv

(* Whoever changes the record of a document is on it.                      *)
LEMMA OthersKeepRecord ==
    ASSUME ProvenanceInv, NEW p \in Processes, NEW q, Does(p, q),
           NEW d \in Docs, ~On(p, d)
    PROVE  hashes'[d] = hashes[d]
<1>1. calls[p] \in Running /\ calls[p] # Idle /\ (KeepsHashes \/ WritesHash(p) \/ DeletesHash(p))
  BY CallsAfter DEF Does
<1>2. CASE KeepsHashes
  BY <1>2 DEF KeepsHashes
<1>3. CASE WritesHash(p)
  BY <1>1, <1>3, WriteHashes DEF On, WritesHash
<1>4. CASE DeletesHash(p)
  BY <1>1, <1>4, DeleteHashes DEF On, DeletesHash
<1> QED BY <1>1, <1>2, <1>3, <1>4

(* A step of an ingest its caller waits for: the verdict is recorded, or   *)
(* the step writes nothing, and is not its last.                           *)
LEMMA TaskRecords ==
    ASSUME ProvenanceInv, NEW p \in Processes, NEW q, Does(p, q),
           NEW w \in pending, NEW v \in w.verdicts
    PROVE  \/ Holds(v)'
           \/ On(p, v.doc) /\ p \in w.tasks /\ q # Idle /\ q.next # "zadd"
           \/ \E r \in w.tasks : r # p /\ On(r, v.doc) /\ calls[r].next # "zadd"
<1>1. /\ w.verdicts \subseteq Verdicts /\ v.doc \in Docs
  BY DEF ProvenanceInv, TypeInv, Waiting, Verdicts
<1>2. /\ On(p, v.doc) => /\ p \in w.tasks /\ calls[p].op = "ingest"
                         /\ calls[p].content = v.content /\ calls[p].decision = v.decision
      /\ Holds(v) \/ \E r \in w.tasks : On(r, v.doc) /\ calls[r].next # "zadd"
  BY DEF ProvenanceInv, ToldInv, Stands, Pends
<1>3. CASE ~On(p, v.doc)
  BY <1>1, <1>2, <1>3, OthersKeepRecord DEF Holds
<1>4. CASE On(p, v.doc)
  <2>1. calls[p].doc = v.doc /\ calls[p] \in Running
    BY <1>4, CallsAfter DEF On
  <2>2. CASE WritesHash(p)
    <3>1. hashes'[v.doc] = [content |-> v.content, decision |-> v.decision]
      BY <1>2, <1>4, <2>1, <2>2, WriteHashes
    <3> QED BY <3>1 DEF Holds
  <2>3. CASE KeepsHashes /\ q = Idle /\ calls[p].next = "zadd"
    BY <1>2, <2>3 DEF KeepsHashes, Holds
  <2>4. CASE KeepsHashes /\ q # Idle /\ q.next # "zadd"
    BY <1>2, <1>4, <2>4
  <2> QED BY <1>2, <1>4, <2>2, <2>3, <2>4 DEF Does
<1> QED BY <1>3, <1>4

(* ... and tells a caller only what is recorded, by then or since.         *)
LEMMA ToldAfter ==
    ASSUME ProvenanceInv, NEW p \in Processes, NEW q, Does(p, q)
    PROVE  ToldInv'
<1>1. /\ calls'[p] = q /\ calls[p] \in Running /\ calls[p] # Idle
      /\ \A r \in Processes : r # p => calls'[r] = calls[r]
      /\ q # Idle => /\ q.op = calls[p].op
                     /\ calls[p].op # "list" => q.doc = calls[p].doc
                     /\ q.content = calls[p].content /\ q.decision = calls[p].decision
      /\ pending \subseteq Waiting /\ told \subseteq Verdicts
  BY CallsAfter DEF Does, Steps, ProvenanceInv, TypeInv
<1>2. ASSUME NEW r \in Processes, NEW d
      PROVE  /\ r # p \/ q # Idle => (On(r, d)' <=> On(r, d))
             /\ q = Idle => ~On(p, d)'
  BY <1>1 DEF On
<1>3. ASSUME NEW v \in told
      PROVE  Holds(v)' /\ \A r \in Processes : ~On(r, v.doc)'
  <2>1. v.doc \in Docs /\ Holds(v) /\ \A r \in Processes : ~On(r, v.doc)
    BY <1>1 DEF Verdicts, ProvenanceInv, ToldInv, Stands, Pends
  <2>2. hashes'[v.doc] = hashes[v.doc]
    BY <2>1, OthersKeepRecord
  <2> QED BY <1>2, <2>1, <2>2 DEF Holds
<1>4. ASSUME NEW w \in pending
      PROVE  /\ w.tasks # {}
             /\ \A r \in w.tasks : r \in Processes /\ calls[r] # Idle /\ calls[r].op = "ingest"
             /\ \A v \in w.verdicts : \A r \in Processes : On(r, v.doc) =>
                  /\ r \in w.tasks
                  /\ calls[r].content = v.content /\ calls[r].decision = v.decision
  BY DEF ProvenanceInv, ToldInv, Stands, Pends
<1>5. CASE q # Idle
  <2>1. pending' = pending /\ told' = told
    BY <1>5 DEF Does
  <2>2. ASSUME NEW w \in pending
        PROVE  \A r \in w.tasks : r \in Processes /\ calls'[r] # Idle /\ calls'[r].op = "ingest"
    BY <1>1, <1>4, <1>5
  <2>3. ASSUME NEW w \in pending, NEW v \in w.verdicts
        PROVE  /\ \A r \in Processes : On(r, v.doc)' =>
                    /\ r \in w.tasks
                    /\ calls'[r].content = v.content /\ calls'[r].decision = v.decision
               /\ Holds(v)' \/ \E r \in w.tasks : On(r, v.doc)' /\ calls'[r].next # "zadd"
    <3>1. \A r \in Processes : On(r, v.doc)' =>
                    /\ r \in w.tasks
                    /\ calls'[r].content = v.content /\ calls'[r].decision = v.decision
      BY <1>1, <1>2, <1>4, <1>5
    <3>2. Holds(v)' \/ \E r \in w.tasks : On(r, v.doc)' /\ calls'[r].next # "zadd"
      BY <1>1, <1>2, <1>4, <1>5, TaskRecords
    <3> QED BY <3>1, <3>2
  <2> QED BY <1>3, <1>4, <2>1, <2>2, <2>3 DEF ToldInv, Stands, Pends
<1>6. CASE q = Idle
  <2> DEFINE over == {w \in pending : Remaining(w, p) = {}}
  <2>1. /\ pending' = {[w EXCEPT !.tasks = Remaining(w, p)] : w \in pending \ over}
        /\ told' = told \cup UNION {w.verdicts : w \in over}
    BY <1>1, <1>6, Zenon DEF Does, Return
  <2>2. ASSUME NEW v \in told'
        PROVE  Holds(v)' /\ \A r \in Processes : ~On(r, v.doc)'
    <3>1. CASE v \in told
      BY <1>3, <3>1
    <3>2. CASE \E w \in over : v \in w.verdicts
      <4>1. PICK w \in pending : v \in w.verdicts /\ Remaining(w, p) = {}
        BY <3>2
      <4>2. \A r \in w.tasks : r = p
        BY <4>1 DEF Remaining
      <4>3. \A r \in Processes : ~On(r, v.doc)'
        BY <1>2, <1>4, <1>6, <4>1, <4>2
      <4>4. Holds(v)'
        BY <1>6, <4>1, <4>2, TaskRecords
      <4> QED BY <4>3, <4>4
    <3> QED BY <2>1, <3>1, <3>2
  <2>3. ASSUME NEW u \in pending'
        PROVE  /\ u.tasks # {}
               /\ \A r \in u.tasks : r \in Processes /\ calls'[r] # Idle /\ calls'[r].op = "ingest"
               /\ \A v \in u.verdicts :
                    /\ \A r \in Processes : On(r, v.doc)' =>
                          /\ r \in u.tasks
                          /\ calls'[r].content = v.content /\ calls'[r].decision = v.decision
                    /\ Holds(v)' \/ \E r \in u.tasks : On(r, v.doc)' /\ calls'[r].next # "zadd"
    <3>1. PICK w \in pending : u = [w EXCEPT !.tasks = Remaining(w, p)] /\ Remaining(w, p) # {}
      BY <2>1
    <3>2. u.tasks = w.tasks \ {p} /\ u.verdicts = w.verdicts /\ u.tasks # {}
      BY <1>1, <3>1 DEF Waiting, Remaining
    <3>3. \A r \in u.tasks : r \in Processes /\ calls'[r] # Idle /\ calls'[r].op = "ingest"
      BY <1>1, <1>4, <3>2
    <3>4. ASSUME NEW v \in u.verdicts
          PROVE  /\ \A r \in Processes : On(r, v.doc)' =>
                          /\ r \in u.tasks
                          /\ calls'[r].content = v.content /\ calls'[r].decision = v.decision
                 /\ Holds(v)' \/ \E r \in u.tasks : On(r, v.doc)' /\ calls'[r].next # "zadd"
      <4>1. \A r \in Processes : On(r, v.doc)' =>
                          /\ r \in u.tasks
                          /\ calls'[r].content = v.content /\ calls'[r].decision = v.decision
        BY <1>1, <1>2, <1>4, <1>6, <3>2
      <4>2. Holds(v)' \/ \E r \in w.tasks : r # p /\ On(r, v.doc) /\ calls[r].next # "zadd"
        BY <1>6, <3>2, TaskRecords
      <4>3. Holds(v)' \/ \E r \in u.tasks : On(r, v.doc)' /\ calls'[r].next # "zadd"
        BY <1>1, <1>2, <1>4, <3>2, <4>2
      <4> QED BY <4>1, <4>3
    <3> QED BY <3>2, <3>3, <3>4
  <2> QED BY <2>2, <2>3 DEF ToldInv, Stands, Pends
<1> QED BY <1>5, <1>6

(* ... and keeps the queue complete, if it does so for its own document.   *)
LEMMA QueueAfter ==
    ASSUME ProvenanceInv, NEW p \in Processes, NEW q, Does(p, q), store = "redis",
           \A d \in Docs, x \in Decisions : d # calls[p].doc /\ d \in index[x] => d \in index'[x],
           \A d \in Docs : d = calls[p].doc => Queued(d)',
           Removable(q)'
    PROVE  QueueInv'
<1>1. /\ calls'[p] = q /\ calls[p] \in Running /\ calls[p] # Idle
      /\ \A r \in Processes : r # p => calls'[r] = calls[r]
      /\ UNCHANGED <<store, disturbed>> /\ calls \in [Processes -> Running \cup {Idle}]
      /\ hashes \in [Docs -> HashType]
      /\ \A d \in Docs : hashes[d].content # None => hashes[d].decision # None
  BY CallsAfter DEF Does, ProvenanceInv, TypeInv
<1>2. ASSUME NEW d \in Docs, d # calls[p].doc
      PROVE  hashes'[d] = hashes[d]
  BY <1>2, OthersKeepRecord DEF On
<1>3. ASSUME NEW d \in Docs, d # calls[p].doc
      PROVE  Queued(d)'
  <2>1. hashes'[d] = hashes[d] /\ Queued(d)
    BY <1>2, <1>3 DEF ProvenanceInv, QueueInv
  <2>2. CASE hashes[d].content = None \/ d \in disturbed
    BY <1>1, <2>1, <2>2 DEF Queued
  <2>3. CASE hashes[d].content # None /\ d \in index[hashes[d].decision]
    <3>1. hashes[d].decision \in Decisions
      BY <1>1, <2>3 DEF HashType
    <3> QED BY <1>3, <2>1, <2>3, <3>1 DEF Queued
  <2>4. ASSUME NEW r \in Processes, Indexing(r, d)
        PROVE  Queued(d)'
    <3>1. r # p /\ calls'[r] = calls[r]
      BY <1>1, <1>3, <2>4 DEF Indexing, On
    <3>2. Indexing(r, d)'
      BY <2>1, <2>4, <3>1 DEF Indexing, On
    <3> QED BY <3>2 DEF Queued
  <2> QED BY <2>1, <2>2, <2>3, <2>4 DEF Queued
<1>4. ASSUME NEW r \in Processes, r # p
      PROVE  Removable(calls[r])'
  <2>1. calls'[r] = calls[r] /\ Removable(calls[r])
    BY <1>1, <1>4 DEF ProvenanceInv, QueueInv
  <2>2. SUFFICES ASSUME calls[r] # Idle, calls[r].next = "zrem", calls[r].doc \notin disturbed
                 PROVE  Removable(calls[r])'
    BY <1>1, <2>1 DEF Removable
  <2>3. calls[r] \in Running /\ calls[r].doc \in Docs /\ calls[r].op \in Operations
    BY <1>1, <2>2, RunningFields
  <2>4. CASE calls[r].doc # calls[p].doc
    BY <1>1, <1>2, <2>1, <2>2, <2>3, <2>4 DEF Removable
  <2>5. CASE calls[r].doc = calls[p].doc
    <3>1. calls[p].op = "list" \/ (calls[p].op = "ingest" /\ calls[r].op = "ingest")
      BY <1>1, <1>4, <2>2, <2>5 DEF ProvenanceInv, MeetInv
    <3>2. CASE calls[p].op = "list"
      <4>1. hashes'[calls[r].doc] = hashes[calls[r].doc]
        BY <2>3, <3>2, OthersKeepRecord DEF On
      <4> QED BY <1>1, <2>1, <2>2, <4>1 DEF Removable
    <3>3. CASE calls[r].op = "ingest"
      BY <2>1, <3>3 DEF Removable
    <3> QED BY <3>1, <3>2, <3>3
  <2> QED BY <2>4, <2>5
<1> QED BY <1>1, <1>3, <1>4 DEF QueueInv

(* The queue of a document whose record and index are not touched, by an   *)
(* operation that was not about to index it.                               *)
LEMMA StillQueued ==
    ASSUME ProvenanceInv, NEW p \in Processes, NEW q, Does(p, q), store = "redis",
           KeepsHashes, UNCHANGED index, NEW d \in Docs, ~Indexing(p, d)
    PROVE  Queued(d)'
<1>1. /\ \A r \in Processes : r # p => calls'[r] = calls[r]
      /\ UNCHANGED <<hashes, disturbed>> /\ Queued(d)
  BY CallsAfter DEF Does, KeepsHashes, ProvenanceInv, QueueInv
<1>2. ASSUME NEW r \in Processes, Indexing(r, d)
      PROVE  Indexing(r, d)'
  BY <1>1, <1>2 DEF Indexing, On
<1> QED BY <1>1, <1>2 DEF Queued

(* Every part of the invariant after a step of an operation.               *)
LEMMA InvariantAfter ==
    ASSUME ProvenanceInv, NEW p \in Processes, NEW q, Does(p, q),
           q # Idle /\ q.op = "decide" /\ q.next = "hset" =>
              hashes'[q.doc].content # None \/ q.doc \in disturbed,
           store = "redis" =>
              /\ \A d \in Docs, x \in Decisions :
                    d # calls[p].doc /\ d \in index[x] => d \in index'[x]
              /\ \A d \in Docs : d = calls[p].doc => Queued(d)'
              /\ Removable(q)'
    PROVE  ProvenanceInv'
<1>1. TypeInv' /\ CallsInv' /\ MeetInv' /\ AllowedInv' /\ ToldInv'
  BY TypesAfter, MeetAfter, AllowedAfter, ToldAfter
<1>2. WholeInv'
  BY WholeAfter
<1>3. QueueInv'
  BY QueueAfter DEF QueueInv, Does
<1> QED BY <1>1, <1>2, <1>3 DEF ProvenanceInv
----------------------------------------------------------------------------
(* The commands that an operation can be about to send.                    *)
LEMMA CallFields ==
    ASSUME ProvenanceInv, NEW p \in Processes, calls[p] # Idle
    PROVE  /\ calls[p] \in Running /\ calls[p].doc \in Docs /\ calls[p].op \in Operations
           /\ calls[p].decision \in Decisions \cup {None} /\ calls[p].old \in Decisions \cup {None}
           /\ calls[p].todo \in SUBSET Docs /\ CallOK(store, calls[p])
           /\ hashes[calls[p].doc] \in HashType
           /\ index \in [Decisions -> SUBSET Docs]
           /\ hashes[calls[p].doc].content # None => hashes[calls[p].doc].decision # None
<1>1. calls[p] \in Running
  BY DEF ProvenanceInv, TypeInv
<1> QED BY <1>1, RunningFields DEF ProvenanceInv, TypeInv, CallsInv

(* Over Redis an operation goes by commands, over the others at once.      *)
LEMMA NextCommand ==
    ASSUME ProvenanceInv, NEW p \in Processes, calls[p] # Idle
    PROVE  /\ store = "redis" <=> calls[p].next # "all"
           /\ store = "redis" => calls[p].next \in Commands[calls[p].op]
           /\ calls[p].next \in {"hset", "zadd"} => calls[p].op \in {"ingest", "decide"}
           /\ calls[p].next = "del" => calls[p].op = "delete"
           /\ calls[p].next = "zrange" => calls[p].op = "list"
<1>1. calls[p].op \in Operations /\ CallOK(store, calls[p]) /\ store \in {"atomic", "redis"}
  BY CallFields DEF ProvenanceInv, TypeInv
<1>2. calls[p].next \in IF store = "atomic" THEN {"all"} ELSE Commands[calls[p].op]
  BY <1>1 DEF CallOK
<1>3. Commands[calls[p].op] \in {{"hget", "zrem", "hset", "zadd"}, {"hget", "hset", "zrem", "zadd"},
                                 {"hget", "del", "zrem"}, {"zrange", "hget", "zrem"}}
  BY <1>1 DEF Operations, Commands
<1>4. CASE calls[p].op = "ingest"
  BY <1>1, <1>2, <1>4 DEF Commands
<1>5. CASE calls[p].op = "decide"
  BY <1>1, <1>2, <1>5 DEF Commands
<1>6. CASE calls[p].op = "delete"
  BY <1>1, <1>2, <1>6 DEF Commands
<1>7. CASE calls[p].op = "list"
  BY <1>1, <1>2, <1>7 DEF Commands
<1> QED BY <1>1, <1>4, <1>5, <1>6, <1>7 DEF Operations

(* An operation that goes to its next command.                             *)
LEMMA StepTo ==
    ASSUME NEW r \in Running,
           NEW command \in {"hget", "hset", "zrem", "zadd", "del", "zrange", "all"}
    PROVE  \E q : /\ q = [r EXCEPT !.next = command]
                  /\ Steps(r, q) /\ q.next = command /\ q.doc = r.doc /\ q.old = r.old
                  /\ q # Idle
<1>1. PICK q : q = [r EXCEPT !.next = command]
  OBVIOUS
<1>2. Steps(r, q) /\ q.next = command /\ q.doc = r.doc /\ q.old = r.old
  BY <1>1, GotoSteps
<1>3. q # Idle
  BY <1>2, RunningFields DEF Steps
<1> QED BY <1>1, <1>2, <1>3

(* A store whose operations are atomic.                                    *)
LEMMA StepAtomic ==
    ASSUME ProvenanceInv, UNCHANGED store, NEW p \in Processes, AtomicStep(p)
    PROVE  ProvenanceInv'
<1>1. /\ calls[p] # Idle /\ calls[p].next = "all" /\ Return(p)
      /\ UNCHANGED <<index, disturbed, verified>>
  BY DEF AtomicStep
<1>2. store # "redis" /\ index \in [Decisions -> SUBSET Docs]
      /\ calls[p].next # "zadd" /\ calls[p].doc \in Docs
  BY <1>1, NextCommand, CallFields
<1>3. calls' = [calls EXCEPT ![p] = Idle]
  BY <1>1 DEF Return
<1>4. \/ calls[p].op = "ingest" /\ WritesHash(p)
      \/ calls[p].op # "ingest" /\ (KeepsHashes \/ WritesHash(p) \/ DeletesHash(p))
  <2>1. CASE calls[p].op = "ingest" /\ Write(p)
    BY <2>1 DEF WritesHash
  <2>2. CASE calls[p].op = "decide" /\ Found(calls[p].doc) /\ Write(p)
    <3>1. hashes[calls[p].doc].content # None
      BY <1>2, <2>2 DEF Found, ProvenanceInv, TypeInv, WholeInv
    <3> QED BY <2>2, <3>1 DEF WritesHash
  <2>3. CASE calls[p].op # "ingest" /\ UNCHANGED <<hashes, allowed>>
    BY <2>3 DEF KeepsHashes
  <2>4. CASE calls[p].op = "delete" /\ hashes' = [hashes EXCEPT ![calls[p].doc] = NoHash]
             /\ UNCHANGED allowed
    BY <2>4 DEF DeletesHash
  <2> QED BY <2>1, <2>2, <2>3, <2>4, Zenon DEF AtomicStep
<1>5. Does(p, Idle)
  BY <1>1, <1>2, <1>3, <1>4 DEF Does, CallOK
<1> QED BY <1>2, <1>5, InvariantAfter

(* HSET of a record or of a decision.                                      *)
LEMMA StepSetHash ==
    ASSUME ProvenanceInv, UNCHANGED store, NEW p \in Processes, SetHash(p)
    PROVE  ProvenanceInv'
<1> DEFINE command == IF calls[p].op = "ingest" THEN "zadd" ELSE "zrem"
<1>1. /\ calls[p] # Idle /\ calls[p].next = "hset" /\ Write(p) /\ Goto(p, command)
      /\ UNCHANGED <<index, disturbed, verified>>
  BY DEF SetHash
<1>2. /\ store = "redis" /\ calls[p].op \in {"ingest", "decide"} /\ calls[p] \in Running
      /\ index \in [Decisions -> SUBSET Docs] /\ CallOK(store, calls[p])
      /\ calls[p].doc \in Docs /\ calls[p].decision # None
  BY <1>1, NextCommand, CallFields DEF CallOK
<1> PICK d \in Docs : d = calls[p].doc
  BY <1>2
<1>3. PICK q : /\ q = [calls[p] EXCEPT !.next = command]
               /\ Steps(calls[p], q) /\ q.next = command /\ q.doc = d /\ q # Idle
  BY <1>2, StepTo
<1>4. calls' = [calls EXCEPT ![p] = q] /\ UNCHANGED <<pending, told>>
  BY <1>1, <1>3, Zenon DEF Goto
<1>5. WritesHash(p)
  <2>1. calls[p].op = "decide" => hashes[d].content # None \/ d \in disturbed
    BY <1>1 DEF ProvenanceInv, WholeInv
  <2> QED BY <1>1, <1>2, <2>1 DEF WritesHash
<1>6. CallOK(store, q)
  BY <1>1, <1>2, <1>3, RunningFields DEF CallOK, Steps, Commands
<1>7. Does(p, q)
  BY <1>1, <1>2, <1>3, <1>4, <1>5, <1>6 DEF Does
<1>8. calls'[p] = q /\ hashes'[d].decision = calls[p].decision
  BY <1>2, <1>5, <1>7, CallsAfter, WriteHashes
<1>9. Indexing(p, d)'
  BY <1>2, <1>3, <1>8 DEF Indexing, On, Steps
<1>10. Removable(q)'
  BY <1>2, <1>3, <1>8 DEF Removable, Steps
<1>11. Queued(d)'
  BY <1>9 DEF Queued
<1>12. q.next # "hset"
  BY <1>3
<1> QED BY <1>1, <1>2, <1>7, <1>10, <1>11, <1>12, InvariantAfter

HasRead(r, old, command) == [r EXCEPT !.old = old, !.next = command]

(* An operation that has read the old decision, and goes on.               *)
LEMMA ReadTo ==
    ASSUME NEW r \in Running, NEW old \in Decisions \cup {None},
           NEW command \in {"hget", "hset", "zrem", "zadd", "del", "zrange", "all"}
    PROVE  \E q : /\ q = HasRead(r, old, command)
                  /\ Steps(r, q) /\ q.next = command /\ q.doc = r.doc /\ q.old = old
<1>1. PICK s : s = [r EXCEPT !.old = old]
  OBVIOUS
<1>2. s \in Running /\ Steps(r, s) /\ s.doc = r.doc /\ s.old = old
  BY <1>1 DEF Steps, Running
<1>3. PICK q : /\ q = [s EXCEPT !.next = command]
               /\ Steps(s, q) /\ q.next = command /\ q.doc = s.doc /\ q.old = s.old
  BY <1>2, StepTo
<1>4. q = HasRead(r, old, command)
  BY <1>1, <1>3, Zenon DEF HasRead
<1>5. Steps(r, q) /\ q.next = command /\ q.doc = r.doc /\ q.old = old
  BY <1>2, <1>3 DEF Steps
<1> QED BY <1>4, <1>5

(* HGET of the decision that is about to be replaced.                      *)
LEMMA StepReadOld ==
    ASSUME ProvenanceInv, UNCHANGED store, NEW p \in Processes, ReadOld(p)
    PROVE  ProvenanceInv'
<1> PICK old : old = hashes[calls[p].doc].decision
  OBVIOUS
<1>1. /\ calls[p] # Idle /\ calls[p].next = "hget" /\ calls[p].op # "list"
      /\ UNCHANGED <<hashes, allowed, index, disturbed, verified>>
  BY DEF ReadOld
<1>2. /\ store = "redis" /\ calls[p] \in Running /\ CallOK(store, calls[p])
      /\ index \in [Decisions -> SUBSET Docs] /\ KeepsHashes /\ calls[p].next # "zadd"
      /\ calls[p].doc \in Docs /\ calls[p].op \in Operations
      /\ old \in Decisions \cup {None}
      /\ hashes[calls[p].doc].content # None => old # None
  BY <1>1, NextCommand, CallFields DEF KeepsHashes, HashType
<1>3. ASSUME NEW q, Does(p, q), q # Idle => q.doc = calls[p].doc,
             q # Idle /\ q.op = "decide" /\ q.next = "hset" => hashes[calls[p].doc].content # None,
             q # Idle /\ q.next = "zrem" => q.op = "ingest"
      PROVE  ProvenanceInv'
  <2>1. \A d \in Docs : ~Indexing(p, d)
    BY <1>1 DEF Indexing
  <2>2. \A d \in Docs : Queued(d)'
    BY <1>1, <1>2, <1>3, <2>1, StillQueued
  <2>3. Removable(q)'
    BY <1>3 DEF Removable
  <2> QED BY <1>1, <1>3, <2>2, <2>3, InvariantAfter
<1>4. CASE calls[p].op = "decide" /\ hashes[calls[p].doc].content = None /\ Return(p)
  <2>1. calls' = [calls EXCEPT ![p] = Idle] /\ calls[p].op # "ingest"
    BY <1>4 DEF Return
  <2>2. Does(p, Idle)
    BY <1>1, <1>2, <1>4, <2>1 DEF Does, CallOK
  <2> QED BY <1>3, <2>2
<1>5. ASSUME NEW command \in {"hset", "zrem", "del"},
             calls' = [calls EXCEPT ![p] = [@ EXCEPT !.old = old, !.next = command]],
             UNCHANGED <<pending, told>>,
             \/ calls[p].op = "ingest" /\ command = "hset"
             \/ calls[p].op = "ingest" /\ command = "zrem" /\ old # None
             \/ calls[p].op = "decide" /\ command = "hset" /\ hashes[calls[p].doc].content # None
             \/ calls[p].op = "delete" /\ command = "del"
      PROVE  ProvenanceInv'
  <2>1. command \in {"hget", "hset", "zrem", "zadd", "del", "zrange", "all"}
    BY <1>5
  <2>2. PICK q : /\ q = HasRead(calls[p], old, command)
                 /\ Steps(calls[p], q) /\ q.next = command /\ q.doc = calls[p].doc /\ q.old = old
    BY <1>2, <2>1, ReadTo
  <2>3. q \in Running /\ q # Idle
    BY <2>2, RunningFields DEF Steps
  <2>4. calls' = [calls EXCEPT ![p] = q]
    BY <1>5, <2>2, Zenon DEF HasRead
  <2>5. CallOK(store, q)
    <3>1. /\ q.op = calls[p].op /\ q.content = calls[p].content /\ q.decision = calls[p].decision
          /\ calls[p].op = "ingest" => calls[p].content # None
          /\ calls[p].op # "delete" => calls[p].decision # None
      BY <1>1, <1>2, <2>2 DEF Steps, CallOK
    <3>2. command \in Commands[calls[p].op]
      BY <1>5 DEF Commands
    <3> QED BY <1>2, <1>5, <2>2, <2>3, <3>1, <3>2 DEF CallOK
  <2>6. Does(p, q)
    BY <1>1, <1>2, <1>5, <2>2, <2>3, <2>4, <2>5 DEF Does
  <2> QED BY <1>3, <1>5, <2>2, <2>6 DEF Steps
<1>6. \/ calls[p].op = "decide" /\ hashes[calls[p].doc].content = None /\ Return(p)
      \/ \E command \in {"hset", "zrem", "del"} :
             /\ calls' = [calls EXCEPT ![p] = [@ EXCEPT !.old = old, !.next = command]]
             /\ UNCHANGED <<pending, told>>
             /\ \/ calls[p].op = "ingest" /\ command = "hset"
                \/ calls[p].op = "ingest" /\ command = "zrem" /\ old # None
                \/ calls[p].op = "decide" /\ command = "hset" /\ hashes[calls[p].doc].content # None
                \/ calls[p].op = "delete" /\ command = "del"
  BY Zenon DEF ReadOld
<1> QED BY <1>4, <1>5, <1>6, Zenon

(* DEL of a record.                                                        *)
LEMMA StepDeleteHash ==
    ASSUME ProvenanceInv, UNCHANGED store, NEW p \in Processes, DeleteHash(p)
    PROVE  ProvenanceInv'
<1>1. /\ calls[p] # Idle /\ calls[p].next = "del"
      /\ hashes' = [hashes EXCEPT ![calls[p].doc] = NoHash]
      /\ UNCHANGED <<allowed, index, disturbed, verified>>
      /\ (calls[p].old = None /\ Return(p)) \/ (calls[p].old # None /\ Goto(p, "zrem"))
  BY DEF DeleteHash
<1>2. /\ store = "redis" /\ calls[p] \in Running /\ CallOK(store, calls[p])
      /\ index \in [Decisions -> SUBSET Docs] /\ calls[p].doc \in Docs /\ calls[p].op = "delete"
      /\ DeletesHash(p)
  BY <1>1, NextCommand, CallFields DEF DeletesHash
<1> PICK d \in Docs : d = calls[p].doc
  BY <1>2
<1>3. hashes'[d].content = None
  BY <1>2, DeleteHashes DEF NoHash
<1>4. Queued(d)'
  BY <1>3 DEF Queued
<1>5. CASE calls[p].old = None /\ Return(p)
  <2>1. calls' = [calls EXCEPT ![p] = Idle]
    BY <1>5 DEF Return
  <2>2. Does(p, Idle)
    BY <1>1, <1>2, <1>5, <2>1 DEF Does, CallOK
  <2>3. Removable(Idle)'
    BY DEF Removable
  <2> QED BY <1>1, <1>4, <2>2, <2>3, InvariantAfter
<1>6. CASE calls[p].old # None /\ Goto(p, "zrem")
  <2>1. PICK q : /\ q = [calls[p] EXCEPT !.next = "zrem"]
                 /\ Steps(calls[p], q) /\ q.next = "zrem" /\ q.doc = d /\ q # Idle
                 /\ q.old = calls[p].old
    BY <1>2, StepTo
  <2>2. calls' = [calls EXCEPT ![p] = q] /\ UNCHANGED <<pending, told>>
    BY <1>6, <2>1, Zenon DEF Goto
  <2>3. CallOK(store, q)
    BY <1>2, <1>6, <2>1 DEF CallOK, Steps, Commands
  <2>4. Does(p, q)
    BY <1>1, <1>2, <2>1, <2>2, <2>3 DEF Does
  <2>5. Removable(q)'
    BY <1>2, <1>3, <2>1 DEF Removable, Steps
  <2> QED BY <1>1, <1>2, <1>4, <2>1, <2>4, <2>5, InvariantAfter DEF Steps
<1> QED BY <1>1, <1>5, <1>6

(* ZREM from the index of the decision that was read.                      *)
LEMMA StepRemoveFromIndex ==
    ASSUME ProvenanceInv, UNCHANGED store, NEW p \in Processes, RemoveFromIndex(p)
    PROVE  ProvenanceInv'
<1>1. /\ calls[p] # Idle /\ calls[p].next = "zrem" /\ calls[p].op # "list"
      /\ index' = [index EXCEPT ![calls[p].old] = @ \ {calls[p].doc}]
      /\ UNCHANGED <<hashes, allowed, disturbed, verified>>
      /\ \/ calls[p].op = "ingest" /\ Goto(p, "hset")
         \/ calls[p].op = "decide" /\ Goto(p, "zadd")
         \/ calls[p].op = "delete" /\ Return(p)
  BY DEF RemoveFromIndex
<1>2. /\ store = "redis" /\ calls[p] \in Running /\ CallOK(store, calls[p])
      /\ index \in [Decisions -> SUBSET Docs] /\ calls[p].doc \in Docs
      /\ KeepsHashes /\ calls[p].next # "zadd" /\ calls[p].old \in Decisions
  BY <1>1, NextCommand, CallFields DEF KeepsHashes, CallOK
<1> PICK d \in Docs : d = calls[p].doc
  BY <1>2
<1>3. /\ index' \in [Decisions -> SUBSET Docs]
      /\ \A e \in Docs, x \in Decisions : e # d /\ e \in index[x] => e \in index'[x]
  BY <1>1, <1>2
<1>4. Removable(calls[p])
  BY <1>2 DEF ProvenanceInv, QueueInv
<1>5. CASE calls[p].op = "delete" /\ Return(p)
  <2>1. calls' = [calls EXCEPT ![p] = Idle]
    BY <1>5 DEF Return
  <2>2. Does(p, Idle)
    BY <1>1, <1>2, <1>3, <1>5, <2>1 DEF Does, CallOK
  <2>3. Removable(Idle)'
    BY DEF Removable
  <2>4. Queued(d)'
    BY <1>1, <1>4, <1>5 DEF Queued, Removable
  <2> QED BY <1>3, <2>2, <2>3, <2>4, InvariantAfter
<1>6. CASE calls[p].op # "delete"
  <2> PICK command : command = IF calls[p].op = "ingest" THEN "hset" ELSE "zadd"
    OBVIOUS
  <2>0. /\ \/ calls[p].op = "ingest" /\ command = "hset"
           \/ calls[p].op = "decide" /\ command = "zadd"
        /\ Goto(p, command)
    BY <1>1, <1>6
  <2>1. command \in {"hget", "hset", "zrem", "zadd", "del", "zrange", "all"}
    BY <2>0
  <2>2. PICK q : /\ q = [calls[p] EXCEPT !.next = command]
                 /\ Steps(calls[p], q) /\ q.next = command /\ q.doc = d /\ q # Idle
                 /\ q.old = calls[p].old
    BY <1>2, <2>1, StepTo
  <2>3. calls' = [calls EXCEPT ![p] = q] /\ UNCHANGED <<pending, told>>
    BY <2>0, <2>2, Zenon DEF Goto
  <2>4. q.op = calls[p].op /\ q.content = calls[p].content /\ q.decision = calls[p].decision
        /\ q.op # "list" /\ q \in Running
    BY <1>1, <2>2 DEF Steps
  <2>5. CallOK(store, q)
    <3>1. /\ calls[p].op = "ingest" => calls[p].content # None
          /\ calls[p].decision # None
      BY <1>1, <1>2, <2>0 DEF CallOK
    <3>2. command \in Commands[calls[p].op] /\ command # "zrem"
      <4>1. CASE calls[p].op = "ingest" /\ command = "hset"
        BY <4>1 DEF Commands
      <4>2. CASE calls[p].op = "decide" /\ command = "zadd"
        BY <4>2 DEF Commands
      <4> QED BY <2>0, <4>1, <4>2
    <3>3. ~(q.op = "decide" /\ q.next = "hset")
      BY <2>0, <2>2, <2>4
    <3> QED BY <1>2, <2>2, <2>4, <3>1, <3>2, <3>3 DEF CallOK
  <2>6. Does(p, q)
    BY <1>1, <1>2, <1>3, <2>0, <2>2, <2>3, <2>5 DEF Does
  <2>7. Removable(q)'
    BY <2>0, <2>2 DEF Removable
  <2>8. calls'[p] = q
    BY <2>6, CallsAfter
  <2>9. Queued(d)'
    <3>1. d \in disturbed \/ Indexing(p, d)'
      BY <1>1, <1>4, <2>0, <2>2, <2>4, <2>8 DEF Removable, Indexing, On
    <3> QED BY <1>1, <3>1 DEF Queued
  <2>10. ~(q.op = "decide" /\ q.next = "hset")
    BY <2>0, <2>2, <2>4
  <2>11. \A e \in Docs : e = calls[p].doc => Queued(e)'
    BY <2>9
  <2>12. \A e \in Docs, x \in Decisions : e # calls[p].doc /\ e \in index[x] => e \in index'[x]
    BY <1>3
  <2> QED BY <2>6, <2>7, <2>10, <2>11, <2>12, InvariantAfter
<1> QED BY <1>1, <1>5, <1>6

(* ZADD to the index of the decision that was written.                     *)
LEMMA StepAddToIndex ==
    ASSUME ProvenanceInv, UNCHANGED store, NEW p \in Processes, AddToIndex(p)
    PROVE  ProvenanceInv'
<1>1. /\ calls[p] # Idle /\ calls[p].next = "zadd" /\ Return(p)
      /\ index' = [index EXCEPT ![calls[p].decision] = @ \cup {calls[p].doc}]
      /\ UNCHANGED <<hashes, allowed, disturbed, verified>>
  BY DEF AddToIndex
<1>2. /\ store = "redis" /\ calls[p] \in Running /\ CallOK(store, calls[p])
      /\ index \in [Decisions -> SUBSET Docs] /\ calls[p].doc \in Docs
      /\ KeepsHashes /\ calls[p].op \in {"ingest", "decide"} /\ calls[p].decision \in Decisions
  BY <1>1, NextCommand, CallFields DEF KeepsHashes, CallOK
<1> PICK d \in Docs : d = calls[p].doc
  BY <1>2
<1>3. /\ index' \in [Decisions -> SUBSET Docs] /\ d \in index'[calls[p].decision]
      /\ \A e \in Docs, x \in Decisions : e \in index[x] => e \in index'[x]
  BY <1>1, <1>2
<1>4. calls' = [calls EXCEPT ![p] = Idle]
  BY <1>1 DEF Return
<1>5. Does(p, Idle)
  BY <1>1, <1>2, <1>3, <1>4 DEF Does, CallOK
<1>6. Removable(Idle)'
  BY DEF Removable
<1>7. Queued(d)'
  <2>1. /\ Queued(d) /\ \A r \in Processes : r # p => calls'[r] = calls[r]
        /\ hashes[d].content # None => hashes[d].decision \in Decisions
    BY <1>2, <1>5, CallsAfter, CallFields DEF ProvenanceInv, QueueInv, TypeInv, HashType
  <2>2. CASE d \in disturbed \/ hashes[d].content = None
    BY <1>1, <2>2 DEF Queued
  <2>3. CASE hashes[d].content # None /\ d \in index[hashes[d].decision]
    BY <1>1, <1>3, <2>1, <2>3 DEF Queued
  <2>4. CASE Indexing(p, d)
    BY <1>1, <1>3, <2>4 DEF Queued, Indexing
  <2>5. ASSUME NEW r \in Processes, r # p, Indexing(r, d)
        PROVE  Queued(d)'
    <3>1. Indexing(r, d)'
      BY <1>1, <2>1, <2>5 DEF Indexing, On
    <3> QED BY <3>1 DEF Queued
  <2> QED BY <2>1, <2>2, <2>3, <2>4, <2>5 DEF Queued
<1> QED BY <1>3, <1>5, <1>6, <1>7, InvariantAfter

HasMovedOn(r, d, rest) == [r EXCEPT !.next = "hget", !.doc = d, !.todo = rest]

(* A listing that goes to its next document.                               *)
LEMMA ListTo ==
    ASSUME NEW r \in Running, r.op = "list", NEW d \in Docs, NEW rest \in SUBSET Docs
    PROVE  \E q : q = HasMovedOn(r, d, rest) /\ Steps(r, q) /\ q.next = "hget"
<1>1. PICK q : q = [r EXCEPT !.next = "hget", !.doc = d, !.todo = rest]
  OBVIOUS
<1>2. Steps(r, q) /\ q.next = "hget"
  BY <1>1, ListSteps
<1>3. q = HasMovedOn(r, d, rest)
  BY <1>1, Zenon DEF HasMovedOn
<1> QED BY <1>2, <1>3

(* A listing goes on with the next document, or is over.                   *)
LEMMA ContinueDoes ==
    ASSUME ProvenanceInv, NEW p \in Processes, calls[p] # Idle, calls[p].op = "list",
           store = "redis", NEW todo \in SUBSET Docs, Continue(p, todo),
           KeepsHashes, index' \in [Decisions -> SUBSET Docs],
           UNCHANGED <<store, disturbed, verified>>
    PROVE  \E q : Does(p, q) /\ (q # Idle => q.op = "list" /\ q.next = "hget")
<1>1. calls[p] \in Running /\ CallOK(store, calls[p])
  BY CallFields
<1>2. CASE todo = {}
  <2>1. Return(p)
    BY <1>2, Zenon DEF Continue
  <2>2. calls' = [calls EXCEPT ![p] = Idle]
    BY <2>1 DEF Return
  <2>3. Does(p, Idle)
    BY <2>1, <2>2 DEF Does, CallOK
  <2> QED BY <2>3
<1>3. CASE todo # {}
  <2>1. PICK d \in todo : calls' = [calls EXCEPT ![p] = HasMovedOn(calls[p], d, todo \ {d})]
    BY <1>3, Zenon DEF Continue, HasMovedOn
  <2>2. UNCHANGED <<pending, told>>
    BY <1>3, Zenon DEF Continue
  <2>3. d \in Docs /\ todo \ {d} \in SUBSET Docs
    OBVIOUS
  <2>4. PICK q : q = HasMovedOn(calls[p], d, todo \ {d}) /\ Steps(calls[p], q) /\ q.next = "hget"
    BY <1>1, <2>3, ListTo
  <2>5. calls' = [calls EXCEPT ![p] = q]
    BY <2>1, <2>4
  <2>6. q \in Running /\ q.op = "list" /\ q.decision = calls[p].decision
    BY <2>4 DEF Steps
  <2>7. q # Idle
    BY <2>6, RunningFields
  <2>8. CallOK(store, q)
    BY <1>1, <2>4, <2>6 DEF CallOK, Commands
  <2>9. Does(p, q)
    BY <2>2, <2>4, <2>5, <2>7, <2>8 DEF Does
  <2> QED BY <2>4, <2>6, <2>9
<1> QED BY <1>2, <1>3

(* A listing that does not touch the index.                                *)
LEMMA ListKeeps ==
    ASSUME ProvenanceInv, NEW p \in Processes, calls[p].op = "list", store = "redis",
           NEW q, Does(p, q), KeepsHashes, UNCHANGED index, Removable(q)'
    PROVE  ProvenanceInv'
<1>1. \A d \in Docs : ~Indexing(p, d)
  BY DEF Indexing, On
<1>2. \A d \in Docs : Queued(d)'
  BY <1>1, StillQueued
<1>3. q # Idle => q.op # "decide"
  BY DEF Does, Steps
<1> QED BY <1>2, <1>3, InvariantAfter

(* ZRANGE of the index a listing is about.                                 *)
LEMMA StepReadIndex ==
    ASSUME ProvenanceInv, UNCHANGED store, NEW p \in Processes, ReadIndex(p)
    PROVE  ProvenanceInv'
<1>1. /\ calls[p] # Idle /\ calls[p].next = "zrange" /\ Continue(p, index[calls[p].decision])
      /\ UNCHANGED <<hashes, index, allowed, disturbed, verified>>
  BY DEF ReadIndex
<1>2. /\ store = "redis" /\ calls[p].op = "list" /\ KeepsHashes
      /\ index \in [Decisions -> SUBSET Docs] /\ index[calls[p].decision] \in SUBSET Docs
  BY <1>1, NextCommand, CallFields DEF KeepsHashes, CallOK
<1>3. PICK q : Does(p, q) /\ (q # Idle => q.op = "list" /\ q.next = "hget")
  BY <1>1, <1>2, ContinueDoes
<1>4. Removable(q)'
  BY <1>3 DEF Removable
<1> QED BY <1>1, <1>2, <1>3, <1>4, ListKeeps

(* HGET of a document that is listed.                                      *)
LEMMA StepReadListed ==
    ASSUME ProvenanceInv, UNCHANGED store, NEW p \in Processes, ReadListed(p)
    PROVE  ProvenanceInv'
<1>1. /\ calls[p] # Idle /\ calls[p].next = "hget" /\ calls[p].op = "list"
      /\ UNCHANGED <<hashes, index, allowed, disturbed, verified>>
      /\ \/ Continue(p, calls[p].todo)
         \/ /\ \/ hashes[calls[p].doc] = NoHash
               \/ hashes[calls[p].doc].decision # calls[p].decision
            /\ Goto(p, "zrem")
         \/ Return(p)
  BY Zenon DEF ReadListed
<1>2. /\ store = "redis" /\ KeepsHashes /\ CallOK(store, calls[p]) /\ calls[p] \in Running
      /\ index \in [Decisions -> SUBSET Docs] /\ calls[p].todo \in SUBSET Docs
  BY <1>1, NextCommand, CallFields DEF KeepsHashes
<1>3. CASE Continue(p, calls[p].todo)
  <2>1. PICK q : Does(p, q) /\ (q # Idle => q.op = "list" /\ q.next = "hget")
    BY <1>1, <1>2, <1>3, ContinueDoes
  <2>2. Removable(q)'
    BY <2>1 DEF Removable
  <2> QED BY <1>1, <1>2, <2>1, <2>2, ListKeeps
<1>4. CASE Return(p)
  <2>1. calls' = [calls EXCEPT ![p] = Idle]
    BY <1>4 DEF Return
  <2>2. Does(p, Idle)
    BY <1>1, <1>2, <1>4, <2>1 DEF Does, CallOK
  <2>3. Removable(Idle)'
    BY DEF Removable
  <2> QED BY <1>1, <1>2, <2>2, <2>3, ListKeeps
<1>5. CASE /\ hashes[calls[p].doc] = NoHash \/ hashes[calls[p].doc].decision # calls[p].decision
           /\ Goto(p, "zrem")
  <2>1. PICK q : /\ q = [calls[p] EXCEPT !.next = "zrem"]
                 /\ Steps(calls[p], q) /\ q.next = "zrem" /\ q.doc = calls[p].doc /\ q # Idle
                 /\ q.old = calls[p].old
    BY <1>2, StepTo
  <2>2. calls' = [calls EXCEPT ![p] = q] /\ UNCHANGED <<pending, told>>
    BY <1>5, <2>1, Zenon DEF Goto
  <2>3. q \in Running /\ q.op = "list" /\ q.decision = calls[p].decision
    BY <1>1, <2>1 DEF Steps
  <2>4. CallOK(store, q)
    BY <1>1, <1>2, <2>1, <2>3 DEF CallOK, Commands
  <2>5. Does(p, q)
    BY <1>1, <1>2, <2>1, <2>2, <2>4 DEF Does
  <2>6. Removable(q)'
    BY <1>1, <1>5, <2>1, <2>3 DEF Removable, NoHash
  <2> QED BY <1>1, <1>2, <2>5, <2>6, ListKeeps
<1> QED BY <1>1, <1>3, <1>4, <1>5

(* ZREM of a document that is listed and has no record.                    *)
LEMMA StepRemoveGhost ==
    ASSUME ProvenanceInv, UNCHANGED store, NEW p \in Processes, RemoveGhost(p)
    PROVE  ProvenanceInv'
<1>1. /\ calls[p] # Idle /\ calls[p].next = "zrem" /\ calls[p].op = "list"
      /\ index' = [index EXCEPT ![calls[p].decision] = @ \ {calls[p].doc}]
      /\ Continue(p, calls[p].todo)
      /\ UNCHANGED <<hashes, allowed, disturbed, verified>>
  BY DEF RemoveGhost
<1>2. /\ store = "redis" /\ KeepsHashes /\ calls[p].doc \in Docs
      /\ index \in [Decisions -> SUBSET Docs] /\ calls[p].todo \in SUBSET Docs
      /\ calls[p].decision \in Decisions
  BY <1>1, NextCommand, CallFields DEF KeepsHashes, CallOK
<1> PICK d \in Docs : d = calls[p].doc
  BY <1>2
<1>3. /\ index' \in [Decisions -> SUBSET Docs]
      /\ \A x \in Decisions : x # calls[p].decision => index'[x] = index[x]
      /\ \A e \in Docs, x \in Decisions : e # d /\ e \in index[x] => e \in index'[x]
  BY <1>1, <1>2
<1>4. PICK q : Does(p, q) /\ (q # Idle => q.op = "list" /\ q.next = "hget")
  BY <1>1, <1>2, <1>3, ContinueDoes
<1>5. Removable(q)'
  BY <1>4 DEF Removable
<1>6. Queued(d)'
  <2>1. /\ Queued(d) /\ \A r \in Processes : r # p => calls'[r] = calls[r]
        /\ hashes[d].content # None => hashes[d].decision \in Decisions
    BY <1>1, <1>2, <1>4, CallsAfter, CallFields DEF ProvenanceInv, QueueInv, TypeInv, HashType
  <2>2. d \in disturbed \/ hashes[d].content = None \/ hashes[d].decision # calls[p].decision
    BY <1>1, <1>2 DEF ProvenanceInv, QueueInv, Removable
  <2>3. CASE d \in disturbed \/ hashes[d].content = None
    BY <1>1, <2>3 DEF Queued
  <2>4. CASE /\ hashes[d].content # None /\ hashes[d].decision # calls[p].decision
             /\ d \in index[hashes[d].decision]
    BY <1>1, <1>3, <2>1, <2>4 DEF Queued
  <2>5. ASSUME NEW r \in Processes, Indexing(r, d)
        PROVE  Queued(d)'
    <3>1. r # p /\ calls'[r] = calls[r]
      BY <1>1, <2>1, <2>5 DEF Indexing, On
    <3>2. Indexing(r, d)'
      BY <1>1, <2>5, <3>1 DEF Indexing, On
    <3> QED BY <3>2 DEF Queued
  <2> QED BY <2>1, <2>2, <2>3, <2>4, <2>5 DEF Queued
<1>7. \A e \in Docs : e = calls[p].doc => Queued(e)'
  BY <1>6
<1>8. \A e \in Docs, x \in Decisions : e # calls[p].doc /\ e \in index[x] => e \in index'[x]
  BY <1>3
<1> QED BY <1>4, <1>5, <1>7, <1>8, InvariantAfter

(* A timeout, or a process that stops, between two commands.               *)
LEMMA StepCut ==
    ASSUME ProvenanceInv, UNCHANGED store, NEW p \in Processes, Cut(p)
    PROVE  ProvenanceInv'
<1> PICK ended : ended = IF calls[p].op = "list" THEN {} ELSE {calls[p].doc}
  OBVIOUS
<1>1. /\ calls[p] # Idle /\ calls' = [calls EXCEPT ![p] = Idle]
      /\ pending' = {w \in pending : p \notin w.tasks}
      /\ disturbed' = disturbed \cup ended
      /\ UNCHANGED <<hashes, index, told, verified, allowed>>
  BY DEF Cut
<1>2. /\ calls' \in [Processes -> Running \cup {Idle}] /\ calls'[p] = Idle
      /\ \A r \in Processes : r # p => calls'[r] = calls[r]
      /\ ended \subseteq Docs
      /\ calls[p] \in Running
  BY <1>1, CallFields DEF ProvenanceInv, TypeInv
<1>3. TypeInv'
  BY <1>1, <1>2 DEF ProvenanceInv, TypeInv
<1>4. CallsInv'
  BY <1>2 DEF ProvenanceInv, CallsInv, CallOK
<1>5. MeetInv'
  BY <1>1, <1>2 DEF ProvenanceInv, MeetInv
<1>6. AllowedInv'
  BY <1>1 DEF ProvenanceInv, AllowedInv
<1>7. WholeInv'
  BY <1>1, <1>2 DEF ProvenanceInv, WholeInv
<1>8. QueueInv'
  <2>1. SUFFICES ASSUME store = "redis"
                 PROVE  /\ \A d \in Docs : Queued(d)'
                        /\ \A r \in Processes : Removable(calls[r])'
    BY DEF QueueInv
  <2>2. ASSUME NEW d \in Docs
        PROVE  Queued(d)'
    <3>1. Queued(d)
      BY <2>1 DEF ProvenanceInv, QueueInv
    <3>2. ASSUME NEW r \in Processes, Indexing(r, d)
          PROVE  Queued(d)'
      <4>1. CASE r = p
        <5>1. d \in disturbed'
          BY <1>1, <3>2, <4>1 DEF Indexing, On
        <5> QED BY <5>1 DEF Queued
      <4>2. CASE r # p
        <5>1. Indexing(r, d)'
          BY <1>1, <1>2, <3>2, <4>2 DEF Indexing, On
        <5> QED BY <5>1 DEF Queued
      <4> QED BY <4>1, <4>2
    <3> QED BY <1>1, <3>1, <3>2 DEF Queued
  <2>3. ASSUME NEW r \in Processes
        PROVE  Removable(calls[r])'
    <3>1. Removable(calls[r])
      BY <2>1 DEF ProvenanceInv, QueueInv
    <3> QED BY <1>1, <1>2, <3>1 DEF Removable
  <2> QED BY <2>2, <2>3
<1>9. ToldInv'
  <2>1. \A r \in Processes : \A d : On(r, d)' <=> r # p /\ On(r, d)
    BY <1>2 DEF On
  <2>2. ASSUME NEW v \in told'
        PROVE  Holds(v)' /\ \A r \in Processes : ~On(r, v.doc)'
    BY <1>1, <2>1 DEF ProvenanceInv, ToldInv, Stands, Pends, Holds
  <2>3. ASSUME NEW w \in pending'
        PROVE  /\ w.tasks # {}
               /\ \A r \in w.tasks : r \in Processes /\ calls'[r] # Idle /\ calls'[r].op = "ingest"
               /\ \A v \in w.verdicts :
                    /\ \A r \in Processes : On(r, v.doc)' =>
                          /\ r \in w.tasks
                          /\ calls'[r].content = v.content /\ calls'[r].decision = v.decision
                    /\ Holds(v)' \/ \E r \in w.tasks : On(r, v.doc)' /\ calls'[r].next # "zadd"
    <3>1. w \in pending /\ p \notin w.tasks
      BY <1>1
    <3>2. /\ w.tasks # {}
          /\ \A r \in w.tasks : r \in Processes /\ calls[r] # Idle /\ calls[r].op = "ingest"
          /\ \A v \in w.verdicts :
                /\ \A r \in Processes : On(r, v.doc) =>
                      /\ r \in w.tasks
                      /\ calls[r].content = v.content /\ calls[r].decision = v.decision
                /\ Holds(v) \/ \E r \in w.tasks : On(r, v.doc) /\ calls[r].next # "zadd"
      BY <3>1 DEF ProvenanceInv, ToldInv, Stands, Pends
    <3>3. \A v : Holds(v)' <=> Holds(v)
      BY <1>1 DEF Holds
    <3> QED BY <1>2, <2>1, <3>1, <3>2, <3>3
  <2> QED BY <2>2, <2>3 DEF ToldInv, Stands, Pends
<1> QED BY <1>3, <1>4, <1>5, <1>6, <1>7, <1>8, <1>9 DEF ProvenanceInv

(* A retrieved document is verified against its record.                    *)
LEMMA StepVerifyRetrieved ==
    ASSUME ProvenanceInv, UNCHANGED store, NEW d \in Docs, NEW c \in Contents, VerifyRetrieved(d, c)
    PROVE  ProvenanceInv'
<1>1. /\ hashes[d] = [content |-> c, decision |-> "accept"] /\ verified' = <<d, c>>
      /\ UNCHANGED <<hashes, index, calls, pending, told, allowed, disturbed, store>>
  BY DEF VerifyRetrieved, callVars
<1>2. AllowedInv'
  <2>1. c # None
    BY ProvenanceAssumption
  <2>2. <<d, c>> \in allowed
    BY <1>1, <2>1 DEF ProvenanceInv, AllowedInv
  <2> QED BY <1>1, <2>2 DEF ProvenanceInv, AllowedInv
<1>3. TypeInv' /\ CallsInv' /\ MeetInv' /\ WholeInv'
  BY <1>1 DEF ProvenanceInv, TypeInv, CallsInv, MeetInv, WholeInv
<1>4. QueueInv' /\ ToldInv'
  BY <1>1 DEF ProvenanceInv, QueueInv, Queued, Indexing, On, Removable, ToldInv, Stands, Pends, Holds
<1> QED BY <1>2, <1>3, <1>4 DEF ProvenanceInv
----------------------------------------------------------------------------
Loads == [doc : Docs, content : Contents \cup {None}, decision : Decisions \cup {None}]

(* What tasks may begin: together only ingests, and with all they need.    *)
Begins(tasks, op, load) ==
    /\ tasks \subseteq Processes /\ op \in Operations
    /\ load \in [tasks -> Loads]
    /\ op = "ingest" => \A p \in tasks : load[p].content # None
    /\ op # "delete" => \A p \in tasks : load[p].decision # None
    /\ op # "ingest" => \A p, r \in tasks : p = r
    /\ Starting(tasks, op, load)

(* The operation that a task begins.                                       *)
LEMMA NewCall ==
    ASSUME ProvenanceInv, UNCHANGED store, NEW tasks, NEW op, NEW load, Begins(tasks, op, load),
           NEW p \in tasks
    PROVE  /\ p \in Processes /\ calls[p] = Idle /\ calls'[p] \in Running /\ calls'[p] # Idle
           /\ calls'[p].op = op /\ calls'[p].doc = load[p].doc
           /\ calls'[p].content = load[p].content /\ calls'[p].decision = load[p].decision
           /\ calls'[p].next \in {"all", "zrange", "hget"}
           /\ CallOK(store, calls'[p])
<1> DEFINE first == IF store = "atomic" THEN "all" ELSE IF op = "list" THEN "zrange" ELSE "hget"
           call == [op |-> op, doc |-> load[p].doc, content |-> load[p].content,
                    decision |-> load[p].decision, old |-> None, todo |-> {}, next |-> first]
<1>1. /\ p \in Processes /\ calls[p] = Idle /\ calls'[p] = call
      /\ op \in Operations /\ load[p] \in Loads
  BY DEF Begins, Starting
<1>2. load[p].doc \in Docs /\ load[p].content \in Contents \cup {None}
      /\ load[p].decision \in Decisions \cup {None}
  BY <1>1 DEF Loads
<1>3. first \in {"all", "zrange", "hget"}
  OBVIOUS
<1>4. first \in IF store = "atomic" THEN {"all"} ELSE Commands[op]
  <2>1. CASE op = "list"
    BY <2>1 DEF Commands
  <2>2. CASE op = "ingest"
    BY <2>2 DEF Commands
  <2>3. CASE op = "decide"
    BY <2>3 DEF Commands
  <2>4. CASE op = "delete"
    BY <2>4 DEF Commands
  <2> QED BY <1>1, <2>1, <2>2, <2>3, <2>4 DEF Operations
<1> HIDE DEF first
<1>5. /\ call \in Running /\ call.op = op /\ call.doc = load[p].doc
      /\ call.content = load[p].content /\ call.decision = load[p].decision
      /\ call.next = first
  BY <1>1, <1>2, <1>3 DEF Running
<1>6. PICK q : q = call
  OBVIOUS
<1> HIDE DEF call
<1>7. q # Idle /\ CallOK(store, q)
  <2>1. q.next # "zrem" /\ q.next # "hset"
    BY <1>3, <1>5, <1>6
  <2> QED BY <1>4, <1>5, <1>6, <2>1, RunningFields DEF CallOK, Begins
<1> QED BY <1>1, <1>3, <1>5, <1>6, <1>7

(* Tasks that begin leave the other calls alone.                           *)
LEMMA OldCall ==
    ASSUME NEW tasks, NEW op, NEW load, Begins(tasks, op, load), NEW p \in Processes \ tasks
    PROVE  calls'[p] = calls[p]
BY DEF Begins, Starting

(* ... and disturb the documents on which they meet another operation.     *)
LEMMA NewlyDisturbed ==
    ASSUME ProvenanceInv, NEW tasks, NEW op, NEW load, Begins(tasks, op, load)
    PROVE  /\ disturbed' = disturbed \cup UNION {Disturbs(op, load[p].doc) : p \in tasks}
           /\ disturbed' \subseteq Docs
           /\ UNCHANGED <<hashes, index, verified, allowed>>
<1>1. /\ disturbed' = disturbed \cup UNION {Disturbs(op, load[p].doc) : p \in tasks}
      /\ UNCHANGED <<hashes, index, verified, allowed>>
  BY DEF Begins, Starting
<1>2. \A p \in tasks : Disturbs(op, load[p].doc) \subseteq Docs
  BY DEF Disturbs
<1>3. disturbed \subseteq Docs
  BY DEF ProvenanceInv, TypeInv
<1> QED BY <1>1, <1>2, <1>3

(* Operations that begin keep the types.                                   *)
LEMMA TypesBegin ==
    ASSUME ProvenanceInv, UNCHANGED store, NEW tasks, NEW op, NEW load, Begins(tasks, op, load),
           pending' \subseteq Waiting, told' \subseteq Verdicts
    PROVE  TypeInv' /\ CallsInv'
<1>1. calls' \in [Processes -> Running \cup {Idle}]
  <2>1. \A p \in Processes : calls'[p] \in Running \cup {Idle}
    BY NewCall, OldCall DEF ProvenanceInv, TypeInv
  <2>2. calls' = [p \in Processes |-> calls'[p]]
    BY DEF Begins, Starting
  <2> QED BY <2>1, <2>2
<1>2. TypeInv'
  BY <1>1, NewlyDisturbed DEF ProvenanceInv, TypeInv
<1>3. \A p \in Processes : CallOK(store, calls'[p])
  BY NewCall, OldCall DEF ProvenanceInv, CallsInv
<1> QED BY <1>2, <1>3 DEF CallsInv

(* Who begins meets whoever is under way.                                  *)
LEMMA Meets ==
    ASSUME ProvenanceInv, NEW tasks, NEW op, NEW load, Begins(tasks, op, load),
           NEW p \in tasks, NEW r \in Processes, calls[r] # Idle, NEW e \in Docs,
           op = "list" \/ e = load[p].doc,
           calls[r].op = "list" \/ calls[r].doc = e,
           ~(op = "ingest" /\ calls[r].op = "ingest")
    PROVE  e \in disturbed'
<1>1. {op, calls[r].op} # {"ingest"}
  <2>1. op \in {op, calls[r].op} /\ calls[r].op \in {op, calls[r].op}
    OBVIOUS
  <2> QED BY <2>1
<1>2. e \in Disturbs(op, load[p].doc)
  BY <1>1 DEF Disturbs
<1> QED BY <1>2, NewlyDisturbed

(* ... and mark every document on which they meet another.                 *)
LEMMA MeetBegin ==
    ASSUME ProvenanceInv, UNCHANGED store, NEW tasks, NEW op, NEW load, Begins(tasks, op, load)
    PROVE  MeetInv'
<1> SUFFICES ASSUME NEW p \in Processes, NEW r \in Processes, p # r,
                    calls'[p] # Idle, calls'[r] # Idle, calls'[p].op # "list"
             PROVE  \/ calls'[p].doc \in disturbed'
                    \/ calls'[r].op # "list" /\ calls'[r].doc # calls'[p].doc
                    \/ calls'[p].op = "ingest" /\ calls'[r].op = "ingest"
  BY DEF MeetInv
<1>1. CASE p \notin tasks /\ r \notin tasks
  <2>1. calls'[p] = calls[p] /\ calls'[r] = calls[r]
    BY <1>1, OldCall
  <2> QED BY <2>1, NewlyDisturbed DEF ProvenanceInv, MeetInv
<1>2. CASE p \in tasks /\ r \in tasks
  <2>1. op = "ingest"
    BY <1>2 DEF Begins
  <2> QED BY <1>2, <2>1, NewCall
<1>3. CASE p \in tasks /\ r \notin tasks
  <2>1. calls'[r] = calls[r] /\ calls[r] # Idle
    BY <1>3, OldCall
  <2>2. calls'[p].doc = load[p].doc /\ calls'[p].op = op /\ calls'[p].doc \in Docs
    BY <1>3, NewCall, RunningFields
  <2> QED BY <1>3, <2>1, <2>2, Meets
<1>4. CASE p \notin tasks /\ r \in tasks
  <2>1. calls'[p] = calls[p] /\ calls[p] # Idle /\ calls[p].doc \in Docs
    BY <1>4, OldCall, CallFields
  <2>2. calls'[r].doc = load[r].doc /\ calls'[r].op = op
    BY <1>4, NewCall
  <2> QED BY <1>4, <2>1, <2>2, Meets
<1> QED BY <1>1, <1>2, <1>3, <1>4

(* Nothing else of the invariant is disturbed.                             *)
LEMMA RecordsBegin ==
    ASSUME ProvenanceInv, UNCHANGED store, NEW tasks, NEW op, NEW load, Begins(tasks, op, load)
    PROVE  AllowedInv' /\ WholeInv' /\ QueueInv'
<1>1. UNCHANGED <<hashes, index, verified, allowed>> /\ disturbed \subseteq disturbed'
  BY NewlyDisturbed
<1>2. AllowedInv'
  BY <1>1 DEF ProvenanceInv, AllowedInv
<1>3. \A p \in tasks : calls'[p].next # "hset" /\ calls'[p].next # "zrem"
  BY NewCall
<1>4. WholeInv'
  <2>1. \A p \in Processes : calls'[p] # Idle /\ calls'[p].op = "decide" /\ calls'[p].next = "hset" =>
          hashes'[calls'[p].doc].content # None \/ calls'[p].doc \in disturbed'
    BY <1>1, <1>3, OldCall DEF ProvenanceInv, WholeInv
  <2> QED BY <1>1, <2>1 DEF ProvenanceInv, WholeInv
<1>5. QueueInv'
  <2>1. SUFFICES ASSUME store = "redis"
                 PROVE  /\ \A d \in Docs : Queued(d)'
                        /\ \A p \in Processes : Removable(calls[p])'
    BY DEF QueueInv
  <2>2. ASSUME NEW d \in Docs
        PROVE  Queued(d)'
    <3>1. Queued(d)
      BY <2>1 DEF ProvenanceInv, QueueInv
    <3>2. ASSUME NEW r \in Processes, Indexing(r, d)
          PROVE  Queued(d)'
      <4>1. r \notin tasks
        BY <3>2, NewCall DEF Indexing, On
      <4>2. calls'[r] = calls[r]
        BY <4>1, OldCall
      <4>3. Indexing(r, d)'
        BY <1>1, <3>2, <4>2 DEF Indexing, On
      <4> QED BY <4>3 DEF Queued
    <3> QED BY <1>1, <3>1, <3>2 DEF Queued
  <2>3. ASSUME NEW r \in Processes
        PROVE  Removable(calls[r])'
    <3>1. Removable(calls[r])
      BY <2>1 DEF ProvenanceInv, QueueInv
    <3>2. CASE r \in tasks
      BY <1>3, <3>2 DEF Removable
    <3>3. CASE r \notin tasks
      BY <1>1, <3>1, <3>3, OldCall DEF Removable
    <3> QED BY <3>2, <3>3
  <2> QED BY <2>2, <2>3
<1> QED BY <1>2, <1>4, <1>5

(* Whoever is on a document afterwards was on it, or begins on it.         *)
LEMMA OnAfterwards ==
    ASSUME ProvenanceInv, UNCHANGED store, NEW tasks, NEW op, NEW load, Begins(tasks, op, load),
           NEW p \in Processes, NEW d, On(p, d)'
    PROVE  \/ p \notin tasks /\ On(p, d)
           \/ p \in tasks /\ op # "list" /\ load[p].doc = d
BY NewCall, OldCall DEF On

(* What others were told, or wait for, of other documents.                 *)
LEMMA OthersPend ==
    ASSUME ProvenanceInv, UNCHANGED store, NEW tasks, NEW op, NEW load, Begins(tasks, op, load),
           NEW docs, op # "list" => \A p \in tasks : load[p].doc \in docs
    PROVE  /\ \A v \in told : v.doc \notin docs => Stands(v)'
           /\ \A w \in pending : \A u :
                 /\ u.tasks = w.tasks
                 /\ \A v \in u.verdicts : v \in w.verdicts /\ v.doc \notin docs
                 => Pends(u)'
<1>1. \A v : Holds(v)' <=> Holds(v)
  BY NewlyDisturbed DEF Holds
<1>2. ASSUME NEW v \in told, v.doc \notin docs
      PROVE  Stands(v)'
  BY <1>1, <1>2, OnAfterwards DEF ProvenanceInv, ToldInv, Stands
<1>3. ASSUME NEW w \in pending, NEW u, u.tasks = w.tasks,
             \A v \in u.verdicts : v \in w.verdicts /\ v.doc \notin docs
      PROVE  Pends(u)'
  <2>1. Pends(w)
    BY DEF ProvenanceInv, ToldInv
  <2>2. \A p \in w.tasks : p \in Processes \ tasks /\ calls'[p] = calls[p]
    BY <2>1, NewCall, OldCall DEF Pends
  <2>3. \A p \in Processes : \A d : p \notin tasks => (On(p, d)' <=> On(p, d))
    BY OldCall DEF On
  <2>4. ASSUME NEW v \in u.verdicts
        PROVE  /\ \A p \in Processes : On(p, v.doc)' =>
                    /\ p \in u.tasks
                    /\ calls'[p].content = v.content /\ calls'[p].decision = v.decision
               /\ Holds(v)' \/ \E p \in u.tasks : On(p, v.doc)' /\ calls'[p].next # "zadd"
    <3>1. v \in w.verdicts /\ v.doc \notin docs
      BY <1>3
    <3>2. ASSUME NEW p \in Processes, On(p, v.doc)'
          PROVE  /\ p \in u.tasks
                 /\ calls'[p].content = v.content /\ calls'[p].decision = v.decision
      <4>1. On(p, v.doc)
        BY <3>1, <3>2, OnAfterwards
      <4> QED BY <1>3, <2>1, <2>2, <3>1, <4>1 DEF Pends
    <3>3. Holds(v)' \/ \E p \in u.tasks : On(p, v.doc)' /\ calls'[p].next # "zadd"
      BY <1>1, <1>3, <2>1, <2>2, <2>3, <3>1 DEF Pends
    <3> QED BY <3>2, <3>3
  <2> QED BY <1>3, <2>1, <2>2, <2>4 DEF Pends
<1> QED BY <1>2, <1>3

Reduced(w, docs) == [w EXCEPT !.verdicts = Alone(@, docs)]

(* A caller that waits for less, because a later caller writes the same    *)
(* document, waits all the same.                                           *)
LEMMA ReducedWaiting ==
    ASSUME NEW w \in Waiting, NEW docs
    PROVE  /\ Reduced(w, docs) \in Waiting /\ Reduced(w, docs).tasks = w.tasks
           /\ \A v \in Reduced(w, docs).verdicts : v \in w.verdicts /\ v.doc \notin docs
BY DEF Waiting, Alone, Reduced

(* ... and what it still waits for is still pending.                       *)
LEMMA ReducedPend ==
    ASSUME ProvenanceInv, UNCHANGED store, NEW tasks, NEW op, NEW load, Begins(tasks, op, load),
           NEW docs, op # "list" => \A p \in tasks : load[p].doc \in docs,
           NEW w \in pending, NEW u, u = Reduced(w, docs)
    PROVE  u \in Waiting /\ Pends(u)'
<1>1. w \in Waiting
  BY DEF ProvenanceInv, TypeInv
<1>2. /\ u \in Waiting /\ u.tasks = w.tasks
      /\ \A v \in u.verdicts : v \in w.verdicts /\ v.doc \notin docs
  BY <1>1, ReducedWaiting
<1> QED BY <1>2, OthersPend

(* A delete or a decision begins: what was told of the document ends.      *)
LEMMA StepOperating ==
    ASSUME ProvenanceInv, UNCHANGED store, NEW p \in Processes, NEW op \in {"decide", "delete"},
           NEW d \in Docs, NEW x \in Decisions \cup {None}, op # "delete" => x # None,
           Operating(p, op, d, x)
    PROVE  ProvenanceInv'
<1> PICK load : load = [q \in {p} |-> Load(d, None, x)]
  OBVIOUS
<1>1. /\ Starting({p}, op, load)
      /\ pending' = {[w EXCEPT !.verdicts = Alone(@, {d})] : w \in pending}
      /\ told' = {v \in told : v.doc \notin {d}}
  BY DEF Operating, Forget
<1>2. Load(d, None, x) \in Loads /\ Load(d, None, x).doc = d /\ Load(d, None, x).decision = x
  BY DEF Load, Loads
<1>3. Begins({p}, op, load)
  BY <1>1, <1>2 DEF Begins, Operations
<1>4. \A q \in {p} : load[q].doc \in {d}
  BY <1>2
<1>5. pending \subseteq Waiting /\ told \subseteq Verdicts
  BY DEF ProvenanceInv, TypeInv
<1>6. \A w \in pending' : w \in Waiting /\ Pends(w)'
  <2> SUFFICES ASSUME NEW u \in pending'
               PROVE  u \in Waiting /\ Pends(u)'
    OBVIOUS
  <2>1. PICK w \in pending : u = Reduced(w, {d})
    BY <1>1, Zenon DEF Reduced
  <2> QED BY <1>3, <1>4, <2>1, ReducedPend
<1>7. \A v \in told' : v \in Verdicts /\ Stands(v)'
  BY <1>1, <1>3, <1>4, <1>5, OthersPend
<1>8. TypeInv' /\ CallsInv' /\ ToldInv'
  BY <1>3, <1>6, <1>7, TypesBegin DEF ToldInv
<1> QED BY <1>3, <1>8, MeetBegin, RecordsBegin DEF ProvenanceInv

(* The listing of a review queue begins.                                   *)
LEMMA StepReviewQueue ==
    ASSUME ProvenanceInv, UNCHANGED store, NEW p \in Processes, BeginReviewQueue(p)
    PROVE  ProvenanceInv'
<1> PICK d \in Docs : d = CHOOSE e \in Docs : TRUE
  BY ProvenanceAssumption
<1> PICK load : load = [q \in {p} |-> Load(d, None, "quarantine")]
  OBVIOUS
<1>1. Starting({p}, "list", load) /\ UNCHANGED <<pending, told>>
  BY DEF BeginReviewQueue
<1>2. /\ Load(d, None, "quarantine") \in Loads
      /\ Load(d, None, "quarantine").decision # None
  BY ProvenanceAssumption DEF Load, Loads, Decisions
<1>3. Begins({p}, "list", load)
  BY <1>1, <1>2 DEF Begins, Operations
<1>4. ToldInv'
  <2>1. PICK docs : docs = {}
    OBVIOUS
  <2>2. /\ \A v \in told : v.doc \notin docs => Stands(v)'
        /\ \A w \in pending : \A u :
              /\ u.tasks = w.tasks
              /\ \A v \in u.verdicts : v \in w.verdicts /\ v.doc \notin docs
              => Pends(u)'
    BY <1>3, OthersPend
  <2>3. \A w \in pending : Pends(w)'
    BY <2>1, <2>2
  <2> QED BY <1>1, <2>1, <2>2, <2>3 DEF ToldInv
<1>5. TypeInv' /\ CallsInv'
  BY <1>1, <1>3, TypesBegin DEF ProvenanceInv, TypeInv
<1> QED BY <1>3, <1>4, <1>5, MeetBegin, RecordsBegin DEF ProvenanceInv

(* The tasks that record a document; they may be one.                      *)
TasksFor(tasks, load, d) == {p \in tasks : load[p].doc = d}

(* If a batch has one task for a document, two tasks for it are the same.  *)
LEMMA OnlyTask ==
    ASSUME NEW tasks \in SUBSET Processes, NEW load, NEW d,
           ~(Cardinality(TasksFor(tasks, load, d)) > 1),
           NEW p \in tasks, NEW r \in tasks, load[p].doc = d, load[r].doc = d
    PROVE  p = r
<1> DEFINE S == TasksFor(tasks, load, d)
<1>0. S \in SUBSET Processes /\ p \in S /\ r \in S
  BY DEF TasksFor
<1> HIDE DEF S
<1>1. IsFiniteSet(S)
  BY <1>0, ProvenanceAssumption, FS_Subset
<1>2. Cardinality(S) \in Nat /\ Cardinality(S) # 0
  BY <1>0, <1>1, FS_CardinalityType, FS_EmptySet
<1>3. Cardinality(S) = 1
  BY <1>2 DEF S
<1>4. PICK x : S = {x}
  BY <1>1, <1>3, FS_Singleton
<1> QED BY <1>0, <1>4

(* Ingests begin, one for each task of a caller.                           *)
LEMMA StepRecording ==
    ASSUME ProvenanceInv, UNCHANGED store, NEW tasks \in SUBSET Processes, tasks # {},
           NEW load \in [tasks -> Verdicts], Recording(tasks, load)
    PROVE  ProvenanceInv'
<1> PICK docs : docs = {load[p].doc : p \in tasks}
  OBVIOUS
<1> PICK twice : twice = {d \in docs : Cardinality({p \in tasks : load[p].doc = d}) > 1}
  OBVIOUS
<1> PICK verdicts : verdicts = Alone({load[p] : p \in tasks}, Busy \cup twice \cup disturbed)
  OBVIOUS
<1> PICK waiting : waiting = [tasks |-> tasks, verdicts |-> verdicts]
  OBVIOUS
<1>1. /\ Starting(tasks, "ingest", load)
      /\ pending' = {waiting} \cup {Reduced(w, docs) : w \in pending}
      /\ told' = {v \in told : v.doc \notin docs}
  BY DEF Recording, Forget, Reduced
<1>2. \A p \in tasks : /\ load[p] \in Verdicts /\ load[p] \in Loads /\ load[p].doc \in docs
                       /\ load[p].content # None /\ load[p].decision # None
  BY ProvenanceAssumption DEF Verdicts, Loads
<1>3. Begins(tasks, "ingest", load)
  BY <1>1, <1>2 DEF Begins, Operations
<1>4. pending \subseteq Waiting /\ told \subseteq Verdicts
  BY DEF ProvenanceInv, TypeInv
<1>5. \A v \in verdicts : /\ v \in Verdicts /\ v.doc \notin Busy /\ v.doc \notin twice
                          /\ \E p \in tasks : v = load[p]
  BY <1>2 DEF Alone
<1>6. waiting \in Waiting /\ waiting.tasks = tasks /\ waiting.verdicts = verdicts
  BY <1>5 DEF Waiting
<1>7. Pends(waiting)'
  <2>1. \A p \in tasks : p \in Processes /\ calls'[p] # Idle /\ calls'[p].op = "ingest"
    BY <1>3, NewCall
  <2>2. ASSUME NEW v \in verdicts
        PROVE  /\ \A r \in Processes : On(r, v.doc)' =>
                     /\ r \in tasks
                     /\ calls'[r].content = v.content /\ calls'[r].decision = v.decision
               /\ \E p \in tasks : On(p, v.doc)' /\ calls'[p].next # "zadd"
    <3>1. PICK p \in tasks : v = load[p]
      BY <1>5
    <3>2. /\ calls'[p].doc = v.doc /\ calls'[p].content = v.content
          /\ calls'[p].decision = v.decision /\ calls'[p].next # "zadd"
      BY <1>3, <3>1, NewCall
    <3>3. On(p, v.doc)'
      BY <2>1, <3>2 DEF On
    <3>4. ASSUME NEW r \in Processes, On(r, v.doc)'
          PROVE  r = p
      <4>1. r \in tasks /\ load[r].doc = v.doc
        <5>1. ~On(r, v.doc)
          BY <1>5 DEF On, Busy
        <5> QED BY <1>3, <3>4, <5>1, OnAfterwards
      <4>2. ~(Cardinality(TasksFor(tasks, load, v.doc)) > 1)
        BY <1>2, <1>5, <3>1 DEF TasksFor
      <4>3. load[p].doc = v.doc
        BY <3>1
      <4> QED BY <4>1, <4>2, <4>3, OnlyTask
    <3> QED BY <3>2, <3>3, <3>4
  <2> QED BY <1>6, <2>1, <2>2 DEF Pends
<1>8. \A w \in pending' : w \in Waiting /\ Pends(w)'
  <2> SUFFICES ASSUME NEW u \in pending'
               PROVE  u \in Waiting /\ Pends(u)'
    OBVIOUS
  <2>1. CASE u = waiting
    BY <1>6, <1>7, <2>1
  <2>2. CASE \E w \in pending : u = Reduced(w, docs)
    BY <1>2, <1>3, <2>2, ReducedPend
  <2> QED BY <1>1, <2>1, <2>2
<1>9. \A v \in told' : v \in Verdicts /\ Stands(v)'
  BY <1>1, <1>2, <1>3, <1>4, OthersPend
<1>10. TypeInv' /\ CallsInv' /\ ToldInv'
  BY <1>3, <1>8, <1>9, TypesBegin DEF ToldInv
<1> QED BY <1>3, <1>10, MeetBegin, RecordsBegin DEF ProvenanceInv

(* What an ingest records is a decision, for each content and tier.        *)
LEMMA RecordedIsDecision ==
    ASSUME NEW c \in Contents, NEW trust \in Tiers
    PROVE  Recorded[c][trust] \in Decisions
<1>1. Evaluate(Text[c], trust) \in Decisions
  BY Zenon DEF Evaluate, Decisions
<1>2. Recorded[c][trust] = IF Shadow THEN "accept" ELSE Evaluate(Text[c], trust)
  BY DEF Recorded
<1> QED BY <1>1, <1>2 DEF Decisions

(* What a task carries is a verdict on a document.                         *)
LEMMA LoadIsVerdict ==
    ASSUME NEW d \in Docs, NEW c \in Contents, NEW x \in Decisions
    PROVE  Load(d, c, x) \in Verdicts
BY DEF Load, Verdicts

(* At first nothing is recorded.                                           *)
LEMMA InitProvenance == Init => ProvenanceInv
<1> SUFFICES ASSUME Init
             PROVE  ProvenanceInv
  OBVIOUS
<1>1. TypeInv
  BY ProvenanceAssumption DEF Init, TypeInv, HashType, NoHash
<1>2. CallsInv /\ MeetInv /\ AllowedInv /\ WholeInv
  BY DEF Init, CallsInv, CallOK, MeetInv, AllowedInv, WholeInv, NoHash
<1>3. QueueInv /\ ToldInv
  BY DEF Init, QueueInv, Queued, Removable, ToldInv, NoHash
<1> QED BY <1>1, <1>2, <1>3 DEF ProvenanceInv

(* Each action keeps the invariant.                                        *)
LEMMA StepProvenance == ProvenanceInv /\ [Next]_vars => ProvenanceInv'
<1> SUFFICES ASSUME ProvenanceInv, [Next]_vars
             PROVE  ProvenanceInv'
  OBVIOUS
<1>1. CASE UNCHANGED vars
  <2>1. UNCHANGED <<store, hashes, index, calls, pending, told, verified, allowed, disturbed>>
    BY <1>1 DEF vars, callVars
  <2>2. TypeInv' /\ CallsInv' /\ MeetInv' /\ AllowedInv' /\ WholeInv'
    BY <2>1 DEF ProvenanceInv, TypeInv, CallsInv, MeetInv, AllowedInv, WholeInv
  <2>3. QueueInv' /\ ToldInv'
    BY <2>1 DEF ProvenanceInv, QueueInv, Queued, Indexing, On, Removable, ToldInv, Stands, Pends,
                Holds
  <2> QED BY <2>2, <2>3 DEF ProvenanceInv
<1>2. CASE Next
  <2>0. UNCHANGED store
    BY <1>2 DEF Next
  <2>1. ASSUME NEW p \in Processes, NEW d \in Docs, NEW c \in Contents, NEW trust \in Tiers,
               BeginIngest(p, d, c, trust)
        PROVE  ProvenanceInv'
    <3>1. PICK load : load = [q \in {p} |-> Load(d, c, Recorded[c][trust])]
      OBVIOUS
    <3>2. Recording({p}, load)
      BY <2>1, <3>1 DEF BeginIngest
    <3>3. load \in [{p} -> Verdicts]
      BY <3>1, RecordedIsDecision, LoadIsVerdict
    <3> QED BY <2>0, <3>2, <3>3, StepRecording
  <2>2. ASSUME NEW p \in Processes, NEW d \in Docs, NEW x \in {"accept", "reject"},
               BeginDecide(p, d, x)
        PROVE  ProvenanceInv'
    <3>1. x \in Decisions \cup {None} /\ x # None
      BY ProvenanceAssumption DEF Decisions
    <3> QED BY <2>0, <2>2, <3>1, StepOperating DEF BeginDecide
  <2>3. ASSUME NEW p \in Processes, NEW d \in Docs, BeginDelete(p, d)
        PROVE  ProvenanceInv'
    BY <2>0, <2>3, StepOperating DEF BeginDelete
  <2>4. ASSUME NEW tasks \in (SUBSET Processes) \ {{}}, NEW trust \in Tiers,
               NEW docs \in [tasks -> Docs], NEW contents \in [tasks -> Contents],
               BeginBatch(tasks, docs, contents, trust)
        PROVE  ProvenanceInv'
    <3>1. PICK load : load = [p \in tasks |->
                                Load(docs[p], contents[p], Recorded[contents[p]][trust])]
      OBVIOUS
    <3>2. Recording(tasks, load)
      BY <2>4, <3>1 DEF BeginBatch
    <3>3. load \in [tasks -> Verdicts]
      <4>1. \A p \in tasks : load[p] \in Verdicts
        BY <3>1, RecordedIsDecision, LoadIsVerdict
      <4> QED BY <3>1, <4>1
    <3>4. tasks \in SUBSET Processes /\ tasks # {}
      OBVIOUS
    <3> QED BY <2>0, <3>2, <3>3, <3>4, StepRecording
  <2>5. ASSUME NEW p \in Processes,
               \/ BeginReviewQueue(p) \/ AtomicStep(p) \/ ReadOld(p) \/ SetHash(p)
               \/ DeleteHash(p) \/ RemoveFromIndex(p) \/ AddToIndex(p) \/ ReadIndex(p)
               \/ ReadListed(p) \/ RemoveGhost(p) \/ Cut(p)
        PROVE  ProvenanceInv'
    BY <2>0, <2>5, StepReviewQueue, StepAtomic, StepReadOld, StepSetHash, StepDeleteHash,
       StepRemoveFromIndex, StepAddToIndex, StepReadIndex, StepReadListed, StepRemoveGhost, StepCut
  <2>6. ASSUME NEW d \in Docs, NEW c \in Contents, VerifyRetrieved(d, c)
        PROVE  ProvenanceInv'
    BY <2>0, <2>6, StepVerifyRetrieved
  <2> QED BY <1>2, <2>1, <2>2, <2>3, <2>4, <2>5, <2>6, Zenon DEF Next
<1> QED BY <1>1, <1>2

(* What ingests, reviews, deletions, listings and failures leave behind,   *)
(* at every moment: the records, the index and the verdicts told, and what *)
(* those under way are still to do.                                        *)
THEOREM ProvenanceInvariant == Spec => []ProvenanceInv
<1>1. ProvenanceInv /\ [Next]_vars => ProvenanceInv'
  BY StepProvenance
<1> QED BY InitProvenance, <1>1, PTL DEF Spec

(* verify_retrieved says "verified" only of a content that the thresholds  *)
(* accepted under that id, or whose record an approval was written over.   *)
THEOREM VerifiedWasAccepted == Spec => []VerifiedWasAllowed
<1>1. ProvenanceInv => VerifiedWasAllowed
  BY DEF ProvenanceInv, AllowedInv, VerifiedWasAllowed
<1> QED BY ProvenanceInvariant, <1>1, PTL

(* No record is left half written, unless on Redis, and there only where   *)
(* operations other than ingests met, or one was cut.                      *)
THEOREM NoHalfRecords == Spec => []RecordsAreWhole
<1>1. ProvenanceInv => RecordsAreWhole
  BY DEF ProvenanceInv, TypeInv, WholeInv, RecordsAreWhole
<1> QED BY ProvenanceInvariant, <1>1, PTL

(* However ingests race, a document nobody is at work on is listed under   *)
(* the decision that its record holds.                                     *)
THEOREM QueueMatchesRecords == Spec => []QueueIsComplete
<1>1. ProvenanceInv => QueueIsComplete
  BY DEF ProvenanceInv, QueueInv, Queued, Indexing, On, Quiet, QueueIsComplete
<1> QED BY ProvenanceInvariant, <1>1, PTL

(* What an ingest, or a batch, told its caller is what retrieval is judged *)
(* by until another operation on the document begins.                      *)
THEOREM ToldVerdictsStand == Spec => []ToldIsRecorded
<1>1. ProvenanceInv => ToldIsRecorded
  BY DEF ProvenanceInv, ToldInv, Stands, Holds, ToldIsRecorded
<1> QED BY ProvenanceInvariant, <1>1, PTL
=============================================================================
