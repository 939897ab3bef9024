------------------------- MODULE SlidingWindow_proofs -------------------------
(* What TLC checks of SlidingWindow on small instances, proved for every   *)
(* value of its constants: any number of keys and callers, any budget,     *)
(* window and timeout.                                                     *)
EXTENDS SlidingWindow, FiniteSetTheorems, TLAPS

Layouts == {"plain", "tagged"}

Event == [layout : Layouts, at : Nat, by : Processes, seq : Nat]

Counting == [pc : {"count"}, key : Keys, at : Nat]

(* A caller knows the layout of its keys; there is one where the store is  *)
(* not Redis.                                                              *)
TypeInv ==
    /\ store \in {"memory", "redis", "sql"}
    /\ layout \in [Processes -> Layouts \cup {"unknown"}]
    /\ store # "redis" => \A p \in Processes : layout[p] = "plain"
    /\ now \in Nat
    /\ events \in [Keys -> SUBSET Event]
    /\ anchors \in [Keys -> Nat]
    /\ calls \in [Processes -> {Idle} \cup Counting]
    /\ \A p \in Processes : calls[p] # Idle => /\ layout[p] # "unknown"
                                               /\ calls[p].at <= now
    /\ checks \in [Processes -> Nat]
    /\ admitted \in [Keys -> SUBSET Event]
    /\ \A k \in Keys : \A e \in admitted[k] : /\ e.at <= now
                                              /\ store # "redis" => e.layout = "plain"

FiniteInv == \A k \in Keys : IsFiniteSet(events[k]) /\ IsFiniteSet(admitted[k])

(* Young enough for a check to have to count it.                           *)
Recent(e) == e.at > now - Window + SetBack

(* What is recent is remembered, and in SQL the anchor it lives under is   *)
(* no earlier than the last call that read its clock could set it.         *)
RememberedInv ==
    \A k \in Keys : \A e \in admitted[k] : Recent(e) =>
        /\ e \in events[k]
        /\ store = "sql" => anchors[k] + Timeout >= e.at + Window

WindowInv == TypeInv /\ FiniteInv /\ RememberedInv

----------------------------------------------------------------------------
(* In SQL the anchor of a recent event has not expired by any clock read.  *)
LEMMA RecentIsAnchored ==
    ASSUME WindowInv, store = "sql", NEW k \in Keys, NEW e \in admitted[k], Recent(e)
    PROVE  anchors[k] >= now
<1>1. /\ e.at \in Nat /\ now \in Nat /\ anchors[k] \in Nat /\ Window \in Nat /\ Timeout \in Nat
      /\ anchors[k] + Timeout >= e.at + Window
  BY WindowAssumption DEF WindowInv, TypeInv, RememberedInv, Event
<1> QED BY <1>1 DEF Recent, SetBack

(* A call that is not idle counts for a key, and knows the layout.         *)
LEMMA CountingCall ==
    ASSUME TypeInv, NEW p \in Processes, calls[p] # Idle
    PROVE  /\ calls[p].key \in Keys /\ calls[p].at \in Nat /\ calls[p].at <= now
           /\ layout[p] \in Layouts /\ ThisEvent(p) \in Event
           /\ ThisEvent(p).layout = layout[p] /\ ThisEvent(p).at = calls[p].at
<1>1. calls[p] \in Counting
  BY DEF TypeInv
<1> QED BY <1>1 DEF TypeInv, Counting, Event, ThisEvent

(* A call within its timeout records its event and forgets no recent one.  *)
LEMMA RecordRemembers ==
    ASSUME WindowInv, NEW p \in Processes, calls[p] # Idle, InTime(p), Record(p)
    PROVE  /\ events' \in [Keys -> SUBSET Event] /\ anchors' \in [Keys -> Nat]
           /\ \A k \in Keys : IsFiniteSet(events'[k])
           /\ ThisEvent(p) \in events'[calls[p].key]
           /\ \A k \in Keys : \A e \in admitted[k] : Recent(e) =>
                 /\ e \in events'[k]
                 /\ store = "sql" => anchors'[k] + Timeout >= e.at + Window
           /\ store = "sql" =>
                 anchors'[calls[p].key] + Timeout >= ThisEvent(p).at + Window
<1> DEFINE k == calls[p].key
<1> USE WindowAssumption
<1>1. /\ k \in Keys /\ calls[p].at \in Nat /\ calls[p].at <= now /\ now \in Nat
      /\ layout[p] \in Layouts /\ ThisEvent(p) \in Event /\ ThisEvent(p).at = calls[p].at
  BY CountingCall DEF WindowInv, TypeInv
<1>2. /\ events' = [events EXCEPT ![k] = Slid(p, k)]
      /\ anchors' = [anchors EXCEPT ![k] = IF store = "sql" THEN calls[p].at + Window ELSE @]
  BY DEF Record
<1>3. Slid(p, k) \subseteq events[k] \cup {ThisEvent(p)} /\ ThisEvent(p) \in Slid(p, k)
  BY DEF Slid
<1>4. events' \in [Keys -> SUBSET Event] /\ anchors' \in [Keys -> Nat]
  <2>1. Slid(p, k) \subseteq Event
    BY <1>1, <1>3 DEF WindowInv, TypeInv
  <2> QED BY <1>1, <1>2, <2>1 DEF WindowInv, TypeInv
<1>5. \A j \in Keys : IsFiniteSet(events'[j])
  <2>1. IsFiniteSet(events[k] \cup {ThisEvent(p)})
    BY <1>1, FS_AddElement DEF WindowInv, FiniteInv
  <2>2. IsFiniteSet(Slid(p, k))
    BY <1>3, <2>1, FS_Subset
  <2> QED BY <1>1, <1>2, <2>2 DEF WindowInv, TypeInv, FiniteInv
<1>6. ASSUME NEW e \in admitted[k], Recent(e)
      PROVE  e \in Slid(p, k) /\ (store = "sql" => calls[p].at + Window + Timeout >= e.at + Window)
  <2>1. e.at \in Nat /\ e.at <= now /\ e \in events[k] /\ SetBack \in Nat
    BY <1>1, <1>6 DEF WindowInv, TypeInv, RememberedInv, Event, SetBack
  <2>2. e.at > calls[p].at - Window
    BY <1>1, <1>6, <2>1 DEF Recent
  <2>3. store = "sql" => now <= calls[p].at + Timeout
    BY DEF InTime
  <2> QED BY <1>1, <2>1, <2>2, <2>3 DEF Slid
<1>7. \A j \in Keys : \A e \in admitted[j] : Recent(e) =>
          /\ e \in events'[j]
          /\ store = "sql" => anchors'[j] + Timeout >= e.at + Window
  <2> SUFFICES ASSUME NEW j \in Keys, NEW e \in admitted[j], Recent(e)
               PROVE  /\ e \in events'[j]
                      /\ store = "sql" => anchors'[j] + Timeout >= e.at + Window
    OBVIOUS
  <2>1. CASE j = k
    BY <1>1, <1>2, <1>6, <2>1 DEF WindowInv, TypeInv
  <2>2. CASE j # k
    BY <1>2, <2>2 DEF WindowInv, TypeInv, RememberedInv
  <2> QED BY <2>1, <2>2
<1>8. ThisEvent(p) \in events'[k] /\
      (store = "sql" => anchors'[k] + Timeout >= ThisEvent(p).at + Window)
  BY <1>1, <1>2, <1>3 DEF WindowInv, TypeInv
<1> QED BY <1>4, <1>5, <1>7, <1>8

(* The events of one layout are some of them.                              *)
LEMMA UnderIsSubset ==
    ASSUME NEW l, NEW E
    PROVE  Under(l, E) \subseteq E /\ (\A e \in Under(l, E) : e.layout = l)
  BY DEF Under

(* Count: the one step that admits.                                        *)
Admits(p) ==
    admitted' = [admitted EXCEPT ![calls[p].key] = @ \cup {ThisEvent(p)}]

(* A check admits only what fits the budget as it was counted.             *)
LEMMA CountAdmits ==
    ASSUME TypeInv, NEW p \in Processes, Count(p)
    PROVE  \/ admitted' = admitted
           \/ Admits(p) /\ ~(Cardinality(Under(layout[p], events'[calls[p].key])) > Budget)
<1>1. CASE Cardinality(Under(layout[p], events'[calls[p].key])) > Budget
  BY <1>1 DEF Count, TypeInv
<1>2. CASE ~(Cardinality(Under(layout[p], events'[calls[p].key])) > Budget)
  BY <1>2 DEF Count, Admits
<1> QED BY <1>1, <1>2

(* The steps that add nothing to what was admitted, and let time stand.    *)
LEMMA Forgetting ==
    ASSUME WindowInv,
           UNCHANGED <<store, now>>,
           events' \in [Keys -> SUBSET Event], \A k \in Keys : IsFiniteSet(events'[k]),
           admitted' \in [Keys -> SUBSET Event],
           \A k \in Keys : admitted'[k] \subseteq admitted[k],
           \A k \in Keys : \A e \in admitted'[k] : Recent(e) =>
               /\ e \in events'[k]
               /\ store = "sql" => anchors'[k] + Timeout >= e.at + Window
    PROVE  /\ FiniteInv' /\ RememberedInv'
           /\ \A k \in Keys : \A e \in admitted'[k] : /\ e.at <= now'
                                                      /\ store' # "redis" => e.layout = "plain"
<1>1. \A k \in Keys : IsFiniteSet(admitted'[k])
  BY FS_Subset DEF WindowInv, FiniteInv
<1>2. FiniteInv'
  BY <1>1 DEF FiniteInv
<1>3. RememberedInv'
  BY DEF RememberedInv, Recent, SetBack
<1> QED BY <1>2, <1>3 DEF WindowInv, TypeInv

(* At start nothing is stored and nothing was admitted.                    *)
LEMMA InitWindowInv == Init => WindowInv
<1> SUFFICES ASSUME Init PROVE WindowInv
  OBVIOUS
<1>1. TypeInv
  BY WindowAssumption DEF Init, TypeInv, Layouts
<1>2. FiniteInv
  BY FS_EmptySet DEF Init, FiniteInv
<1>3. RememberedInv
  BY DEF Init, RememberedInv
<1> QED BY <1>1, <1>2, <1>3 DEF WindowInv

(* No check, reset, eviction, cleanup or restart forgets a recent event.   *)
LEMMA StepWindowInv == WindowInv /\ [Next]_vars => WindowInv'
<1> SUFFICES ASSUME WindowInv, [Next]_vars
             PROVE  WindowInv'
  OBVIOUS
<1> USE WindowAssumption
<1>1. TypeInv /\ now \in Nat
  BY DEF WindowInv, TypeInv
<1>2. ASSUME NEW p \in Processes, Detect(p), UNCHANGED store
      PROVE  WindowInv'
  <2>1. TypeInv'
    BY <1>1, <1>2 DEF Detect, TypeInv, Layouts
  <2> QED BY <1>2, <2>1 DEF Detect, WindowInv, FiniteInv, RememberedInv, Recent, SetBack
<1>3. ASSUME NEW p \in Processes, Restart(p), UNCHANGED store
      PROVE  WindowInv'
  <2>1. TypeInv'
    BY <1>1, <1>3 DEF Restart, TypeInv
  <2> QED BY <1>3, <2>1 DEF Restart, WindowInv, FiniteInv, RememberedInv, Recent, SetBack
<1>4. ASSUME NEW p \in Processes, NEW k \in Keys, Begin(p, k), UNCHANGED store
      PROVE  WindowInv'
  <2>1. TypeInv'
    <3>1. calls' \in [Processes -> {Idle} \cup Counting]
      BY <1>1, <1>4 DEF Begin, TypeInv, Counting
    <3>2. \A q \in Processes : calls'[q] # Idle => /\ layout[q] # "unknown"
                                                   /\ calls'[q].at <= now
      BY <1>1, <1>4 DEF Begin, TypeInv
    <3> QED BY <1>1, <1>4, <3>1, <3>2 DEF Begin, TypeInv
  <2> QED BY <1>4, <2>1 DEF Begin, WindowInv, FiniteInv, RememberedInv, Recent, SetBack
<1>5. ASSUME NEW p \in Processes, Count(p), UNCHANGED store
      PROVE  WindowInv'
  <2> DEFINE k == calls[p].key
             f == ThisEvent(p)
  <2>1. /\ calls[p] # Idle /\ InTime(p) /\ Record(p)
        /\ calls' = [calls EXCEPT ![p] = Idle]
        /\ UNCHANGED <<layout, now, checks>>
    BY <1>5 DEF Count
  <2>2. /\ k \in Keys /\ f \in Event /\ f.at <= now
        /\ store # "redis" => f.layout = "plain"
    BY <1>1, <2>1, CountingCall DEF TypeInv
  <2>3. /\ events' \in [Keys -> SUBSET Event] /\ anchors' \in [Keys -> Nat]
        /\ \A j \in Keys : IsFiniteSet(events'[j])
        /\ f \in events'[k]
        /\ \A j \in Keys : \A e \in admitted[j] : Recent(e) =>
              /\ e \in events'[j]
              /\ store = "sql" => anchors'[j] + Timeout >= e.at + Window
        /\ store = "sql" => anchors'[k] + Timeout >= f.at + Window
    BY <2>1, RecordRemembers
  <2> HIDE DEF f
  <2>4. \/ admitted' = admitted
        \/ admitted' = [admitted EXCEPT ![k] = @ \cup {f}]
    BY <1>1, <1>5, CountAdmits DEF Admits, f
  <2>5. \A j \in Keys : /\ admitted'[j] \subseteq admitted[j] \cup {f}
                        /\ j # k => admitted'[j] = admitted[j]
                        /\ IsFiniteSet(admitted'[j])
    <3>1. \A j \in Keys : IsFiniteSet(admitted[j]) /\ IsFiniteSet(admitted[j] \cup {f})
      BY FS_AddElement DEF WindowInv, FiniteInv
    <3> QED BY <1>1, <2>2, <2>4, <3>1 DEF TypeInv
  <2>6. TypeInv'
    <3>1. admitted' \in [Keys -> SUBSET Event]
      BY <1>1, <2>2, <2>4 DEF TypeInv
    <3>2. \A j \in Keys : \A e \in admitted'[j] : /\ e.at <= now
                                                  /\ store # "redis" => e.layout = "plain"
      BY <1>1, <2>2, <2>5 DEF TypeInv
    <3>3. /\ calls' \in [Processes -> {Idle} \cup Counting]
          /\ \A q \in Processes : calls'[q] # Idle => calls'[q] = calls[q]
      BY <1>1, <2>1 DEF TypeInv
    <3> QED BY <1>1, <1>5, <2>1, <2>3, <3>1, <3>2, <3>3 DEF TypeInv
  <2>7. RememberedInv'
    BY <1>5, <2>1, <2>2, <2>3, <2>5 DEF RememberedInv, Recent, SetBack
  <2> QED BY <2>3, <2>5, <2>6, <2>7 DEF WindowInv, FiniteInv
<1>6. ASSUME NEW p \in Processes, Unavailable(p), UNCHANGED store
      PROVE  WindowInv'
  <2>1. /\ calls[p] # Idle
        /\ calls' = [calls EXCEPT ![p] = Idle]
        /\ UNCHANGED <<layout, now, checks, admitted>>
    BY <1>6 DEF Unavailable
  <2>2. /\ events' \in [Keys -> SUBSET Event] /\ anchors' \in [Keys -> Nat]
        /\ \A j \in Keys : IsFiniteSet(events'[j])
        /\ \A j \in Keys : \A e \in admitted[j] : Recent(e) =>
              /\ e \in events'[j]
              /\ store = "sql" => anchors'[j] + Timeout >= e.at + Window
    <3>1. CASE UNCHANGED <<events, anchors>>
      BY <3>1 DEF WindowInv, TypeInv, FiniteInv, RememberedInv
    <3>2. CASE InTime(p) /\ Record(p)
      BY <2>1, <3>2, RecordRemembers
    <3> QED BY <1>6, <3>1, <3>2 DEF Unavailable
  <2>3. TypeInv'
    <3>1. /\ calls' \in [Processes -> {Idle} \cup Counting]
          /\ \A q \in Processes : calls'[q] # Idle => calls'[q] = calls[q]
      BY <1>1, <2>1 DEF TypeInv
    <3> QED BY <1>1, <1>6, <2>1, <2>2, <3>1 DEF TypeInv
  <2>4. FiniteInv' /\ RememberedInv'
    BY <1>1, <1>6, <2>1, <2>2, Forgetting DEF TypeInv
  <2> QED BY <2>3, <2>4 DEF WindowInv
<1>7. ASSUME NEW k \in Keys, NEW l \in Layouts, Reset(k, l), UNCHANGED store
      PROVE  WindowInv'
  <2>1. /\ events' = [events EXCEPT ![k] = @ \ Under(l, @)]
        /\ admitted' = [admitted EXCEPT ![k] = @ \ Under(l, @)]
        /\ anchors' = anchors \/ (store = "sql" /\ l = "plain" /\ anchors' = [anchors EXCEPT ![k] = 0])
        /\ UNCHANGED <<layout, now, calls, checks>>
    BY <1>7 DEF Reset
  <2>2. /\ events' \in [Keys -> SUBSET Event] /\ anchors' \in [Keys -> Nat]
        /\ admitted' \in [Keys -> SUBSET Event]
        /\ \A j \in Keys : admitted'[j] \subseteq admitted[j] /\ events'[j] \subseteq events[j]
    BY <1>1, <2>1 DEF TypeInv
  <2>3. \A j \in Keys : IsFiniteSet(events'[j])
    BY <2>2, FS_Subset DEF WindowInv, FiniteInv
  <2>4. store = "sql" /\ l = "plain" => admitted'[k] = {}
    BY <1>1, <2>1 DEF TypeInv, Under
  <2>5. ASSUME NEW j \in Keys, NEW e \in admitted'[j], Recent(e)
        PROVE  /\ e \in events'[j]
               /\ store = "sql" => anchors'[j] + Timeout >= e.at + Window
    <3>1. /\ e \in admitted[j] /\ e \in events[j]
          /\ store = "sql" => anchors[j] + Timeout >= e.at + Window
      BY <2>2, <2>5 DEF WindowInv, RememberedInv
    <3>2. e \in events'[j]
      BY <1>1, <2>1, <3>1 DEF TypeInv, Under
    <3>3. store = "sql" => anchors'[j] = anchors[j]
      BY <1>1, <2>1, <2>4 DEF TypeInv
    <3> QED BY <3>1, <3>2, <3>3
  <2>6. /\ FiniteInv' /\ RememberedInv'
        /\ \A j \in Keys : \A e \in admitted'[j] : /\ e.at <= now'
                                                   /\ store' # "redis" => e.layout = "plain"
    BY <1>7, <2>1, <2>2, <2>3, <2>5, Forgetting
  <2>7. TypeInv'
    BY <1>1, <1>7, <2>1, <2>2, <2>6 DEF TypeInv
  <2> QED BY <2>6, <2>7 DEF WindowInv
<1>8. ASSUME NEW p \in Processes, Cleanup(p), UNCHANGED store
      PROVE  WindowInv'
  <2> DEFINE expired == {k \in Keys : anchors[k] < calls[p].at}
  <2>1. /\ store = "sql" /\ calls[p] # Idle
        /\ events' = [k \in Keys |-> IF k \in expired /\ anchors[k] > 0 THEN {} ELSE events[k]]
        /\ anchors' = [k \in Keys |-> IF k \in expired THEN 0 ELSE anchors[k]]
        /\ UNCHANGED <<layout, now, calls, checks, admitted>>
    BY <1>8 DEF Cleanup
  <2>2. calls[p].at \in Nat /\ calls[p].at <= now
    BY <1>1, <2>1, CountingCall
  <2>3. /\ events' \in [Keys -> SUBSET Event] /\ anchors' \in [Keys -> Nat]
        /\ admitted' \in [Keys -> SUBSET Event]
    BY <1>1, <2>1 DEF TypeInv
  <2>4. \A j \in Keys : IsFiniteSet(events'[j])
    BY <2>1, FS_EmptySet DEF WindowInv, FiniteInv
  <2>5. ASSUME NEW j \in Keys, NEW e \in admitted[j], Recent(e)
        PROVE  /\ e \in events'[j]
               /\ anchors'[j] + Timeout >= e.at + Window
    <3>1. anchors[j] >= now /\ anchors[j] \in Nat
      BY <1>1, <2>1, <2>5, RecentIsAnchored DEF TypeInv
    <3>2. j \notin expired
      BY <1>1, <2>2, <3>1
    <3>3. e \in events[j] /\ anchors[j] + Timeout >= e.at + Window
      BY <2>1, <2>5 DEF WindowInv, RememberedInv
    <3> QED BY <2>1, <3>2, <3>3
  <2>6. FiniteInv' /\ RememberedInv'
    BY <1>8, <2>1, <2>3, <2>4, <2>5, Forgetting
  <2>7. TypeInv'
    BY <1>1, <1>8, <2>1, <2>3 DEF TypeInv
  <2> QED BY <2>6, <2>7 DEF WindowInv
<1>9. ASSUME NEW k \in Keys, NEW l \in Layouts, Evict(k, l), UNCHANGED store
      PROVE  WindowInv'
  <2>1. /\ store # "sql"
        /\ \A e \in Under(l, events[k]) : e.at <= now - Window
        /\ events' = [events EXCEPT ![k] = @ \ Under(l, events[k])]
        /\ UNCHANGED <<layout, now, anchors, calls, checks, admitted>>
    BY <1>9 DEF Evict
  <2>2. /\ events' \in [Keys -> SUBSET Event]
        /\ \A j \in Keys : events'[j] \subseteq events[j]
        /\ admitted' \in [Keys -> SUBSET Event]
    BY <1>1, <2>1 DEF TypeInv
  <2>3. \A j \in Keys : IsFiniteSet(events'[j])
    BY <2>2, FS_Subset DEF WindowInv, FiniteInv
  <2>4. ASSUME NEW j \in Keys, NEW e \in admitted[j], Recent(e)
        PROVE  e \in events'[j]
    <3>1. e \in events[j] /\ e.at \in Nat /\ SetBack \in Nat
      BY <1>1, <2>4 DEF WindowInv, TypeInv, RememberedInv, Event, SetBack
    <3>2. ~(e.at <= now - Window)
      BY <1>1, <2>4, <3>1 DEF Recent
    <3> QED BY <1>1, <2>1, <3>1, <3>2 DEF TypeInv
  <2>5. FiniteInv' /\ RememberedInv'
    BY <1>9, <2>1, <2>2, <2>3, <2>4, Forgetting
  <2>6. TypeInv'
    BY <1>1, <1>9, <2>1, <2>2 DEF TypeInv
  <2> QED BY <2>5, <2>6 DEF WindowInv
<1>10. ASSUME Tick, UNCHANGED store
       PROVE  WindowInv'
  <2>1. now' = now + 1 /\ UNCHANGED <<layout, events, anchors, calls, checks, admitted>>
    BY <1>10 DEF Tick
  <2>2. TypeInv'
    <3>1. \A p \in Processes : calls[p] # Idle => calls[p].at <= now'
      BY <1>1, <2>1, CountingCall
    <3>2. \A k \in Keys : \A e \in admitted[k] : e.at <= now'
      BY <1>1, <2>1 DEF TypeInv, Event
    <3> QED BY <1>1, <1>10, <2>1, <3>1, <3>2 DEF TypeInv
  <2>3. \A k \in Keys : \A e \in admitted[k] : Recent(e)' => Recent(e)
    BY <1>1, <1>10, <2>1 DEF Recent, SetBack, TypeInv, Event
  <2> QED BY <1>10, <2>1, <2>2, <2>3 DEF WindowInv, FiniteInv, RememberedInv
<1>11. CASE UNCHANGED vars
  BY <1>11 DEF vars, WindowInv, TypeInv, FiniteInv, RememberedInv, Recent, SetBack
<1> QED BY <1>2, <1>3, <1>4, <1>5, <1>6, <1>7, <1>8, <1>9, <1>10, <1>11 DEF Next, Layouts

(* The inductive invariant holds of every run.                             *)
THEOREM InvariantHolds == Spec => []WindowInv
  BY InitWindowInv, StepWindowInv, PTL DEF Spec

(* Nothing admitted is forgotten while a check may have to count it.       *)
THEOREM NothingRecentIsForgotten == Spec => []AdmittedAreRemembered
<1>1. WindowInv => AdmittedAreRemembered
  <2> SUFFICES ASSUME WindowInv, NEW k \in Keys,
                      NEW e \in AdmittedWithin(k, now - Window + SetBack + 1, now)
               PROVE  e \in events[k]
    BY DEF AdmittedAreRemembered
  <2>1. e \in admitted[k] /\ e.at \in now - Window + SetBack + 1 .. now
    BY DEF AdmittedWithin
  <2>2. Recent(e)
    BY <2>1, WindowAssumption DEF Recent, SetBack, WindowInv, TypeInv
  <2> QED BY <2>1, <2>2 DEF WindowInv, RememberedInv
<1> QED BY <1>1, InvariantHolds, PTL

----------------------------------------------------------------------------
(* The events the budget is about: those of one layout in one interval.    *)
Metered(k, t, l) == Under(l, AdmittedWithin(k, t, t + Window - Lag - SetBack - 1))

(* What the budget is about, event by event.                               *)
LEMMA MeteredEvents ==
    ASSUME NEW k, NEW t, NEW l, NEW e
    PROVE  e \in Metered(k, t, l) <=>
               /\ e \in admitted[k] /\ e.layout = l
               /\ e.at \in t .. t + Window - Lag - SetBack - 1
  BY DEF Metered, Under, AdmittedWithin

(* ... which is finitely many.                                             *)
LEMMA MeteredIsFinite ==
    ASSUME WindowInv, NEW k \in Keys, NEW t, NEW l
    PROVE  IsFiniteSet(Metered(k, t, l))
<1>1. IsFiniteSet(admitted[k])
  BY DEF WindowInv, FiniteInv
<1>2. Metered(k, t, l) \subseteq admitted[k]
  BY MeteredEvents
<1> QED BY <1>1, <1>2, FS_Subset

(* Fewer admitted events stay within the budget.                           *)
LEMMA FewerAreWithinBudget ==
    ASSUME NEW S, NEW T, IsFiniteSet(S), T \subseteq S, Cardinality(S) <= Budget
    PROVE  Cardinality(T) <= Budget
<1>1. /\ IsFiniteSet(T) /\ Cardinality(T) <= Cardinality(S)
      /\ Cardinality(T) \in Nat /\ Cardinality(S) \in Nat
  BY FS_Subset, FS_CardinalityType
<1> QED BY <1>1, WindowAssumption

(* A check that is admitted into an interval finds everything admitted     *)
(* into it still there: it has counted them all.                           *)
LEMMA IntervalIsCounted ==
    ASSUME WindowInv, NEW p \in Processes, calls[p] # Idle, InTime(p), Record(p),
           NEW t \in Nat, calls[p].at \in t .. t + Window - Lag - SetBack - 1
    PROVE  Metered(calls[p].key, t, layout[p]) \cup {ThisEvent(p)}
             \subseteq Under(layout[p], events'[calls[p].key])
<1> DEFINE k == calls[p].key
<1> USE WindowAssumption
<1>1. /\ TypeInv /\ k \in Keys /\ calls[p].at \in Nat /\ now \in Nat /\ calls[p].at <= now
      /\ ThisEvent(p).layout = layout[p]
  BY CountingCall DEF WindowInv, TypeInv
<1>2. /\ ThisEvent(p) \in events'[k]
      /\ \A e \in admitted[k] : Recent(e) => e \in events'[k]
  BY <1>1, RecordRemembers
<1>3. now <= calls[p].at + Lag
  BY <1>1 DEF InTime, Lag
<1>4. ASSUME NEW e \in Metered(k, t, layout[p])
      PROVE  e \in events'[k] /\ e.layout = layout[p]
  <2>1. e \in admitted[k] /\ e.layout = layout[p] /\ e.at \in Nat /\ e.at >= t
    BY <1>1, MeteredEvents DEF TypeInv, Event
  <2>2. calls[p].at <= t + Window - Lag - SetBack - 1
    OBVIOUS
  <2>3. e.at >= now - Lag - Window + Lag + SetBack + 1
    <3>1. Lag \in Nat /\ SetBack \in Nat
      BY DEF Lag, SetBack
    <3> QED BY <1>1, <1>3, <2>1, <2>2, <3>1
  <2>4. Recent(e)
    BY <1>1, <2>1, <2>3 DEF Recent, Lag, SetBack
  <2> QED BY <1>2, <2>1, <2>4
<1> QED BY <1>1, <1>2, <1>4 DEF Under

(* No step takes an interval over the budget.                              *)
LEMMA StepBudget ==
    WindowInv /\ BudgetOverEveryInterval /\ [Next]_vars => BudgetOverEveryInterval'
<1> SUFFICES ASSUME WindowInv, BudgetOverEveryInterval, [Next]_vars,
                    NEW k \in Keys, NEW t \in 1..MaxTime, NEW l \in {"plain", "tagged"}
             PROVE  Cardinality(Metered(k, t, l)') <= Budget
  BY DEF BudgetOverEveryInterval, Metered
<1>1. Cardinality(Metered(k, t, l)) <= Budget /\ IsFiniteSet(Metered(k, t, l))
  BY MeteredIsFinite DEF BudgetOverEveryInterval, Metered
<1>2. WindowInv' /\ UNCHANGED store
  BY StepWindowInv DEF Next, vars
<1>3. UNCHANGED <<Lag, SetBack>>
  BY <1>2 DEF Lag, SetBack
<1>4. \A e : e \in Metered(k, t, l)' <=>
          /\ e \in admitted'[k] /\ e.layout = l
          /\ e.at \in t .. t + Window - Lag - SetBack - 1
  BY <1>3 DEF Metered, Under, AdmittedWithin
<1>5. CASE admitted'[k] \subseteq admitted[k]
  BY <1>1, <1>4, <1>5, MeteredEvents, FewerAreWithinBudget
<1>6. ASSUME NEW p \in Processes, Count(p), ~(admitted'[k] \subseteq admitted[k])
      PROVE  Cardinality(Metered(k, t, l)') <= Budget
  <2> DEFINE f == ThisEvent(p)
             counted == Under(layout[p], events'[k])
  <2>1. /\ calls[p] # Idle /\ InTime(p) /\ Record(p) /\ TypeInv
    BY <1>6 DEF Count, WindowInv
  <2>2. /\ k = calls[p].key /\ admitted'[k] = admitted[k] \cup {f}
        /\ ~(Cardinality(counted) > Budget)
    <3>1. Admits(p) /\ ~(Cardinality(Under(layout[p], events'[calls[p].key])) > Budget)
      BY <1>6, <2>1, CountAdmits
    <3>2. k = calls[p].key
      BY <1>6, <2>1, <3>1 DEF Admits, TypeInv
    <3> QED BY <2>1, <3>1, <3>2 DEF Admits, TypeInv
  <2>3. f.layout = layout[p] /\ f.at = calls[p].at
    BY <2>1, CountingCall
  <2> HIDE DEF f
  <2>4. CASE /\ f.layout = l /\ f.at \in t .. t + Window - Lag - SetBack - 1
    <3>1. Metered(k, t, l)' = Metered(k, t, l) \cup {f}
      BY <1>4, <2>2, <2>4, MeteredEvents
    <3>2. Metered(k, t, l)' \subseteq counted
      <4>1. t \in Nat /\ calls[p].at \in t .. t + Window - Lag - SetBack - 1 /\ l = layout[p]
        BY <2>3, <2>4
      <4>2. Metered(k, t, layout[p]) \cup {f} \subseteq counted
        BY <2>1, <2>2, <4>1, IntervalIsCounted DEF f
      <4> QED BY <3>1, <4>1, <4>2
    <3>3. IsFiniteSet(counted)
      BY <1>2, FS_Subset, UnderIsSubset DEF WindowInv, FiniteInv
    <3>4. Cardinality(counted) <= Budget
      BY <2>2, <3>3, FS_CardinalityType, WindowAssumption
    <3> QED BY <3>2, <3>3, <3>4, FewerAreWithinBudget
  <2>5. CASE ~(f.layout = l /\ f.at \in t .. t + Window - Lag - SetBack - 1)
    <3>1. Metered(k, t, l)' \subseteq Metered(k, t, l)
      BY <1>4, <2>2, <2>5, MeteredEvents
    <3> QED BY <1>1, <3>1, FewerAreWithinBudget
  <2> QED BY <2>4, <2>5
<1>7. (\E p \in Processes : Count(p)) \/ admitted'[k] \subseteq admitted[k]
  <2>1. ASSUME NEW j \in Keys, NEW m \in {"plain", "tagged"}, Reset(j, m)
        PROVE  admitted'[k] \subseteq admitted[k]
    BY <2>1 DEF Reset, WindowInv, TypeInv
  <2> QED
    BY <2>1 DEF Next, vars, Detect, Restart, Begin, Unavailable, Cleanup, Evict, Tick
<1> QED BY <1>5, <1>6, <1>7

(* "N per W": no interval of the window's length, less the slack of a      *)
(* shared store, holds more admitted checks than the budget, under each    *)
(* key layout.                                                             *)
THEOREM BudgetHolds == Spec => []BudgetOverEveryInterval
<1>1. Init => BudgetOverEveryInterval
  <2> SUFFICES ASSUME Init, NEW k \in Keys, NEW t \in 1..MaxTime, NEW l \in {"plain", "tagged"}
               PROVE  Cardinality(Metered(k, t, l)) <= Budget
    BY DEF BudgetOverEveryInterval, Metered
  <2>1. Metered(k, t, l) = {}
    BY MeteredEvents DEF Init
  <2> QED BY <2>1, FS_EmptySet, WindowAssumption
<1> QED BY <1>1, InvariantHolds, StepBudget, PTL DEF Spec
=============================================================================
