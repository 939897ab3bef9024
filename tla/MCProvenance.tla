---------------------------- MODULE MCProvenance ----------------------------
(***************************************************************************)
(* Small instances of Provenance: a text with one phrase, accepted from a  *)
(* trusted source and quarantined from another; a text with a beacon,      *)
(* quarantined and rejected; and one document over Redis, whose operations *)
(* take more steps.                                                        *)
(***************************************************************************)
EXTENDS Provenance, Functions, TLC

CONSTANTS d1, phrased, beacon,
    MaxAtomic, MaxOnRedis   \* bounds: operations begun by all processes together

Clean == [oversized |-> FALSE, visible |-> {}, hidden |-> <<>>, encoded |-> <<>>,
          bidi |-> FALSE, folded |-> FALSE, urls |-> {}]

Beacon == [scheme |-> "plain", host |-> "other", credentials |-> FALSE, query |-> "short",
           fragment |-> FALSE, payload |-> FALSE, fetched |-> TRUE]

Texts == [c \in Contents |->
    IF c = phrased THEN [Clean EXCEPT !.visible = {[name |-> "ignore_previous", language |-> "en"]}]
                   ELSE [Clean EXCEPT !.urls = {Beacon}]]

(* DEFAULT_THRESHOLDS, less the middle one.                                *)
DefaultQuarantine == [trusted |-> 75, untrusted |-> 25]

DefaultReject == [trusted |-> 95, untrusted |-> 60]

OnRedis == \A p \in Processes : calls[p] # Idle => calls[p].op = "list" \/ calls[p].doc = d1

Total == FoldFunction(LAMBDA m, n : m + n, 0, begun)

Bound == IF store = "redis" THEN MaxOnRedis ELSE MaxAtomic

MCNext == Next /\ (store = "redis" => OnRedis') /\ Total' <= Bound

MCSpec == Init /\ [][MCNext]_vars

Symmetry == Permutations(Processes)
=============================================================================
