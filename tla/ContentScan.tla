---------------------------- MODULE ContentScan ----------------------------
(***************************************************************************)
(* What the scans make of a text: Sanitizer.scan_text                      *)
(* (services/sanitizer.py), ExfilGuard.scan (services/exfil_guard.py) and  *)
(* the verdict IngestGuard.evaluate (services/ingest_guard.py) takes from  *)
(* the two.                                                                *)
(*                                                                         *)
(* A text is what the regular expressions find in it:                      *)
(*   oversized  it is longer than max_scan_chars                           *)
(*   visible    phrases of the pattern file, in the folded, normal form    *)
(*   hidden     for each text recovered from invisible code points, and    *)
(*   encoded    for each decoded base64 or hex block, the phrases in it    *)
(*   bidi       it has a directional override                              *)
(*   folded     it has mixed-script words                                  *)
(*   urls       its URLs, one for each construct                           *)
(* A phrase is a name of the pattern file and a language.  Scores are in   *)
(* hundredths.                                                             *)
(***************************************************************************)
EXTENDS Integers, FiniteSets
LOCAL INSTANCE SequencesExt

CONSTANTS
    HasAllowlist,     \* ExfilPolicy.allowed_hosts is not empty
    AllowRelative,    \* ExfilPolicy.allow_relative
    BlockDataUris,    \* ExfilPolicy.block_data_uris
    QuarantineAt,     \* IngestGuard.thresholds: by trust tier
    RejectAt

ASSUME ContentScanAssumption ==
    /\ HasAllowlist \in BOOLEAN /\ AllowRelative \in BOOLEAN /\ BlockDataUris \in BOOLEAN
    /\ DOMAIN QuarantineAt = DOMAIN RejectAt
    /\ \A tier \in DOMAIN RejectAt : QuarantineAt[tier] \in Nat /\ RejectAt[tier] \in Nat

Most(a, b) == IF a > b THEN a ELSE b

Least(a, b) == IF a < b THEN a ELSE b

----------------------------------------------------------------------------
(* scan_text                                                               *)

(* Text recovered from invisible characters and decoded blocks gets the    *)
(* same lexical scan as what can be read.                                  *)
Scanned(text) == <<text.visible>> \o text.hidden \o text.encoded

Matches(text) == FoldLeft(LAMBDA n, phrases : n + Cardinality(phrases), 0, Scanned(text))

Languages(text) == {phrase.language : phrase \in UNION ToSet(Scanned(text))}

(* DEFAULT_RISK_WEIGHTS.  The name added for mixed-script words comes      *)
(* after the count of matches.                                             *)
Risk(text) ==
    IF text.oversized THEN 100
    ELSE LET weigh(signal, weight) == IF signal THEN weight ELSE 0
         IN  Least(100, Least(75, 25 * Matches(text))
                        + weigh(text.encoded # <<>>, 40)
                        + weigh(text.hidden # <<>>, 40)
                        + weigh(text.bidi, 20)
                        + weigh(text.folded, 40)
                        + weigh(Cardinality(Languages(text)) > 1, 15))

----------------------------------------------------------------------------
(* _classify.  A URL:                                                      *)
(*   scheme       "plain", "denied", "data", or "malformed" if urlsplit    *)
(*                raises                                                   *)
(*   host         "listed", "other", or "none"                             *)
(*   credentials  a user name or a password                                *)
(*   query        "none", "short", or "long": over max_query_len           *)
(*   fragment     it has one                                               *)
(*   payload      a parameter, the fragment or a path segment that is long *)
(*                enough and has the shape of encoded data, or its entropy *)
(*   fetched      the construct is fetched when it is rendered             *)

HostAllowed(host) ==
    HasAllowlist => host = "listed" \/ (host = "none" /\ AllowRelative)

Hard(url) ==
    IF url.scheme = "malformed" THEN {"malformed"}
    ELSE {reason \in {"denied_scheme", "data_uri", "credentials", "off_allowlist", "long_query",
                      "payload"} :
        CASE reason = "denied_scheme"  -> url.scheme = "denied"
          [] reason = "data_uri"       -> url.scheme = "data" /\ BlockDataUris
          [] reason = "credentials"    -> url.credentials
          [] reason = "off_allowlist"  -> ~HostAllowed(url.host)
          [] reason = "long_query"     -> url.query = "long"
          [] reason = "payload"        -> url.payload}

(* auto_fetch_with_parameters: not enough to block.                        *)
Weak(url) ==
    /\ url.scheme # "malformed"
    /\ url.fetched
    /\ url.query = "short" \/ (url.query = "none" /\ url.fragment)

Severity(url) ==
    IF Hard(url) # {} /\ url.fetched THEN "block"
    ELSE IF Hard(url) # {} \/ Weak(url) THEN "neutralize" ELSE "notice"

Severities(text) == {Severity(url) : url \in text.urls}

Suspicious(text) == Severities(text) \cap {"block", "neutralize"} # {}

----------------------------------------------------------------------------
(* evaluate: the score and the decision.  A suspicious URL counts even     *)
(* where nothing else does.                                                *)
Score(text) ==
    IF ~Suspicious(text) THEN Risk(text)
    ELSE Most(Risk(text), IF "block" \in Severities(text) THEN 80 ELSE 50)

Evaluate(text, trust) ==
    IF Score(text) >= RejectAt[trust] THEN "reject"
    ELSE IF Score(text) >= QuarantineAt[trust] THEN "quarantine" ELSE "accept"
=============================================================================
