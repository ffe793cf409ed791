---------------------------- MODULE LiveRegistry ----------------------------
(***************************************************************************)
(* The registry with what its entries know of a device: the evidence in    *)
(* the order it came, the name, address and vendor taken from it, and the  *)
(* fingerprint that was last stored. Every operation is one of DevicePool; *)
(* the fingerprint is rescored when evidence is added and by the low-      *)
(* frequency refresh of the batch loop.                                    *)
(***************************************************************************)
EXTENDS DevicePool, LiveFingerprint

CONSTANTS
    Sightings,     \* <<address, item, grade>>: the evidence that may be reported of a device
    Pings,         \* <<item, grade>>: the evidence a probe that was answered leaves, by ping or by connection
    MaxEvidence    \* bound: items per entry

ASSUME SightingAssumption ==
    /\ Pings \subseteq EvidenceKey \X Grade
    /\ \A s \in Sightings : s[1] \in IP /\ s[3] \in Grade /\ (Accepted(s[2]) => Sanitized(s[2]) \in EvidenceKey)

\* looksLikeMAC: a value that is an address contains none of the words the scorer looks for beside
\* the vendor of its prefix, and no pair of digits in it is a port of the tables but 80.
ASSUME AddressAssumption ==
    \A item \in EvidenceKey : item.addr # "" => item.port \in 0..99 /\ item.text \subseteq {"apple", "other"} \cup AndroidVendors

VARIABLES
    live           \* [list, host, mac, vendor, fp, type] of every entry

liveVars == <<status, responded, streak, evidence, live>>

Nameless == [kind |-> {}, text |-> {}, addr |-> "", proto |-> "tcp", port |-> 0]

NoDevice == [list |-> <<>>, host |-> {}, mac |-> Nameless, vendor |-> {}, fp |-> NoFingerprint, type |-> "unknown"]

LiveInit == PoolInit /\ live = [ip \in IP |-> NoDevice]

-----------------------------------------------------------------------------
\* applyEvidenceIdentity: the first name, address and vendor stay.
\* (Mutant: the last name wins.)
WithIdentityLastName(e, item) ==
    IF Has(item, NameKinds) THEN [e EXCEPT !.host = item.text]
    ELSE IF Has(item, {"mac", "arp"}) THEN IF e.mac = Nameless /\ item.addr # "" THEN [e EXCEPT !.mac = item] ELSE e
    ELSE IF Has(item, {"oui", "vendor"}) THEN IF e.vendor = {} /\ item.addr = "" THEN [e EXCEPT !.vendor = item.text] ELSE e
    ELSE e

WithIdentity(e, item) ==
    IF Has(item, NameKinds) THEN IF e.host = {} THEN [e EXCEPT !.host = item.text] ELSE e
    ELSE IF Has(item, {"mac", "arp"}) THEN IF e.mac = Nameless /\ item.addr # "" THEN [e EXCEPT !.mac = item] ELSE e
    ELSE IF Has(item, {"oui", "vendor"}) THEN IF e.vendor = {} /\ item.addr = "" THEN [e EXCEPT !.vendor = item.text] ELSE e
    ELSE e

\* liveMobileDeviceTypeHint, decided when a fingerprint is stored.
TypeHint(fp, host) ==
    CASE fp.class[2] = "ios" -> "phone"
      [] fp.class[2] = "ipados" -> "tablet"
      [] fp.class[2] = "android" -> IF host \cap {"tablet", "tab", "pad"} # {} THEN "tablet" ELSE "phone"
      [] OTHER -> "unknown"

\* rescoreMobileLocked
Rescored(e) ==
    LET fp == Fingerprint(e)
    IN  IF Changed(e.fp, fp) THEN [e EXCEPT !.fp = fp, !.type = TypeHint(fp, e.host)] ELSE e

\* The rest of AddEvidence, once the item is merged: identity, then the fingerprint.
\* (Mutant: the fingerprint is scored before the item's name or address is taken over.)
AttachedScoredFirst(e, item, new) ==
    LET listed == IF new THEN [e EXCEPT !.list = Append(@, item)] ELSE e
    IN  WithIdentity(IF Meaningful(item) THEN Rescored(listed) ELSE listed, item)

Attached(e, item, new) ==
    LET listed == WithIdentity(IF new THEN [e EXCEPT !.list = Append(@, item)] ELSE e, item)
    IN  IF Meaningful(item) THEN Rescored(listed) ELSE listed

Attach(ip, item) ==
    live' = IF evidence'[ip][item] = evidence[ip][item] THEN live
            ELSE [live EXCEPT ![ip] = Attached(@, item, evidence[ip][item] = 0)]

Room(ip, item) == evidence[ip][item] # 0 \/ Len(live[ip].list) < MaxEvidence

-----------------------------------------------------------------------------
\* Manager.AddDeviceEvidence: the address becomes a candidate even when the item is refused.
AddLiveEvidence(ip, raw, grade) ==
    IF Accepted(raw)
    THEN /\ Room(ip, Sanitized(raw))
         /\ EnsureWithEvidence(ip, Sanitized(raw), grade)
         /\ Attach(ip, Sanitized(raw))
    ELSE EnsureCandidate(ip) /\ UNCHANGED live

PingAnswered(ip, item, grade) ==
    /\ Room(ip, item)
    /\ RecordSuccess(ip, item, grade)
    /\ Attach(ip, item)

Missed(ip) == RecordFailure(ip) /\ UNCHANGED live

Seeded(ip) == EnsureCandidate(ip) /\ UNCHANGED live

Clear == ClearStale /\ live' = [ip \in IP |-> IF ip \in Cleared THEN NoDevice ELSE live[ip]]

RefreshMobileFingerprints ==
    /\ live' = [ip \in IP |-> IF ip \in Tracked THEN Rescored(live[ip]) ELSE live[ip]]
    /\ UNCHANGED poolVars

LiveNext ==
    \/ \E s \in Sightings : AddLiveEvidence(s[1], s[2], s[3])
    \/ \E ip \in IP, p \in Pings : PingAnswered(ip, p[1], p[2])
    \/ \E ip \in IP : Missed(ip) \/ Seeded(ip)
    \/ Clear \/ RefreshMobileFingerprints

LiveSpec == LiveInit /\ [][LiveNext]_liveVars

-----------------------------------------------------------------------------
\* What scoreEvidence reads; the kinds meaningfulMobileEvidence does not know wait for a refresh.
Scorable(item) == Meaningful(item) \/ Has(item, {"packet"}) \/ (Has(item, {"tcp", "udp"}) /\ item.port # 0)

Waiting(e) == \E i \in DOMAIN e.list : Scorable(e.list[i]) /\ ~Meaningful(e.list[i])

\* AddEvidence and rescoreMobileLocked: the stored fingerprint is the one the entry's evidence gives
\* now, after any sequence of additions, replacements, probes and clean-ups, unless an item waits for
\* the next refresh. Scoring is skipped for unchanged and for meaningless items, and a new score is
\* stored only where the fields that are compared differ.
FingerprintCurrent == \A ip \in Tracked : Waiting(live[ip]) \/ live[ip].fp = Fingerprint(live[ip])

\* "Weak or single-source signals are shown as possible/probable rather than confirmed": an entry is
\* called probable or confirmed only with two stored items, though a name, an address and a vendor are
\* scored both as fields of the entry and as members of its evidence.
OneSourceNeverConvinces ==
    \A ip \in IP : live[ip].fp.class[1] \in {"probable", "confirmed"} =>
        Cardinality({i \in DOMAIN live[ip].list : Scorable(live[ip].list[i])}) >= 2

\* New evidence never takes points away, whatever came before it, except by way of the vendor: a score
\* falls only with the entry, when the device turns out to use a randomised address, which devalues the
\* vendor, or when a vendor is named after an address whose prefix stood for another one.
ScoresFallOnlyWithTheVendor ==
    [][\A ip \in IP, os \in OSes :
          live'[ip].fp.score[os] < live[ip].fp.score[os] =>
              \/ status'[ip] = "absent"
              \/ live'[ip].mac.addr = "local"
              \/ live[ip].mac.text # {} /\ live[ip].vendor = {} /\ live'[ip].vendor # {}]_liveVars
=============================================================================
