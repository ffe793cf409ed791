-------------------------- MODULE LiveFingerprint --------------------------
(***************************************************************************)
(* The live mobile fingerprint (apps/desktop/ippool/mobile_fingerprint.go):*)
(* scores for iOS, iPadOS and Android from what an entry's evidence says,  *)
(* and the classification they give.                                       *)
(*                                                                         *)
(* An item of evidence is [kind, text, addr, proto, port]: kind and text   *)
(* are the needles its type and source, and its value, contain (of those   *)
(* the code looks for, "other" for none); addr is "global" or "local" when *)
(* the value is a MAC address, text then being the vendor of its prefix;   *)
(* proto and port are those parseServiceValue reads, 0 for no port.        *)
(***************************************************************************)
EXTENDS Integers, Sequences, FiniteSets, SequencesExt

NameKinds   == {"hostname", "dhcp", "netbios", "llmnr"}
MDNSKinds   == {"mdns", "bonjour", "dns-sd"}
VendorKinds == {"mac", "oui", "vendor"}

AppleDomains   == {"apple.com", "icloud.com", "mzstatic.com"}
AndroidDomains == {"clients3.google.com", "gstatic.com", "googleapis.com"}
DNSCategory    == {"apple_service_domain_seen", "android_google_service_domain_seen"}

\* A few of each list stand for all of it.
AndroidNames   == {"android", "galaxy", "samsung", "pixel", "xiaomi"}
AndroidVendors == {"samsung", "xiaomi", "google", "huawei", "lenovo"}

Has(item, kinds) == item.kind \cap kinds # {}
Says(item, words) == item.text \cap words # {}

-----------------------------------------------------------------------------
(* What AddEvidence does with an item before and besides storing it.       *)

\* isPassiveDNSMetadata; the kinds of mDNS contain "dns" too.
IsPassiveDNS(item) == Has(item, {"dns"}) /\ ~Has(item, MDNSKinds)

\* sanitizeEvidenceForRegistry: a domain is reduced to its category, "" when it has none.
PrivacySafeDNSCategory(text) ==
    IF text \cap DNSCategory # {} THEN text \cap DNSCategory
    ELSE IF text \cap AppleDomains # {} THEN {"apple_service_domain_seen"}
    ELSE IF text \cap AndroidDomains # {} THEN {"android_google_service_domain_seen"}
    ELSE {}

Sanitized(item) ==
    IF IsPassiveDNS(item)
    THEN [item EXCEPT !.kind = {"dns", "passive"}, !.text = PrivacySafeDNSCategory(item.text)]
    ELSE item

Accepted(item) ==
    IF IsPassiveDNS(item) THEN Sanitized(item).text # {} ELSE item.text # {} \/ Has(item, {"service", "port"})

\* The evidence AddEvidence scores at once, and the evidence the entry's own fields stand for.
Meaningful(item) ==
    Has(item, NameKinds \cup VendorKinds \cup MDNSKinds \cup {"arp", "dns", "user_agent", "http", "service", "port", "passive"})

\* (Mutant: DHCP names are scored as evidence too.)
IsIdentityEvidenceNoDHCP(item) == Has(item, (NameKinds \ {"dhcp"}) \cup VendorKinds)
IsIdentityEvidence(item) == Has(item, NameKinds \cup VendorKinds)

-----------------------------------------------------------------------------
(* The scorer.                                                             *)

Apple == {"ios", "ipados"}
OSes  == Apple \cup {"android"}

NoScore ==
    [score |-> [o \in OSes |-> 0], strong |-> [o \in OSes |-> 0], cats |-> [o \in OSes |-> {}], n |-> 0, warnings |-> {}, random |-> FALSE]

\* addIOS, addIPad, addApple and addAndroid with addEvidence and track.
Signal(oses, impact, strong) == [oses |-> oses, impact |-> impact, strong |-> strong]

Add(s, cat, signal) ==
    [score    |-> [o \in OSes |-> IF o \in signal.oses THEN s.score[o] + signal.impact ELSE s.score[o]],
     strong   |-> [o \in OSes |-> IF o \in signal.oses /\ signal.strong THEN s.strong[o] + 1 ELSE s.strong[o]],
     cats     |-> [o \in OSes |-> IF o \in signal.oses THEN s.cats[o] \cup {cat} ELSE s.cats[o]],
     n        |-> s.n + 1,
     warnings |-> s.warnings,
     random   |-> s.random]

Warn(s, message) == [s EXCEPT !.warnings = @ \cup {message}]

\* The first row <<needles, signal>> of a table that the text matches counts.
AddFirst(s, cat, table, text) ==
    LET hits == {i \in DOMAIN table : table[i][1] \cap text # {}}
    IN  IF hits = {} THEN s ELSE Add(s, cat, table[CHOOSE i \in hits : \A j \in hits : i <= j][2])

HostnameTable ==
    << <<{"iphone"}, Signal({"ios"}, 45, TRUE)>>, <<{"ipad"}, Signal({"ipados"}, 45, TRUE)>>,
       <<{"ios"}, Signal({"ios"}, 30, FALSE)>>, <<AndroidNames, Signal({"android"}, 45, TRUE)>> >>

MDNSTable ==
    << <<{"iphone"}, Signal({"ios"}, 45, TRUE)>>, <<{"ipad"}, Signal({"ipados"}, 45, TRUE)>>,
       <<{"apple-mobdev2", "companion-link"}, Signal(Apple, 30, TRUE)>>, <<{"airplay", "raop"}, Signal(Apple, 25, FALSE)>>,
       <<{"android"}, Signal({"android"}, 30, TRUE)>> >>

UserAgentTable ==
    << <<{"iphone"}, Signal({"ios"}, 45, TRUE)>>, <<{"ipad"}, Signal({"ipados"}, 45, TRUE)>>, <<{"android"}, Signal({"android"}, 45, TRUE)>> >>

DNSTable ==
    << <<{"apple_service_domain_seen"}, Signal(Apple, 20, FALSE)>>, <<{"android_google_service_domain_seen"}, Signal({"android"}, 20, FALSE)>> >>

PassiveTable ==
    << <<{"iphone"}, Signal({"ios"}, 30, FALSE)>>, <<{"ipad"}, Signal({"ipados"}, 30, FALSE)>>, <<{"android"}, Signal({"android"}, 30, FALSE)>> >>

SeenApple(s)   == \E o \in Apple : s.score[o] > 0
SeenAndroid(s) == s.score["android"] > 0

ScoreHostname(s, text) == AddFirst(s, "hostname", HostnameTable, text)

\* vendor is the name given or the one of the address's prefix, {} for none.
ScoreMACOrVendor(s, local, vendor) ==
    LET warned == IF local THEN [Warn(s, "random") EXCEPT !.random = TRUE] ELSE s
        impact == IF local THEN 8 ELSE 35
    IN  IF "apple" \in vendor THEN Add(warned, "mac_oui", Signal(Apple, impact, FALSE))
        ELSE IF vendor \cap AndroidVendors # {} THEN Add(warned, "mac_oui", Signal({"android"}, impact, FALSE))
        ELSE warned

\* Google Cast counts only beside Android evidence that was scored before it.
ScoreMDNS(s, text) ==
    IF \E i \in DOMAIN MDNSTable : MDNSTable[i][1] \cap text # {} THEN AddFirst(s, "mdns", MDNSTable, text)
    ELSE IF text \cap {"googlecast", "chromecast"} # {}
         THEN IF SeenAndroid(s) THEN Add(s, "mdns", Signal({"android"}, 15, FALSE)) ELSE s
    ELSE IF text \cap {"services", "mdns"} # {} THEN Warn(s, "mdns") ELSE s

ScoreDNSCategory(s, text) ==
    IF text \cap DNSCategory = {} THEN s ELSE Warn(AddFirst(s, "dns_query", DNSTable, text), "dns")

ScoreUserAgent(s, text) ==
    IF text = {} THEN s ELSE Warn(AddFirst(s, "user_agent", UserAgentTable, text), "user_agent")

PortSignal(s, item) ==
    LET p == item.port
        udp == item.proto = "udp"
    IN  IF ~udp /\ p \in {5223, 2197} THEN Add(s, "service_port", Signal(Apple, 25, FALSE))
        ELSE IF udp /\ p = 5353 THEN Warn(s, "5353")
        ELSE IF p \in {80, 443} THEN Warn(s, "common")
        ELSE IF udp /\ p \in (3478 .. 3497) \cup (16384 .. 16403)
             THEN IF SeenApple(s) THEN Add(s, "service_port", Signal(Apple, 10, FALSE)) ELSE s
        ELSE IF ~udp /\ p \in {3689, 5000, 6000, 7000}
             THEN IF Says(item, {"airplay", "raop", "daap"}) \/ SeenApple(s) THEN Add(s, "service_port", Signal(Apple, 15, FALSE)) ELSE s
        ELSE IF p \in {8008, 8009} /\ Says(item, {"chromecast", "googlecast"}) /\ SeenAndroid(s)
             THEN Add(s, "service_port", Signal({"android"}, 15, FALSE))
        ELSE s

\* The name of a service counts besides its port.
ScoreService(s, item) ==
    LET ported == PortSignal(s, item)
        named  == IF Says(item, {"airplay", "raop", "apple-mobdev2"}) THEN Add(ported, "service_name", Signal(Apple, 15, FALSE)) ELSE ported
    IN  IF item.port = 0 THEN s
        ELSE IF Says(item, {"android", "googlecast"}) /\ SeenAndroid(named) THEN Add(named, "service_name", Signal({"android"}, 15, FALSE))
        ELSE named

ScorePassive(s, text) ==
    LET scored == AddFirst(s, "passive_packet", PassiveTable, text)
    IN  IF scored # s THEN scored
        ELSE IF "5353" \in text THEN Warn(s, "5353") ELSE IF text \cap {"443", "80"} # {} THEN Warn(s, "common") ELSE s

\* scoreEvidence
ScoreEvidence(s, item) ==
    IF Has(item, NameKinds) THEN ScoreHostname(s, item.text)
    ELSE IF Has(item, VendorKinds) THEN ScoreMACOrVendor(s, item.addr = "local", item.text)
    ELSE IF Has(item, MDNSKinds) THEN ScoreMDNS(s, item.text)
    ELSE IF Has(item, {"dns"}) THEN ScoreDNSCategory(s, item.text)
    ELSE IF Has(item, {"user_agent", "http"}) THEN ScoreUserAgent(s, item.text)
    ELSE IF Has(item, {"service", "port", "tcp", "udp"}) THEN ScoreService(s, item)
    ELSE IF Has(item, {"passive", "packet"}) THEN ScorePassive(s, item.text)
    ELSE s

-----------------------------------------------------------------------------
(* finish                                                                  *)

Conflicting(s) == s.score["android"] >= 35 /\ \E o \in Apple : s.score[o] >= 35

\* Ties go to iOS, then iPadOS.
Best(s) ==
    LET top(o) == \A p \in OSes : s.score[o] >= s.score[p]
    IN  IF top("ios") THEN "ios" ELSE IF top("ipados") THEN "ipados" ELSE "android"

\* <<level, os>>
Classification(s) ==
    LET os == Best(s)
        points == s.score[os]
    IN  IF Conflicting(s) THEN <<"conflict", "unknown">>
        ELSE IF points = 0 THEN <<"unknown_device", "unknown">>
        ELSE IF s.cats[os] = {"dns_query"} THEN <<"possible", os>>
        ELSE IF s.random /\ s.cats[os] = {"mac_oui"} /\ points < 20 THEN <<"unknown_mobile", "unknown">>
        ELSE IF points >= 80 /\ s.strong[os] >= 2 THEN <<"confirmed", os>>
        ELSE IF points >= 60 THEN <<"probable", os>>
        ELSE IF points >= 20 THEN <<"possible", os>>
        ELSE <<"unknown_mobile", "unknown">>

Confidence(level, random) ==
    IF level = "possible" /\ random THEN 34
    ELSE [confirmed |-> 90, probable |-> 72, possible |-> 42, conflict |-> 45, unknown_mobile |-> 22, unknown_device |-> 0][level]

Finish(s) ==
    LET class == Classification(s)
    IN  [class |-> class, score |-> s.score, conf |-> Confidence(class[1], s.random), n |-> s.n,
         conflict |-> Conflicting(s), warnings |-> s.warnings]

NoFingerprint == Finish(NoScore)

\* Names, addresses and vendors were scored as fields of the entry.
ScoreItem(s, item) == IF IsIdentityEvidence(item) THEN s ELSE ScoreEvidence(s, item)

\* fingerprintLiveMobileDevice, of the entry e: [list, host, mac, vendor, ...]: its fields, then its evidence.
Owned(e) ==
    ScoreMACOrVendor(ScoreHostname(NoScore, e.host), e.mac.addr = "local", IF e.vendor = {} THEN e.mac.text ELSE e.vendor)

Fingerprint(e) == Finish(FoldLeft(ScoreItem, Owned(e), e.list))

\* mobileFingerprintChanged, with NoFingerprint for nil: it is what an entry without evidence scores.
Changed(prev, next) ==
    \/ <<prev.class, prev.score, prev.conf, prev.n, prev.conflict>> # <<next.class, next.score, next.conf, next.n, next.conflict>>
    \/ Cardinality(prev.warnings) # Cardinality(next.warnings)
=============================================================================
