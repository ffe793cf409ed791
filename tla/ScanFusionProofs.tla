-------------------------- MODULE ScanFusionProofs --------------------------
(***************************************************************************)
(* What holds of every scan of cmd/agent, whatever its probes report.      *)
(***************************************************************************)
EXTENDS ScanFusion, FoldInduction, FiniteSetTheorems

-----------------------------------------------------------------------------
(* Devices.                                                                *)

\* The names of types and roles; the provers do not know that a literal is a STRING.
Labels ==
    STRING \cup {"unknown", "local_host", "virtual_adapter", "isp_hop", "inferred_switch", "managed_switch", "router",
                 "access_point", "ont", "modem", "printer", "nas", "camera", "phone", "laptop", "desktop", "iot",
                 "switching_device", "wifi_ap"}

Device ==
    [id : Ids, ips : FiniteSubsetsOf(STRING), macs : FiniteSubsetsOf(STRING), hosts : SUBSET STRING, vendor : STRING,
     type : Labels, roles : SUBSET Labels, ports : SUBSET Nat, words : SUBSET STRING, conf : Int,
     ev : FiniteSubsetsOf(EvidenceRecord), inferred : BOOLEAN]

LEMMA FewUnion ==
    ASSUME NEW S, NEW a \in FiniteSubsetsOf(S), NEW b \in FiniteSubsetsOf(S)
    PROVE  a \cup b \in FiniteSubsetsOf(S)
  BY FS_Union DEF FiniteSubsetsOf

LEMMA FewRange ==
    ASSUME NEW S, NEW q \in Seq(S)
    PROVE  ToSet(q) \in FiniteSubsetsOf(S)
  BY FiniteRange DEF FiniteSubsetsOf

\* The best confidence among a device and its evidence is one of theirs.
LEMMA BestConfidence ==
    ASSUME NEW c \in Int, NEW ev \in FiniteSubsetsOf(EvidenceRecord)
    PROVE  /\ Max({c} \cup {e.conf : e \in ev}) \in Int
           /\ Max({c} \cup {e.conf : e \in ev}) >= c
<1> DEFINE T == {e.conf : e \in ev}
           g == [e \in ev |-> e.conf]
<1>1. g \in Surjection(ev, T)
  BY DEF Surjection
<1>2. IsFiniteSet(ev) /\ ev \subseteq EvidenceRecord
  BY DEF FiniteSubsetsOf
<1>3. IsFiniteSet(T)
  BY <1>1, <1>2, FS_Surjection
<1>4. \A e \in EvidenceRecord : e.conf \in Int
  BY DEF EvidenceRecord
<1>5. T \subseteq Int
  BY <1>2, <1>4
<1> HIDE DEF T
<1>6. IsFiniteSet({c})
  BY FS_Singleton
<1>7. IsFiniteSet({c} \cup T) /\ {c} \cup T \in SUBSET Int /\ {c} \cup T # {}
  BY <1>3, <1>5, <1>6, FS_Union
<1>8. Max({c} \cup T) \in {c} \cup T /\ \A x \in {c} \cup T : Max({c} \cup T) >= x
  BY <1>7, MaxOfInts
<1> QED
  BY <1>5, <1>8 DEF T

\* An inferred device is never given more than 60 percent.
LEMMA ConfidenceTyped ==
    ASSUME NEW d \in Device
    PROVE  /\ TopologyDeviceConfidence(d) \in Int
           /\ d.inferred => TopologyDeviceConfidence(d) <= 60
<1>1. d.conf \in Int /\ d.ev \in FiniteSubsetsOf(EvidenceRecord)
  BY DEF Device
<1> DEFINE best == Max({d.conf} \cup {e.conf : e \in d.ev})
<1>2. best \in Int
  BY <1>1, BestConfidence
<1> HIDE DEF best
<1> QED
  BY <1>2 DEF TopologyDeviceConfidence, MaxOf, MinOf, ClampBand, best

-----------------------------------------------------------------------------
(* One observation.                                                        *)

Sighting == {o \in Observation : IsFiniteSet(o.ev)}

\* What a device has of an observation of it.
Holds(d, o) ==
    /\ ToSet(o.ips) \subseteq d.ips /\ ToSet(o.macs) \subseteq d.macs /\ o.hosts \subseteq d.hosts
    /\ o.roles \subseteq d.roles /\ o.ports \subseteq d.ports /\ Told(o.ev, d.ev)

\* What a device may become.
Grown(d, e) ==
    /\ e.id = d.id /\ d.ips \subseteq e.ips /\ d.macs \subseteq e.macs /\ d.hosts \subseteq e.hosts
    /\ d.roles \subseteq e.roles /\ d.ports \subseteq e.ports /\ d.ev \subseteq e.ev

LEMMA MergedEvidence ==
    ASSUME NEW old \in FiniteSubsetsOf(EvidenceRecord), NEW q \in Seq(EvidenceRecord),
           NEW own \in FiniteSubsetsOf(EvidenceRecord)
    PROVE  /\ MergeEvidence(old, q, own) \in FiniteSubsetsOf(EvidenceRecord)
           /\ old \subseteq MergeEvidence(old, q, own) /\ Told(own, MergeEvidence(old, q, own))
<1> DEFINE first == Unseen(old, FirstRecords(q))
           kept == old \cup first
<1>1. first \subseteq ToSet(q)
  BY DEF Unseen, FirstRecords, ToSet
<1>2. kept \subseteq old \cup ToSet(q)
  BY <1>1
<1> HIDE DEF first, kept
<1>3. MergeEvidence(old, q, own) = kept \cup Unseen(kept, own)
  BY DEF MergeEvidence, kept, first
<1>4. Unseen(kept, own) \subseteq own /\ \A e \in own : e \in Unseen(kept, own) \/ \E f \in kept : EvidenceKey(f) = EvidenceKey(e)
  BY DEF Unseen
<1>5. (old \cup ToSet(q)) \cup own \in FiniteSubsetsOf(EvidenceRecord)
  <2>1. old \cup ToSet(q) \in FiniteSubsetsOf(EvidenceRecord)
    BY FewRange, FewUnion
  <2> QED
    BY <2>1, FewUnion
<1>6. kept \cup Unseen(kept, own) \subseteq (old \cup ToSet(q)) \cup own
  BY <1>2, <1>4
<1>7. kept \cup Unseen(kept, own) \in FiniteSubsetsOf(EvidenceRecord)
  BY <1>5, <1>6, FS_Subset DEF FiniteSubsetsOf
<1>8. Told(own, kept \cup Unseen(kept, own))
  BY <1>4 DEF Told
<1> QED
  BY <1>3, <1>7, <1>8 DEF kept

LEMMA FirstSeenHolds ==
    ASSUME NEW d \in Sighting, NEW ev \in Seq(EvidenceRecord)
    PROVE  /\ FirstSeen(d, ev) \in Device /\ Holds(FirstSeen(d, ev), d)
           /\ FirstSeen(d, ev).id = d.id
           /\ FirstSeen(d, ev).ips = ToSet(d.ips) /\ FirstSeen(d, ev).macs = ToSet(d.macs)
<1>1. /\ d.id \in Ids /\ d.ips \in Seq(STRING) /\ d.macs \in Seq(STRING) /\ d.hosts \in SUBSET STRING
      /\ d.vendor \in STRING /\ d.type \in Labels /\ d.roles \in SUBSET Labels /\ d.ports \in SUBSET Nat
      /\ d.words \in SUBSET STRING /\ d.conf \in Int /\ d.ev \in FiniteSubsetsOf(EvidenceRecord) /\ d.inferred \in BOOLEAN
  BY DEF Sighting, Observation, FiniteSubsetsOf, Labels
<1> DEFINE all == MergeEvidence({}, ev, d.ev)
<1>2. all \in FiniteSubsetsOf(EvidenceRecord) /\ Told(d.ev, all)
  <2>1. {} \in FiniteSubsetsOf(EvidenceRecord)
    BY FS_EmptySet DEF FiniteSubsetsOf
  <2> QED
    BY <1>1, <2>1, MergedEvidence
<1>3. ToSet(d.ips) \in FiniteSubsetsOf(STRING) /\ ToSet(d.macs) \in FiniteSubsetsOf(STRING)
  BY <1>1, FewRange
<1> DEFINE new == [id |-> d.id, ips |-> ToSet(d.ips), macs |-> ToSet(d.macs), hosts |-> d.hosts, vendor |-> d.vendor,
                type |-> d.type, roles |-> d.roles, ports |-> d.ports, words |-> d.words, conf |-> d.conf,
                ev |-> all, inferred |-> d.inferred]
<1>4. new \in Device
  BY <1>1, <1>2, <1>3 DEF Device
<1>5. /\ new.id = d.id /\ new.ips = ToSet(d.ips) /\ new.macs = ToSet(d.macs) /\ new.hosts = d.hosts
      /\ new.roles = d.roles /\ new.ports = d.ports /\ new.ev = all
  OBVIOUS
<1>6. FirstSeen(d, ev) = [new EXCEPT !.conf = TopologyDeviceConfidence(new)]
  BY DEF FirstSeen
<1> HIDE DEF new, all
<1>7. TopologyDeviceConfidence(new) \in Int
  BY <1>4, ConfidenceTyped
<1>8. [new EXCEPT !.conf = TopologyDeviceConfidence(new)] \in Device
  BY <1>4, <1>7 DEF Device
<1>9. /\ FirstSeen(d, ev).id = d.id /\ FirstSeen(d, ev).ips = ToSet(d.ips) /\ FirstSeen(d, ev).macs = ToSet(d.macs)
      /\ FirstSeen(d, ev).hosts = d.hosts /\ FirstSeen(d, ev).roles = d.roles /\ FirstSeen(d, ev).ports = d.ports
      /\ FirstSeen(d, ev).ev = all
  BY <1>4, <1>5, <1>6 DEF Device
<1> QED
  BY <1>2, <1>6, <1>8, <1>9 DEF Holds

LEMMA MergeGrows ==
    ASSUME NEW dst \in Device, NEW d \in Sighting, NEW ev \in Seq(EvidenceRecord)
    PROVE  /\ MergeIntoDevice(dst, d, ev) \in Device
           /\ Holds(MergeIntoDevice(dst, d, ev), d) /\ Grown(dst, MergeIntoDevice(dst, d, ev))
           /\ MergeIntoDevice(dst, d, ev).macs = dst.macs \cup ToSet(d.macs)
<1>1. /\ d.id \in Ids /\ d.ips \in Seq(STRING) /\ d.macs \in Seq(STRING) /\ d.hosts \in SUBSET STRING
      /\ d.vendor \in STRING /\ d.type \in Labels /\ d.roles \in SUBSET Labels /\ d.ports \in SUBSET Nat
      /\ d.words \in SUBSET STRING /\ d.conf \in Int /\ d.ev \in FiniteSubsetsOf(EvidenceRecord) /\ d.inferred \in BOOLEAN
  BY DEF Sighting, Observation, FiniteSubsetsOf, Labels
<1>11. /\ dst.id \in Ids /\ dst.ips \in FiniteSubsetsOf(STRING) /\ dst.macs \in FiniteSubsetsOf(STRING)
       /\ dst.hosts \in SUBSET STRING /\ dst.vendor \in STRING /\ dst.type \in Labels /\ dst.roles \in SUBSET Labels
       /\ dst.ports \in SUBSET Nat /\ dst.words \in SUBSET STRING /\ dst.conf \in Int
       /\ dst.ev \in FiniteSubsetsOf(EvidenceRecord) /\ dst.inferred \in BOOLEAN
  BY DEF Device
<1> DEFINE all == MergeEvidence(dst.ev, ev, d.ev)
<1>2. all \in FiniteSubsetsOf(EvidenceRecord) /\ dst.ev \subseteq all /\ Told(d.ev, all)
  BY <1>1, <1>11, MergedEvidence
<1>3. dst.ips \cup ToSet(d.ips) \in FiniteSubsetsOf(STRING) /\ dst.macs \cup ToSet(d.macs) \in FiniteSubsetsOf(STRING)
  BY <1>1, <1>11, FewRange, FewUnion
<1> DEFINE vendor == IF dst.vendor = "" THEN d.vendor ELSE dst.vendor
           type == IF d.type # "" /\ (dst.type \in {"", "unknown"} \/ d.conf > dst.conf) THEN d.type ELSE dst.type
           new == [id |-> dst.id, ips |-> dst.ips \cup ToSet(d.ips), macs |-> dst.macs \cup ToSet(d.macs),
                hosts |-> dst.hosts \cup d.hosts, vendor |-> vendor, type |-> type,
                roles |-> dst.roles \cup d.roles, ports |-> dst.ports \cup d.ports,
                words |-> dst.words \cup d.words, conf |-> dst.conf,
                ev |-> all, inferred |-> dst.inferred \/ d.inferred]
<1>6. MergeIntoDevice(dst, d, ev) = [new EXCEPT !.conf = TopologyDeviceConfidence(new)]
  BY DEF MergeIntoDevice
<1>31. vendor \in STRING /\ type \in Labels
  BY <1>1, <1>11
<1> HIDE DEF vendor, type, all
<1>4. new \in Device
  BY <1>1, <1>11, <1>2, <1>3, <1>31 DEF Device
<1>5. /\ new.id = dst.id /\ new.ips = dst.ips \cup ToSet(d.ips) /\ new.macs = dst.macs \cup ToSet(d.macs)
      /\ new.hosts = dst.hosts \cup d.hosts /\ new.roles = dst.roles \cup d.roles
      /\ new.ports = dst.ports \cup d.ports /\ new.ev = all
  OBVIOUS
<1> HIDE DEF new
<1>7. TopologyDeviceConfidence(new) \in Int
  BY <1>4, ConfidenceTyped
<1> DEFINE res == [new EXCEPT !.conf = TopologyDeviceConfidence(new)]
<1>8. res \in Device
  BY <1>4, <1>7 DEF Device
<1>9. /\ res.id = new.id /\ res.ips = new.ips /\ res.macs = new.macs /\ res.hosts = new.hosts
      /\ res.roles = new.roles /\ res.ports = new.ports /\ res.ev = new.ev
  BY <1>4 DEF Device
<1> QED
  BY <1>2, <1>5, <1>6, <1>8, <1>9 DEF Holds, Grown

\* The index of the merge is by address and MAC; the key of a device is one, or an identifier.
Names == {"ip", "mac"} \X STRING
Keys  == Ids \cup Names

\* Whose key an observation gets: by a known MAC, else by a known address, else a new one.
KeyOf(key, d, known) ==
    \/ \E m \in ToSet(d.macs) : <<"mac", m>> \in DOMAIN known /\ key = known[<<"mac", m>>]
    \/ /\ \A m \in ToSet(d.macs) : <<"mac", m>> \notin DOMAIN known
       /\ \E i \in ToSet(d.ips) : <<"ip", i>> \in DOMAIN known /\ key = known[<<"ip", i>>]
    \/ /\ \A m \in ToSet(d.macs) : <<"mac", m>> \notin DOMAIN known
       /\ \A i \in ToSet(d.ips) : <<"ip", i>> \notin DOMAIN known
       /\ key \in Keys
       /\ d.ips = <<>> /\ d.macs = <<>> => key = d.id

StartsIn(q, A) == (q # <<>> => q[1] \in ToSet(q) /\ q[1] \in A) /\ (q = <<>> => ToSet(q) = {})

LEMMA FirstOf ==
    ASSUME NEW A, NEW q \in Seq(A)
    PROVE  StartsIn(q, A)
<1>1. Len(q) \in Nat /\ DOMAIN q = 1..Len(q) /\ (\A k \in 1..Len(q) : q[k] \in A) /\ (q # <<>> => 1 \in 1..Len(q))
  OBVIOUS
<1> QED
  BY <1>1 DEF ToSet, StartsIn

LEMMA MergeKeyFacts ==
    ASSUME NEW d \in Sighting, NEW known
    PROVE  KeyOf(MergeKey(d, known), d, known)
<1> DEFINE ips  == Those(d.ips, {i \in ToSet(d.ips) : <<"ip", i>> \in DOMAIN known})
           macs == Those(d.macs, {m \in ToSet(d.macs) : <<"mac", m>> \in DOMAIN known})
           own  == IF d.macs # <<>> THEN <<"mac", d.macs[1]>> ELSE IF d.ips # <<>> THEN <<"ip", d.ips[1]>> ELSE d.id
<1>1. d.id \in Ids /\ d.ips \in Seq(STRING) /\ d.macs \in Seq(STRING)
  BY DEF Sighting, Observation
<1>2. ips \in Seq(STRING) /\ ToSet(ips) = {i \in ToSet(d.ips) : <<"ip", i>> \in DOMAIN known}
  BY <1>1, ThoseIn
<1>3. macs \in Seq(STRING) /\ ToSet(macs) = {m \in ToSet(d.macs) : <<"mac", m>> \in DOMAIN known}
  BY <1>1, ThoseIn
<1>4. MergeKey(d, known) = IF macs # <<>> THEN known[<<"mac", macs[1]>>]
                           ELSE IF ips # <<>> THEN known[<<"ip", ips[1]>>] ELSE own
  BY DEF MergeKey
<1>5. own \in Keys /\ (d.ips = <<>> /\ d.macs = <<>> => own = d.id)
  <2>1. StartsIn(d.macs, STRING) /\ StartsIn(d.ips, STRING)
    BY <1>1, FirstOf
  <2>2. (d.macs # <<>> => d.macs[1] \in STRING) /\ (d.ips # <<>> => d.ips[1] \in STRING)
    BY <2>1 DEF StartsIn
  <2>3. (\A x \in STRING : <<"mac", x>> \in Keys /\ <<"ip", x>> \in Keys) /\ d.id \in Keys
    BY <1>1 DEF Keys, Names
  <2>4. CASE d.macs # <<>>
    BY <2>2, <2>3, <2>4
  <2>5. CASE d.macs = <<>> /\ d.ips # <<>>
    BY <2>2, <2>3, <2>5
  <2>6. CASE d.macs = <<>> /\ d.ips = <<>>
    BY <2>3, <2>6
  <2> QED
    BY <2>4, <2>5, <2>6
<1> HIDE DEF ips, macs, own
<1>6. StartsIn(macs, STRING) /\ StartsIn(ips, STRING)
  BY <1>2, <1>3, FirstOf
<1> QED
  BY <1>2, <1>3, <1>4, <1>5, <1>6 DEF KeyOf, StartsIn

\* The merge after some observations, U the ones that can come: the index leads to the
\* device that has the name, a MAC address to the only one that has it, and a device has
\* the identifier and the names of the observation that it began with.
Maps(S, T) == UNION {[R -> T] : R \in SUBSET S}

Indexed(acc) ==
    /\ \A n \in DOMAIN acc.known : acc.known[n] \in DOMAIN acc.byKey
    /\ \A k \in DOMAIN acc.byKey : \A i \in acc.byKey[k].ips : <<"ip", i>> \in DOMAIN acc.known
    /\ \A k \in DOMAIN acc.byKey : \A m \in acc.byKey[k].macs :
          <<"mac", m>> \in DOMAIN acc.known /\ acc.known[<<"mac", m>>] = k

Began(acc, U) ==
    \A k \in DOMAIN acc.byKey : \E o \in U :
        /\ o.id = acc.byKey[k].id /\ ToSet(o.ips) \subseteq acc.byKey[k].ips /\ ToSet(o.macs) \subseteq acc.byKey[k].macs
        /\ o.ips = <<>> /\ o.macs = <<>> => k = o.id

OneId(acc) == \A j, k \in DOMAIN acc.byKey : acc.byKey[j].id = acc.byKey[k].id => j = k

MergeStates(U) ==
    {acc \in [byKey : Maps(Keys, Device), known : Maps(Names, Keys)] :
        IsFiniteSet(DOMAIN acc.byKey) /\ Indexed(acc) /\ Began(acc, U) /\ OneId(acc)}

\* What the observations of one scan have in common.
Consistent(U) ==
    /\ U \subseteq Sighting
    /\ \A o \in U : Len(o.macs) <= 1
    /\ \A o, p \in U : o.id = p.id =>
        \/ ToSet(o.ips) \cap ToSet(p.ips) # {} \/ ToSet(o.macs) \cap ToSet(p.macs) # {}
        \/ o.ips = <<>> /\ p.ips = <<>> /\ o.macs = <<>> /\ p.macs = <<>>

\* No device is lost and none loses anything.
Keeps(acc, new) ==
    \A k \in DOMAIN acc.byKey : k \in DOMAIN new.byKey /\ Grown(acc.byKey[k], new.byKey[k])

Found(acc, o) == \E k \in DOMAIN acc.byKey : Holds(acc.byKey[k], o)

\* What one observation makes of the merge.
MergedOne(acc, new, U, d) ==
    /\ new \in MergeStates(U)
    /\ Keeps(acc, new)
    /\ HasPublicOnlyIPs(d) \/ Found(new, d)

LEMMA GrownSame ==
    ASSUME NEW d
    PROVE  Grown(d, d)
  BY DEF Grown

LEMMA MergeStateFacts ==
    ASSUME NEW U, NEW acc \in MergeStates(U)
    PROVE  /\ DOMAIN acc.byKey \subseteq Keys /\ IsFiniteSet(DOMAIN acc.byKey)
           /\ \A k \in DOMAIN acc.byKey : acc.byKey[k] \in Device
           /\ DOMAIN acc.known \subseteq Names /\ \A n \in DOMAIN acc.known : acc.known[n] \in Keys
           /\ Indexed(acc) /\ Began(acc, U) /\ OneId(acc)
<1>1. acc.byKey \in Maps(Keys, Device) /\ acc.known \in Maps(Names, Keys)
  BY DEF MergeStates
<1>2. PICK R \in SUBSET Keys : acc.byKey \in [R -> Device]
  BY <1>1, Zenon DEF Maps
<1>3. PICK T \in SUBSET Names : acc.known \in [T -> Keys]
  BY <1>1, Zenon DEF Maps
<1> QED
  BY <1>2, <1>3 DEF MergeStates

\* A known name leads to a device; the MAC of an observation known to the index gives its key.
LEMMA KeyLeads ==
    ASSUME NEW U, Consistent(U), NEW acc \in MergeStates(U), NEW d \in U
    PROVE  /\ MergeKey(d, acc.known) \in Keys
           /\ \A m \in ToSet(d.macs) : <<"mac", m>> \in DOMAIN acc.known => MergeKey(d, acc.known) = acc.known[<<"mac", m>>]
           /\ MergeKey(d, acc.known) \notin DOMAIN acc.byKey =>
                /\ \A m \in ToSet(d.macs) : <<"mac", m>> \notin DOMAIN acc.known
                /\ \A i \in ToSet(d.ips) : <<"ip", i>> \notin DOMAIN acc.known
                /\ d.ips = <<>> /\ d.macs = <<>> => MergeKey(d, acc.known) = d.id
<1> DEFINE key == MergeKey(d, acc.known)
<1>1. d \in Sighting /\ Len(d.macs) <= 1 /\ d.macs \in Seq(STRING)
  BY DEF Consistent, Sighting, Observation
<1>2. KeyOf(key, d, acc.known)
  BY <1>1, MergeKeyFacts
<1>3. \A m, n \in ToSet(d.macs) : m = n
  <2>1. Len(d.macs) \in Nat /\ DOMAIN d.macs = 1..Len(d.macs)
    BY <1>1
  <2>2. \A j, k \in 1..Len(d.macs) : j = k
    BY <1>1, <2>1
  <2> QED
    BY <2>1, <2>2 DEF ToSet
<1>4. /\ \A n \in DOMAIN acc.known : acc.known[n] \in Keys
      /\ \A n \in DOMAIN acc.known : acc.known[n] \in DOMAIN acc.byKey
  BY MergeStateFacts DEF Indexed
<1> HIDE DEF key
<1>5. key \in Keys
  BY <1>2, <1>4 DEF KeyOf
<1>6. \A m \in ToSet(d.macs) : <<"mac", m>> \in DOMAIN acc.known => key = acc.known[<<"mac", m>>]
  BY <1>2, <1>3 DEF KeyOf
<1>7. key \notin DOMAIN acc.byKey =>
        /\ \A m \in ToSet(d.macs) : <<"mac", m>> \notin DOMAIN acc.known
        /\ \A i \in ToSet(d.ips) : <<"ip", i>> \notin DOMAIN acc.known
        /\ d.ips = <<>> /\ d.macs = <<>> => key = d.id
  BY <1>2, <1>4 DEF KeyOf
<1> QED
  BY <1>5, <1>6, <1>7 DEF key

\* The device an observation ends in.
DestinationOf(acc, d, ev, key) ==
    IF key \in DOMAIN acc.byKey THEN MergeIntoDevice(acc.byKey[key], d, ev) ELSE FirstSeen(d, ev)

Destined(acc, d, key, dst) ==
    /\ dst \in Device /\ Holds(dst, d)
    /\ key \in DOMAIN acc.byKey => Grown(acc.byKey[key], dst) /\ dst.macs = acc.byKey[key].macs \cup ToSet(d.macs)
    /\ key \notin DOMAIN acc.byKey => dst.id = d.id /\ dst.ips = ToSet(d.ips) /\ dst.macs = ToSet(d.macs)

LEMMA Destination ==
    ASSUME NEW U, NEW acc \in MergeStates(U), NEW d \in Sighting, NEW ev \in Seq(EvidenceRecord), NEW key
    PROVE  Destined(acc, d, key, DestinationOf(acc, d, ev, key))
<1>1. CASE key \in DOMAIN acc.byKey
  <2>1. acc.byKey[key] \in Device
    BY <1>1, MergeStateFacts
  <2>2. DestinationOf(acc, d, ev, key) = MergeIntoDevice(acc.byKey[key], d, ev)
    BY <1>1 DEF DestinationOf
  <2> QED
    BY <1>1, <2>1, <2>2, MergeGrows DEF Destined
<1>2. CASE key \notin DOMAIN acc.byKey
  <2>1. DestinationOf(acc, d, ev, key) = FirstSeen(d, ev)
    BY <1>2 DEF DestinationOf
  <2> QED
    BY <1>2, <2>1, FirstSeenHolds DEF Destined
<1> QED
  BY <1>1, <1>2

\* Who has a name of the destination: the index follows.
NamesOf(dst) == {<<"ip", i>> : i \in dst.ips} \cup {<<"mac", m>> : m \in dst.macs}

Placed(acc, key, dst) ==
    [byKey |-> [k \in DOMAIN acc.byKey \cup {key} |-> IF k = key THEN dst ELSE acc.byKey[k]],
     known |-> [n \in DOMAIN acc.known \cup NamesOf(dst) |-> IF n \in NamesOf(dst) THEN key ELSE acc.known[n]]]

LEMMA MergeOneStep ==
    ASSUME NEW U, Consistent(U), NEW acc \in MergeStates(U), NEW d \in U, NEW ev \in Seq(EvidenceRecord)
    PROVE  MergedOne(acc, MergeOne(acc, d, ev), U, d)
<1>0. d \in Sighting
  BY DEF Consistent
<1>1. CASE HasPublicOnlyIPs(d)
  <2>1. MergeOne(acc, d, ev) = acc
    BY <1>1 DEF MergeOne
  <2> QED
    BY <1>1, <2>1, GrownSame DEF MergedOne, Keeps
<1>2. CASE ~HasPublicOnlyIPs(d)
  <2> DEFINE key == MergeKey(d, acc.known)
             dst == DestinationOf(acc, d, ev, key)
             new == Placed(acc, key, dst)
  <2>1. MergeOne(acc, d, ev) = new
    BY <1>2 DEF MergeOne, Placed, NamesOf, DestinationOf
  <2>2. /\ DOMAIN acc.byKey \subseteq Keys /\ IsFiniteSet(DOMAIN acc.byKey)
        /\ \A k \in DOMAIN acc.byKey : acc.byKey[k] \in Device
        /\ DOMAIN acc.known \subseteq Names /\ \A n \in DOMAIN acc.known : acc.known[n] \in Keys
    BY MergeStateFacts
  <2>21. Indexed(acc) /\ Began(acc, U) /\ OneId(acc)
    BY MergeStateFacts
  <2>3. /\ key \in Keys
        /\ \A m \in ToSet(d.macs) : <<"mac", m>> \in DOMAIN acc.known => key = acc.known[<<"mac", m>>]
        /\ key \notin DOMAIN acc.byKey =>
             /\ \A m \in ToSet(d.macs) : <<"mac", m>> \notin DOMAIN acc.known
             /\ \A i \in ToSet(d.ips) : <<"ip", i>> \notin DOMAIN acc.known
             /\ d.ips = <<>> /\ d.macs = <<>> => key = d.id
    BY KeyLeads
  <2>4. Destined(acc, d, key, dst)
    BY <1>0, Destination
  <2> HIDE DEF key, dst
  <2>5. dst \in Device /\ Holds(dst, d)
    BY <2>4 DEF Destined
  <2>6. /\ DOMAIN new.byKey = DOMAIN acc.byKey \cup {key}
        /\ new.byKey[key] = dst
        /\ \A k \in DOMAIN acc.byKey : k # key => new.byKey[k] = acc.byKey[k]
        /\ DOMAIN new.known = DOMAIN acc.known \cup NamesOf(dst)
        /\ \A n \in NamesOf(dst) : new.known[n] = key
        /\ \A n \in DOMAIN acc.known : n \notin NamesOf(dst) => new.known[n] = acc.known[n]
    BY DEF Placed
  <2>7. new \in [byKey : Maps(Keys, Device), known : Maps(Names, Keys)]
    <3>1. DOMAIN acc.byKey \cup {key} \in SUBSET Keys
      BY <2>2, <2>3
    <3>2. new.byKey \in [DOMAIN acc.byKey \cup {key} -> Device]
      BY <2>2, <2>5 DEF Placed
    <3>3. NamesOf(dst) \subseteq Names
      BY <2>5 DEF NamesOf, Names, Device, FiniteSubsetsOf
    <3>4. DOMAIN acc.known \cup NamesOf(dst) \in SUBSET Names
      BY <2>2, <3>3
    <3>5. new.known \in [DOMAIN acc.known \cup NamesOf(dst) -> Keys]
      BY <2>2, <2>3 DEF Placed
    <3>6. new.byKey \in Maps(Keys, Device) /\ new.known \in Maps(Names, Keys)
      BY <3>1, <3>2, <3>4, <3>5, Zenon DEF Maps
    <3> QED
      BY <3>6 DEF Placed
  <2>8. IsFiniteSet(DOMAIN new.byKey)
    <3>1. IsFiniteSet({key})
      BY FS_Singleton
    <3>2. IsFiniteSet(DOMAIN acc.byKey \cup {key})
      BY <2>2, <3>1, FS_Union
    <3> QED
      BY <2>6, <3>2, Zenon
  <2>9. Keeps(acc, new)
    BY <2>4, <2>6, GrownSame DEF Keeps, Destined
  <2>10. Found(new, d)
    BY <2>5, <2>6 DEF Found
  <2> HIDE DEF new
  <2>11. Indexed(new)
    <3>1. \A n \in DOMAIN new.known : new.known[n] \in DOMAIN new.byKey
      BY <2>6, <2>21 DEF Indexed
    <3>2. \A k \in DOMAIN new.byKey : \A i \in new.byKey[k].ips : <<"ip", i>> \in DOMAIN new.known
      BY <2>6, <2>21 DEF Indexed, NamesOf
    <3>3. ASSUME NEW k \in DOMAIN new.byKey, NEW m \in new.byKey[k].macs
          PROVE  <<"mac", m>> \in DOMAIN new.known /\ new.known[<<"mac", m>>] = k
      <4>1. CASE k = key
        BY <2>6, <4>1 DEF NamesOf
      <4>2. CASE k # key
        <5>1. k \in DOMAIN acc.byKey /\ new.byKey[k] = acc.byKey[k]
          BY <2>6, <4>2
        <5>2. <<"mac", m>> \in DOMAIN acc.known /\ acc.known[<<"mac", m>>] = k
          BY <2>21, <5>1 DEF Indexed
        <5>3. m \notin ToSet(d.macs)
          BY <2>3, <4>2, <5>2
        <5>4. ~(key \in DOMAIN acc.byKey /\ m \in acc.byKey[key].macs)
          BY <2>21, <4>2, <5>2 DEF Indexed
        <5>5. m \notin dst.macs
          BY <2>4, <5>3, <5>4 DEF Destined
        <5>6. <<"mac", m>> \notin NamesOf(dst)
          BY <5>5 DEF NamesOf
        <5> QED
          BY <2>6, <5>2, <5>6
      <4> QED
        BY <4>1, <4>2
    <3> QED
      BY <3>1, <3>2, <3>3 DEF Indexed
  <2>12. Began(new, U)
    <3> SUFFICES ASSUME NEW k \in DOMAIN new.byKey
                 PROVE  \E o \in U :
                          /\ o.id = new.byKey[k].id
                          /\ ToSet(o.ips) \subseteq new.byKey[k].ips /\ ToSet(o.macs) \subseteq new.byKey[k].macs
                          /\ o.ips = <<>> /\ o.macs = <<>> => k = o.id
      BY DEF Began
    <3>1. CASE k \in DOMAIN acc.byKey
      <4>1. Grown(acc.byKey[k], new.byKey[k])
        BY <2>9, <3>1 DEF Keeps
      <4>2. PICK o \in U : /\ o.id = acc.byKey[k].id
                           /\ ToSet(o.ips) \subseteq acc.byKey[k].ips /\ ToSet(o.macs) \subseteq acc.byKey[k].macs
                           /\ o.ips = <<>> /\ o.macs = <<>> => k = o.id
        BY <2>21, <3>1 DEF Began
      <4> QED
        BY <4>1, <4>2 DEF Grown
    <3>2. CASE k \notin DOMAIN acc.byKey
      <4>1. k = key /\ new.byKey[k] = dst
        BY <2>6, <3>2
      <4>2. dst.id = d.id /\ dst.ips = ToSet(d.ips) /\ dst.macs = ToSet(d.macs)
        BY <2>4, <3>2, <4>1 DEF Destined
      <4> QED
        BY <2>3, <3>2, <4>1, <4>2
    <3> QED
      BY <3>1, <3>2
  <2>13. OneId(new)
    <3>1. ASSUME key \notin DOMAIN acc.byKey, NEW k \in DOMAIN acc.byKey PROVE acc.byKey[k].id # d.id
      <4> SUFFICES ASSUME acc.byKey[k].id = d.id PROVE FALSE
        OBVIOUS
      <4>1. PICK o \in U : /\ o.id = acc.byKey[k].id
                           /\ ToSet(o.ips) \subseteq acc.byKey[k].ips /\ ToSet(o.macs) \subseteq acc.byKey[k].macs
                           /\ o.ips = <<>> /\ o.macs = <<>> => k = o.id
        BY <2>21 DEF Began
      <4>2. \/ ToSet(o.ips) \cap ToSet(d.ips) # {} \/ ToSet(o.macs) \cap ToSet(d.macs) # {}
            \/ o.ips = <<>> /\ d.ips = <<>> /\ o.macs = <<>> /\ d.macs = <<>>
        BY <4>1 DEF Consistent
      <4>3. CASE ToSet(o.ips) \cap ToSet(d.ips) # {}
        BY <2>3, <2>21, <3>1, <4>1, <4>3 DEF Indexed
      <4>4. CASE ToSet(o.macs) \cap ToSet(d.macs) # {}
        BY <2>3, <2>21, <3>1, <4>1, <4>4 DEF Indexed
      <4>5. CASE o.ips = <<>> /\ d.ips = <<>> /\ o.macs = <<>> /\ d.macs = <<>>
        BY <2>3, <3>1, <4>1, <4>5
      <4> QED
        BY <4>2, <4>3, <4>4, <4>5
    <3>2. \A k \in DOMAIN acc.byKey : new.byKey[k].id = acc.byKey[k].id
      BY <2>9 DEF Keeps, Grown
    <3>3. key \notin DOMAIN acc.byKey => new.byKey[key].id = d.id
      BY <2>4, <2>6 DEF Destined
    <3> QED
      BY <2>6, <2>21, <3>1, <3>2, <3>3 DEF OneId
  <2>14. new \in MergeStates(U)
    BY <2>7, <2>8, <2>11, <2>12, <2>13 DEF MergeStates
  <2> QED
    BY <2>1, <2>9, <2>10, <2>14 DEF MergedOne
<1> QED
  BY <1>1, <1>2

-----------------------------------------------------------------------------
(* All observations.                                                       *)

LEMMA NothingMergedYet ==
    ASSUME NEW U
    PROVE  NothingMerged \in MergeStates(U)
<1>1. <<>> \in [{} -> Device] /\ <<>> \in [{} -> Keys]
  <2>1. <<>> = [x \in {} |-> x]
    OBVIOUS
  <2> QED
    BY <2>1
<1>2. <<>> \in Maps(Keys, Device) /\ <<>> \in Maps(Names, Keys)
  <2>1. {} \in SUBSET Keys /\ {} \in SUBSET Names
    OBVIOUS
  <2> QED
    BY <1>1, <2>1, Zenon DEF Maps
<1>3. DOMAIN NothingMerged.byKey = {} /\ DOMAIN NothingMerged.known = {}
  BY DEF NothingMerged
<1>4. NothingMerged \in [byKey : Maps(Keys, Device), known : Maps(Names, Keys)]
  BY <1>2 DEF NothingMerged
<1>5. IsFiniteSet(DOMAIN NothingMerged.byKey)
  BY <1>3, FS_EmptySet, Zenon
<1>6. Indexed(NothingMerged) /\ Began(NothingMerged, U) /\ OneId(NothingMerged)
  BY <1>3 DEF Indexed, Began, OneId
<1> QED
  BY <1>4, <1>5, <1>6 DEF MergeStates

LEMMA KeepsOn ==
    ASSUME NEW a, NEW b, NEW c, Keeps(a, b), Keeps(b, c)
    PROVE  Keeps(a, c) /\ \A o : Found(b, o) => Found(c, o)
<1>1. ASSUME NEW k \in DOMAIN a.byKey PROVE k \in DOMAIN c.byKey /\ Grown(a.byKey[k], c.byKey[k])
  <2>1. k \in DOMAIN b.byKey /\ Grown(a.byKey[k], b.byKey[k])
    BY DEF Keeps
  <2>2. k \in DOMAIN c.byKey /\ Grown(b.byKey[k], c.byKey[k])
    BY <2>1 DEF Keeps
  <2> QED
    BY <2>1, <2>2 DEF Grown
<1>2. ASSUME NEW o, Found(b, o) PROVE Found(c, o)
  <2>1. PICK k \in DOMAIN b.byKey : Holds(b.byKey[k], o)
    BY <1>2 DEF Found
  <2>2. k \in DOMAIN c.byKey /\ Grown(b.byKey[k], c.byKey[k])
    BY DEF Keeps
  <2> QED
    BY <2>1, <2>2 DEF Grown, Holds, Found, Told
<1> QED
  BY <1>1, <1>2 DEF Keeps

\* The states of the merge while it goes through the devices of one result.
MergesOne(run, first, r) ==
    /\ run[0] = first
    /\ \A k \in 1..Len(r.devices) : run[k] = MergeOne(run[k - 1], r.devices[k], r.ev)
    /\ MergeResult(first, r) = run[Len(r.devices)]

ResultOf(U) == {r \in ProbeResult : r.devices \in Seq(U)}

LEMMA MergeOneRun ==
    ASSUME NEW U, Consistent(U), NEW r \in ResultOf(U), NEW first \in MergeStates(U)
    PROVE  \E run \in [0..Len(r.devices) -> MergeStates(U)] : MergesOne(run, first, r)
<1> DEFINE B == MergeStates(U)
           q == r.devices
           step(a, d) == MergeOne(a, d, r.ev)
           o == [p \in B \X U |-> step(p[1], p[2])]
           Sol(g) == g = [s \in SUBSET DOMAIN q |-> IF s = {} THEN first ELSE step(g[s \ {Max(s)}], q[Max(s)])]
           f == CHOOSE g : Sol(g)
<1>01. q \in Seq(U) /\ r.ev \in Seq(EvidenceRecord)
  BY DEF ResultOf, ProbeResult
<1>1. \A s \in B, x \in U : step(s, x) \in B
  BY <1>01, MergeOneStep DEF MergedOne
<1>13. \A s \in B, x \in U : o[<<s, x>>] = step(s, x)
  OBVIOUS
<1>6. MergeResult(first, r) = f[DOMAIN q]
  BY Zenon DEF FoldLeft, MapThenFoldSet, MergeResult
<1> HIDE DEF step
<1>11. o \in [B \X U -> B]
  BY <1>1
<1> HIDE DEF o, B, q
<1>0. Len(q) \in Nat /\ DOMAIN q = 1..Len(q) /\ \A k \in 1..Len(q) : q[k] \in U
  BY <1>01
<1>12. first \in B
  BY DEF B
<1>2. PICK h \in [SUBSET DOMAIN q -> B] : IsFold(h, o, first, q)
  BY <1>01, <1>11, <1>12, FoldExists
<1>4. Sol(h)
  <2>1. ASSUME NEW s \in SUBSET DOMAIN q, s # {} PROVE h[s] = step(h[s \ {Max(s)}], q[Max(s)])
    <3>1. h[s \ {Max(s)}] \in B /\ q[Max(s)] \in U
      BY <1>01, <1>2, <2>1, FoldUse
    <3>2. h[s] = o[<<h[s \ {Max(s)}], q[Max(s)]>>]
      BY <1>2, <2>1 DEF IsFold
    <3> QED
      BY <1>13, <3>1, <3>2
  <2> QED
    BY <1>2, <2>1 DEF IsFold
<1>5. Sol(f)
  BY <1>4, Zenon
<1> HIDE DEF f
<1>81. Unrolls(f, o, first, B, q)
  <2>1. ASSUME NEW k \in 1..Len(q), f[1..k - 1] \in B PROVE f[1..k] = o[<<f[1..k - 1], q[k]>>]
    <3>1. k \in Nat /\ k # 0 /\ 1..k \in SUBSET DOMAIN q
      BY <1>0
    <3>2. f[1..k] = step(f[(1..k) \ {Max(1..k)}], q[Max(1..k)])
      BY <1>5, <3>1, MaxOfPrefix
    <3> QED
      BY <1>0, <1>13, <2>1, <3>1, <3>2, MaxOfPrefix
  <2> QED
    BY <1>5, <2>1 DEF Unrolls
<1>9. PICK run \in [0..Len(q) -> B] : IsRun(run, o, first, q) /\ EndsIn(run, q, f[DOMAIN q])
  BY <1>01, <1>11, <1>12, <1>81, FoldPrefixes
<1>10. ASSUME NEW k \in 1..Len(q) PROVE run[k] = step(run[k - 1], q[k])
  <2>1. k - 1 \in 0..Len(q) /\ q[k] \in U /\ run[k - 1] \in B
    BY <1>0
  <2> QED
    BY <1>13, <1>9, <2>1 DEF IsRun
<1> QED
  BY <1>6, <1>9, <1>10 DEF IsRun, EndsIn, step, B, q, MergesOne

\* What a result makes of the merge.
MergedResult(acc, new, U, r) ==
    /\ new \in MergeStates(U)
    /\ Keeps(acc, new)
    /\ \A d \in ToSet(r.devices) : HasPublicOnlyIPs(d) \/ Found(new, d)

LEMMA MergeResultStep ==
    ASSUME NEW U, Consistent(U), NEW r \in ResultOf(U), NEW acc \in MergeStates(U)
    PROVE  MergedResult(acc, MergeResult(acc, r), U, r)
<1> DEFINE n == Len(r.devices)
<1>0. n \in Nat /\ DOMAIN r.devices = 1..n /\ (\A k \in 1..n : r.devices[k] \in U) /\ r.ev \in Seq(EvidenceRecord)
  BY DEF ResultOf, ProbeResult
<1> HIDE DEF n
<1>1. PICK run \in [0..Len(r.devices) -> MergeStates(U)] : MergesOne(run, acc, r)
  BY MergeOneRun
<1>2. /\ run[0] = acc /\ MergeResult(acc, r) = run[n]
      /\ \A k \in 0..n : run[k] \in MergeStates(U)
      /\ \A k \in 1..n : run[k] = MergeOne(run[k - 1], r.devices[k], r.ev)
  BY <1>1 DEF MergesOne, n
<1> DEFINE Kept(k) == Keeps(acc, run[k]) /\ \A j \in 1..k : HasPublicOnlyIPs(r.devices[j]) \/ Found(run[k], r.devices[j])
           G == {k \in Nat : k \in 0..n /\ Kept(k)}
<1>3. 0 \in G
  BY <1>0, <1>2, GrownSame DEF Keeps
<1>4. ASSUME NEW k \in 0..n - 1, k \in G PROVE k + 1 \in G
  <2>1. k + 1 \in 1..n /\ k + 1 \in 0..n /\ (k + 1) - 1 = k /\ k \in Nat /\ k + 1 \in Nat /\ k \in 0..n
    BY <1>0
  <2>2. MergedOne(run[k], run[k + 1], U, r.devices[k + 1])
    <3>1. run[k + 1] = MergeOne(run[k], r.devices[k + 1], r.ev)
      BY <1>2, <2>1
    <3>2. run[k] \in MergeStates(U) /\ r.devices[k + 1] \in U
      BY <1>0, <1>2, <2>1
    <3> QED
      BY <1>0, <3>1, <3>2, MergeOneStep
  <2>3. Keeps(acc, run[k]) /\ \A j \in 1..k : HasPublicOnlyIPs(r.devices[j]) \/ Found(run[k], r.devices[j])
    BY <1>4
  <2>4. Keeps(run[k], run[k + 1]) /\ (HasPublicOnlyIPs(r.devices[k + 1]) \/ Found(run[k + 1], r.devices[k + 1]))
    BY <2>2 DEF MergedOne
  <2>5. Keeps(acc, run[k + 1]) /\ \A o : Found(run[k], o) => Found(run[k + 1], o)
    <3>1. Keeps(acc, run[k + 1])
      BY <2>3, <2>4, KeepsOn
    <3>2. \A o : Found(run[k], o) => Found(run[k + 1], o)
      BY <2>3, <2>4, KeepsOn
    <3> QED
      BY <3>1, <3>2
  <2>6. \A j \in 1..k + 1 : j \in 1..k \/ j = k + 1
    BY <2>1
  <2>7. Kept(k + 1)
    BY <2>3, <2>4, <2>5, <2>6
  <2> HIDE DEF Kept
  <2> QED
    BY <2>1, <2>7
<1>5. n \in G
  <2>1. G \in SUBSET Nat
    OBVIOUS
  <2> HIDE DEF G
  <2>2. \A k \in 0..n - 1 : k \in G => k + 1 \in G
    BY <1>4
  <2>3. \A k \in 0..n : k \in G
    BY <1>0, <1>3, <2>1, <2>2, UpTo
  <2> QED
    BY <1>0, <2>3
<1>6. Keeps(acc, run[n]) /\ \A j \in 1..n : HasPublicOnlyIPs(r.devices[j]) \/ Found(run[n], r.devices[j])
  BY <1>5
<1>7. run[n] \in MergeStates(U)
  BY <1>0, <1>2
<1>8. \A d \in ToSet(r.devices) : HasPublicOnlyIPs(d) \/ Found(run[n], d)
  BY <1>0, <1>6 DEF ToSet
<1> QED
  BY <1>2, <1>6, <1>7, <1>8 DEF MergedResult

\* The states of the merge while it goes through the results.
MergesAll(run, rs) ==
    /\ run[0] = NothingMerged
    /\ \A k \in 1..Len(rs) : run[k] = MergeResult(run[k - 1], rs[k])
    /\ MergeAll(rs) = run[Len(rs)]

LEMMA MergeAllRun ==
    ASSUME NEW U, Consistent(U), NEW rs \in Seq(ResultOf(U))
    PROVE  \E run \in [0..Len(rs) -> MergeStates(U)] : MergesAll(run, rs)
<1> DEFINE B == MergeStates(U)
           R == ResultOf(U)
           q == rs
           o == [p \in B \X R |-> MergeResult(p[1], p[2])]
           Sol(g) == g = [s \in SUBSET DOMAIN q |-> IF s = {} THEN NothingMerged ELSE MergeResult(g[s \ {Max(s)}], q[Max(s)])]
           f == CHOOSE g : Sol(g)
<1>1. \A s \in B, r \in R : MergeResult(s, r) \in B
  BY MergeResultStep DEF MergedResult
<1>6. MergeAll(rs) = f[DOMAIN q]
  BY Zenon DEF FoldLeft, MapThenFoldSet, MergeAll
<1>13. \A s \in B, r \in R : o[<<s, r>>] = MergeResult(s, r)
  OBVIOUS
<1>11. o \in [B \X R -> B]
  BY <1>1
<1> HIDE DEF o, B, R, q
<1>12. NothingMerged \in B
  BY NothingMergedYet DEF B
<1>01. q \in Seq(R)
  BY DEF R, q
<1>0. Len(q) \in Nat /\ DOMAIN q = 1..Len(q) /\ \A k \in 1..Len(q) : q[k] \in R
  BY <1>01
<1>2. PICK h \in [SUBSET DOMAIN q -> B] : IsFold(h, o, NothingMerged, q)
  BY <1>01, <1>11, <1>12, FoldExists
<1>4. Sol(h)
  <2>1. ASSUME NEW s \in SUBSET DOMAIN q, s # {} PROVE h[s] = MergeResult(h[s \ {Max(s)}], q[Max(s)])
    <3>1. h[s \ {Max(s)}] \in B /\ q[Max(s)] \in R
      BY <1>01, <1>2, <2>1, FoldUse
    <3>2. h[s] = o[<<h[s \ {Max(s)}], q[Max(s)]>>]
      BY <1>2, <2>1 DEF IsFold
    <3> QED
      BY <1>13, <3>1, <3>2
  <2> QED
    BY <1>2, <2>1 DEF IsFold
<1>5. Sol(f)
  BY <1>4, Zenon
<1> HIDE DEF f
<1>81. Unrolls(f, o, NothingMerged, B, q)
  <2>1. ASSUME NEW k \in 1..Len(q), f[1..k - 1] \in B PROVE f[1..k] = o[<<f[1..k - 1], q[k]>>]
    <3>1. k \in Nat /\ k # 0 /\ 1..k \in SUBSET DOMAIN q
      BY <1>0
    <3>2. f[1..k] = MergeResult(f[(1..k) \ {Max(1..k)}], q[Max(1..k)])
      BY <1>5, <3>1, MaxOfPrefix
    <3> QED
      BY <1>0, <1>13, <2>1, <3>1, <3>2, MaxOfPrefix
  <2> QED
    BY <1>5, <2>1 DEF Unrolls
<1>9. PICK run \in [0..Len(q) -> B] : IsRun(run, o, NothingMerged, q) /\ EndsIn(run, q, f[DOMAIN q])
  BY <1>01, <1>11, <1>12, <1>81, FoldPrefixes
<1>10. ASSUME NEW k \in 1..Len(q) PROVE run[k] = MergeResult(run[k - 1], q[k])
  <2>1. k - 1 \in 0..Len(q) /\ q[k] \in R /\ run[k - 1] \in B
    BY <1>0
  <2> QED
    BY <1>13, <1>9, <2>1 DEF IsRun
<1> QED
  BY <1>6, <1>9, <1>10 DEF IsRun, EndsIn, B, q, MergesAll

\* What the merge of all results is.
MergedOf(acc, U, rs) ==
    /\ acc \in MergeStates(U)
    /\ \A j \in DOMAIN rs : \A d \in ToSet(rs[j].devices) : HasPublicOnlyIPs(d) \/ Found(acc, d)

LEMMA MergeAllResults ==
    ASSUME NEW U, Consistent(U), NEW rs \in Seq(ResultOf(U))
    PROVE  MergedOf(MergeAll(rs), U, rs)
<1> DEFINE n == Len(rs)
           AllFound(acc, j) == \A d \in ToSet(rs[j].devices) : HasPublicOnlyIPs(d) \/ Found(acc, d)
<1>0. n \in Nat /\ DOMAIN rs = 1..n /\ (\A k \in 1..n : rs[k] \in ResultOf(U))
  OBVIOUS
<1> HIDE DEF n
<1>1. PICK run \in [0..Len(rs) -> MergeStates(U)] : MergesAll(run, rs)
  BY MergeAllRun
<1>2. /\ MergeAll(rs) = run[n]
      /\ \A k \in 0..n : run[k] \in MergeStates(U)
      /\ \A k \in 1..n : run[k] = MergeResult(run[k - 1], rs[k])
  BY <1>1 DEF MergesAll, n
<1> DEFINE Kept(k) == \A j \in 1..k : AllFound(run[k], j)
           G == {k \in Nat : k \in 0..n /\ Kept(k)}
<1>3. 0 \in G
  BY <1>0
<1>4. ASSUME NEW k \in 0..n - 1, k \in G PROVE k + 1 \in G
  <2>1. k + 1 \in 1..n /\ k + 1 \in 0..n /\ (k + 1) - 1 = k /\ k \in Nat /\ k + 1 \in Nat /\ k \in 0..n
    BY <1>0
  <2>2. MergedResult(run[k], run[k + 1], U, rs[k + 1])
    <3>1. run[k + 1] = MergeResult(run[k], rs[k + 1])
      BY <1>2, <2>1
    <3>2. run[k] \in MergeStates(U) /\ rs[k + 1] \in ResultOf(U)
      BY <1>0, <1>2, <2>1
    <3> QED
      BY <3>1, <3>2, MergeResultStep
  <2>3. \A j \in 1..k : AllFound(run[k], j)
    BY <1>4
  <2>4. Keeps(run[k], run[k + 1]) /\ AllFound(run[k + 1], k + 1)
    BY <2>2 DEF MergedResult
  <2>5. \A o : Found(run[k], o) => Found(run[k + 1], o)
    <3>1. Keeps(run[k], run[k])
      BY GrownSame DEF Keeps
    <3> QED
      BY <2>4, <3>1, KeepsOn
  <2>6. \A j \in 1..k + 1 : j \in 1..k \/ j = k + 1
    BY <2>1
  <2>7. Kept(k + 1)
    BY <2>3, <2>4, <2>5, <2>6
  <2> HIDE DEF Kept
  <2> QED
    BY <2>1, <2>7
<1>5. n \in G
  <2>1. G \in SUBSET Nat
    OBVIOUS
  <2> HIDE DEF G
  <2>2. \A k \in 0..n - 1 : k \in G => k + 1 \in G
    BY <1>4
  <2>3. \A k \in 0..n : k \in G
    BY <1>0, <1>3, <2>1, <2>2, UpTo
  <2> QED
    BY <1>0, <2>3
<1>6. \A j \in 1..n : AllFound(run[n], j)
  BY <1>5
<1>7. run[n] \in MergeStates(U)
  BY <1>0, <1>2
<1> QED
  BY <1>0, <1>2, <1>6, <1>7 DEF MergedOf

-----------------------------------------------------------------------------
(* Classification.                                                         *)

\* The classes, from the table.
ClassTyped(c) == c.type \in Labels /\ c.floor \in Int /\ c.roles \in SUBSET Labels

LEMMA ClassesTyped ==
    /\ DOMAIN Classes = 1..12
    /\ \A i \in 1..12 : ClassTyped(Classes[i])
<1>1. DOMAIN Classes = 1..12
  BY DEF Classes
<1>2. \A i \in 1..12 : i = 1 \/ i = 2 \/ i = 3 \/ i = 4 \/ i = 5 \/ i = 6 \/ i = 7 \/ i = 8 \/ i = 9 \/ i = 10 \/ i = 11 \/ i = 12
  OBVIOUS
<1>3. Classes[1].type = "router" /\ Classes[1].floor = 65 /\ Classes[1].roles = {}
  BY DEF Classes, Class
<1>4. Classes[2].type = "managed_switch" /\ Classes[2].floor = 90 /\ Classes[2].roles = {"switching_device"}
  BY DEF Classes, Class
<1>5. Classes[3].type = "access_point" /\ Classes[3].floor = 85 /\ Classes[3].roles = {"wifi_ap"}
  BY DEF Classes, Class
<1>6. Classes[4].type = "ont" /\ Classes[4].floor = 80 /\ Classes[4].roles = {}
  BY DEF Classes, Class
<1>7. Classes[5].type = "modem" /\ Classes[5].floor = 80 /\ Classes[5].roles = {}
  BY DEF Classes, Class
<1>8. Classes[6].type = "printer" /\ Classes[6].floor = 75 /\ Classes[6].roles = {}
  BY DEF Classes, Class
<1>9. Classes[7].type = "nas" /\ Classes[7].floor = 72 /\ Classes[7].roles = {}
  BY DEF Classes, Class
<1>10. Classes[8].type = "camera" /\ Classes[8].floor = 70 /\ Classes[8].roles = {}
  BY DEF Classes, Class
<1>11. Classes[9].type = "phone" /\ Classes[9].floor = 55 /\ Classes[9].roles = {}
  BY DEF Classes, Class
<1>12. Classes[10].type = "laptop" /\ Classes[10].floor = 55 /\ Classes[10].roles = {}
  BY DEF Classes, Class
<1>13. Classes[11].type = "desktop" /\ Classes[11].floor = 55 /\ Classes[11].roles = {}
  BY DEF Classes, Class
<1>14. Classes[12].type = "iot" /\ Classes[12].floor = 55 /\ Classes[12].roles = {}
  BY DEF Classes, Class
<1>15. {} \in SUBSET Labels /\ {"switching_device"} \in SUBSET Labels /\ {"wifi_ap"} \in SUBSET Labels
  BY DEF Labels
<1>16. /\ "router" \in Labels /\ "managed_switch" \in Labels /\ "access_point" \in Labels /\ "ont" \in Labels
       /\ "modem" \in Labels /\ "printer" \in Labels /\ "nas" \in Labels /\ "camera" \in Labels /\ "phone" \in Labels
       /\ "laptop" \in Labels /\ "desktop" \in Labels /\ "iot" \in Labels
  BY DEF Labels
<1>17. \A i \in 1..12 : ClassTyped(Classes[i])
  BY <1>2, <1>3, <1>4, <1>5, <1>6, <1>7, <1>8, <1>9, <1>10, <1>11, <1>12, <1>13, <1>14, <1>15, <1>16 DEF ClassTyped
<1> QED
  BY <1>1, <1>17

\* What classification leaves as it is.
SameDevice(d, e) ==
    /\ e.id = d.id /\ e.ips = d.ips /\ e.macs = d.macs /\ e.hosts = d.hosts
    /\ e.ports = d.ports /\ e.words = d.words /\ e.ev = d.ev
    /\ d.roles \subseteq e.roles

LEMMA ReclassifiedKeeps ==
    ASSUME NEW d \in Device, NEW type \in Labels, NEW roles \in SUBSET Labels, d.roles \subseteq roles,
           NEW conf \in Int, NEW inferred \in BOOLEAN
    PROVE  Reclassified(d, type, roles, conf, inferred) \in Device
           /\ SameDevice(d, Reclassified(d, type, roles, conf, inferred))
  BY DEF Reclassified, Device, SameDevice

LEMMA TypedKeeps ==
    ASSUME NEW d \in Device
    PROVE  Typed(d) \in Device /\ SameDevice(d, Typed(d))
<1> DEFINE c == Classes[Min(ClassesOf(d))]
<1>1. /\ d.type \in Labels /\ d.roles \in SUBSET Labels /\ d.conf \in Int /\ d.inferred \in BOOLEAN
      /\ "local_host" \in Labels /\ "switching_device" \in Labels
  BY DEF Device, Labels
<1>2. CASE d.type = "local_host"
  <2>1. Typed(d) = Reclassified(d, d.type, d.roles \cup {"local_host"}, MaxOf(d.conf, 85), d.inferred)
    BY <1>2 DEF Typed
  <2>2. MaxOf(d.conf, 85) \in Int /\ d.roles \cup {"local_host"} \in SUBSET Labels
    BY <1>1 DEF MaxOf
  <2> QED
    BY <1>1, <2>1, <2>2, ReclassifiedKeeps
<1>3. CASE d.type = "virtual_adapter"
  <2>1. Typed(d) = Reclassified(d, d.type, d.roles, ClampBand(d.conf, 70, 80), FALSE)
    BY <1>3 DEF Typed
  <2>2. ClampBand(d.conf, 70, 80) \in Int /\ FALSE \in BOOLEAN
    BY <1>1 DEF ClampBand, MaxOf, MinOf
  <2>3. Reclassified(d, d.type, d.roles, ClampBand(d.conf, 70, 80), FALSE) \in Device
        /\ SameDevice(d, Reclassified(d, d.type, d.roles, ClampBand(d.conf, 70, 80), FALSE))
    BY <1>1, <2>2, ReclassifiedKeeps
  <2> QED
    BY <2>1, <2>3
<1>4. CASE d.type = "isp_hop"
  <2>1. Typed(d) = Reclassified(d, d.type, d.roles, 50, d.inferred)
    BY <1>4 DEF Typed
  <2> DEFINE conf == 50
  <2>2. conf \in Int
    OBVIOUS
  <2> HIDE DEF conf
  <2>3. Reclassified(d, d.type, d.roles, conf, d.inferred) \in Device
        /\ SameDevice(d, Reclassified(d, d.type, d.roles, conf, d.inferred))
    BY <1>1, <2>2, ReclassifiedKeeps
  <2> QED
    BY <2>1, <2>3 DEF conf
<1>5. CASE d.type = "inferred_switch"
  <2>1. Typed(d) = Reclassified(d, d.type, d.roles \cup {"switching_device"}, ClampBand(d.conf, 45, 60), TRUE)
    BY <1>5 DEF Typed
  <2>2. ClampBand(d.conf, 45, 60) \in Int /\ TRUE \in BOOLEAN
    BY <1>1 DEF ClampBand, MaxOf, MinOf
  <2>3. d.roles \cup {"switching_device"} \in SUBSET Labels /\ d.roles \subseteq d.roles \cup {"switching_device"}
    BY <1>1
  <2> DEFINE roles == d.roles \cup {"switching_device"}
  <2> HIDE DEF roles
  <2>4. Reclassified(d, d.type, roles, ClampBand(d.conf, 45, 60), TRUE) \in Device
        /\ SameDevice(d, Reclassified(d, d.type, roles, ClampBand(d.conf, 45, 60), TRUE))
    BY <1>1, <2>2, <2>3, ReclassifiedKeeps DEF roles
  <2> QED
    BY <2>1, <2>4 DEF roles
<1>6. CASE d.type \notin {"local_host", "virtual_adapter", "isp_hop", "inferred_switch"} /\ ClassesOf(d) = {}
  <2>1. Typed(d) = d
    BY <1>6 DEF Typed
  <2> QED
    BY <2>1 DEF SameDevice
<1>7. CASE d.type \notin {"local_host", "virtual_adapter", "isp_hop", "inferred_switch"} /\ ClassesOf(d) # {}
  <2>1. Typed(d) = Reclassified(d, c.type, d.roles \cup c.roles, MaxOf(d.conf, ClassFloor(d, c)), d.inferred)
    BY <1>7 DEF Typed
  <2>2. Min(ClassesOf(d)) \in 1..12
    <3>1. ClassesOf(d) \subseteq 1..12
      BY ClassesTyped DEF ClassesOf
    <3>2. ClassesOf(d) \in SUBSET Nat
      BY <3>1
    <3> QED
      BY <1>7, <3>1, <3>2, MinIn
  <2>3. ClassTyped(c)
    BY <2>2, ClassesTyped
  <2> HIDE DEF c
  <2>4. RouterConfidence(DeviceText(d)) \in Int
    BY DEF RouterConfidence
  <2>5. ClassFloor(d, c) \in Int
    BY <2>3, <2>4 DEF ClassFloor, ClassTyped
  <2>6. MaxOf(d.conf, ClassFloor(d, c)) \in Int /\ d.roles \cup c.roles \in SUBSET Labels /\ c.type \in Labels
        /\ d.roles \subseteq d.roles \cup c.roles
    BY <1>1, <2>3, <2>5 DEF MaxOf, ClassTyped
  <2> QED
    BY <1>1, <2>1, <2>6, ReclassifiedKeeps
<1> QED
  BY <1>2, <1>3, <1>4, <1>5, <1>6, <1>7

LEMMA ClassifyKeeps ==
    ASSUME NEW d \in Device
    PROVE  ClassifyDevice(d) \in Device /\ SameDevice(d, ClassifyDevice(d))
<1> DEFINE u == [d EXCEPT !.type = IF @ = "" THEN "unknown" ELSE @]
           t == Typed(u)
           w == IF t.type = "unknown" /\ HasOnlyWeakEvidence(t.ev) THEN [t EXCEPT !.conf = MaxOf(@, 35)] ELSE t
<1>1. "unknown" \in Labels /\ d.type \in Labels
  BY DEF Device, Labels
<1>2. u \in Device /\ SameDevice(d, u)
  BY <1>1 DEF Device, SameDevice
<1> HIDE DEF u
<1>3. t \in Device /\ SameDevice(u, t)
  BY <1>2, TypedKeeps
<1> HIDE DEF t
<1>4. MaxOf(t.conf, 35) \in Int
  BY <1>3 DEF Device, MaxOf
<1>5. [t EXCEPT !.conf = MaxOf(@, 35)] \in Device /\ SameDevice(t, [t EXCEPT !.conf = MaxOf(@, 35)])
  BY <1>3, <1>4 DEF Device, SameDevice
<1>6. w \in Device /\ SameDevice(t, w)
  BY <1>3, <1>5 DEF SameDevice
<1> HIDE DEF w
<1>7. ClassifyDevice(d) = [w EXCEPT !.conf = TopologyDeviceConfidence(w)]
  BY DEF ClassifyDevice, u, t, w
<1>8. TopologyDeviceConfidence(w) \in Int
  BY <1>6, ConfidenceTyped
<1>9. ClassifyDevice(d) \in Device /\ SameDevice(w, ClassifyDevice(d))
  BY <1>6, <1>7, <1>8 DEF Device, SameDevice
<1> QED
  BY <1>2, <1>3, <1>6, <1>9 DEF SameDevice

-----------------------------------------------------------------------------
(* The list of devices.                                                    *)

\* The states of the loop over the identifiers in their order.
Lists(run, ds) ==
    /\ run[0] = <<>>
    /\ \A k \in 1..Len(Lexical) : run[k] = run[k - 1] \o SetToSeq({d \in ds : d.id = Lexical[k]})
    /\ ById(ds) = run[Len(Lexical)]

\* s lists the devices with an identifier.
ListsId(s, ds, id) ==
    /\ s \in Seq(ds) /\ ToSet(s) = {d \in ds : d.id = id}
    /\ \A i, j \in DOMAIN s : i # j => s[i] # s[j]

LEMMA OfOneId ==
    ASSUME NEW ds, IsFiniteSet(ds), NEW id
    PROVE  ListsId(SetToSeq({d \in ds : d.id = id}), ds, id)
<1> DEFINE S == {d \in ds : d.id = id}
<1>1. IsFiniteSet(S) /\ S \subseteq ds
  BY FS_Subset
<1> HIDE DEF S
<1>2. SetToSeq(S) \in Seq(S) /\ ToSet(SetToSeq(S)) = S
      /\ \A i, j \in DOMAIN SetToSeq(S) : i # j => SetToSeq(S)[i] # SetToSeq(S)[j]
  BY <1>1, Listing
<1>3. SetToSeq(S) \in Seq(ds)
  BY <1>1, <1>2
<1> QED
  BY <1>2, <1>3 DEF S, ListsId

LEMMA ByIdRun ==
    ASSUME NEW ds, IsFiniteSet(ds), LexicalAssumption
    PROVE  \E run \in [0..Len(Lexical) -> Seq(ds)] : Lists(run, ds)
<1> DEFINE B == Seq(ds)
           q == Lexical
           step(s, id) == s \o SetToSeq({d \in ds : d.id = id})
           o == [p \in B \X Ids |-> step(p[1], p[2])]
           Sol(g) == g = [s \in SUBSET DOMAIN q |-> IF s = {} THEN <<>> ELSE step(g[s \ {Max(s)}], q[Max(s)])]
           f == CHOOSE g : Sol(g)
<1>01. q \in Seq(Ids)
  BY DEF LexicalAssumption
<1>1. ASSUME NEW s \in B, NEW x \in Ids PROVE step(s, x) \in B
  <2>1. SetToSeq({d \in ds : d.id = x}) \in Seq(ds)
    BY OfOneId DEF ListsId
  <2> DEFINE t == SetToSeq({d \in ds : d.id = x})
  <2> HIDE DEF t
  <2>2. s \o t \in Seq(ds)
    BY <2>1 DEF t
  <2> QED
    BY <2>2 DEF t
<1>13. \A s \in B, x \in Ids : o[<<s, x>>] = step(s, x)
  OBVIOUS
<1>6. ById(ds) = f[DOMAIN q]
  BY Zenon DEF FoldLeft, MapThenFoldSet, ById
<1> HIDE DEF step
<1>11. o \in [B \X Ids -> B]
  BY <1>1
<1> HIDE DEF o, B, q
<1>0. Len(q) \in Nat /\ DOMAIN q = 1..Len(q) /\ \A k \in 1..Len(q) : q[k] \in Ids
  BY <1>01
<1>12. <<>> \in B
  BY DEF B
<1>2. PICK h \in [SUBSET DOMAIN q -> B] : IsFold(h, o, <<>>, q)
  BY <1>01, <1>11, <1>12, FoldExists
<1>4. Sol(h)
  <2>1. ASSUME NEW s \in SUBSET DOMAIN q, s # {} PROVE h[s] = step(h[s \ {Max(s)}], q[Max(s)])
    <3>1. h[s \ {Max(s)}] \in B /\ q[Max(s)] \in Ids
      BY <1>01, <1>2, <2>1, FoldUse
    <3>2. h[s] = o[<<h[s \ {Max(s)}], q[Max(s)]>>]
      BY <1>2, <2>1 DEF IsFold
    <3> QED
      BY <1>13, <3>1, <3>2
  <2> QED
    BY <1>2, <2>1 DEF IsFold
<1>5. Sol(f)
  BY <1>4, Zenon
<1> HIDE DEF f
<1>81. Unrolls(f, o, <<>>, B, q)
  <2>1. ASSUME NEW k \in 1..Len(q), f[1..k - 1] \in B PROVE f[1..k] = o[<<f[1..k - 1], q[k]>>]
    <3>1. k \in Nat /\ k # 0 /\ 1..k \in SUBSET DOMAIN q
      BY <1>0
    <3>2. f[1..k] = step(f[(1..k) \ {Max(1..k)}], q[Max(1..k)])
      BY <1>5, <3>1, MaxOfPrefix
    <3> QED
      BY <1>0, <1>13, <2>1, <3>1, <3>2, MaxOfPrefix
  <2> QED
    BY <1>5, <2>1 DEF Unrolls
<1>9. PICK run \in [0..Len(q) -> B] : IsRun(run, o, <<>>, q) /\ EndsIn(run, q, f[DOMAIN q])
  BY <1>01, <1>11, <1>12, <1>81, FoldPrefixes
<1>10. ASSUME NEW k \in 1..Len(q) PROVE run[k] = step(run[k - 1], q[k])
  <2>1. k - 1 \in 0..Len(q) /\ q[k] \in Ids /\ run[k - 1] \in B
    BY <1>0
  <2> QED
    BY <1>13, <1>9, <2>1 DEF IsRun
<1> QED
  BY <1>6, <1>9, <1>10 DEF IsRun, EndsIn, step, B, q, Lists

\* The devices of a list have different identifiers.
DistinctIds(s) == \A i, j \in DOMAIN s : i # j => s[i].id # s[j].id

LEMMA JoinedDistinct ==
    ASSUME NEW A, NEW p \in Seq(A), NEW q \in Seq(A), DistinctIds(p), DistinctIds(q),
           \A x \in ToSet(p), y \in ToSet(q) : x.id # y.id
    PROVE  DistinctIds(p \o q)
<1> DEFINE m == Len(p)
           n == Len(q)
           t == p \o q
<1>1. /\ m \in Nat /\ n \in Nat /\ DOMAIN p = 1..m /\ DOMAIN q = 1..n
      /\ DOMAIN t = 1..m + n
      /\ \A i \in 1..m + n : t[i] = IF i <= m THEN p[i] ELSE q[i - m]
  OBVIOUS
<1> HIDE DEF m, n, t
<1>2. \A i \in 1..m + n : (i <= m => i \in 1..m) /\ (~(i <= m) => i - m \in 1..n)
  BY <1>1
<1>3. \A i, j \in 1..m + n : i # j /\ ~(i <= m) /\ ~(j <= m) => i - m # j - m
  BY <1>1
<1>4. (\A i \in 1..m : p[i] \in ToSet(p)) /\ (\A i \in 1..n : q[i] \in ToSet(q))
  BY <1>1 DEF ToSet
<1>5. ASSUME NEW i \in 1..m + n, NEW j \in 1..m + n, i # j PROVE t[i].id # t[j].id
  <2>1. CASE i <= m /\ j <= m
    BY <1>1, <1>2, <1>5, <2>1 DEF DistinctIds
  <2>2. CASE i <= m /\ ~(j <= m)
    BY <1>1, <1>2, <1>4, <2>2
  <2>3. CASE ~(i <= m) /\ j <= m
    BY <1>1, <1>2, <1>4, <2>3
  <2>4. CASE ~(i <= m) /\ ~(j <= m)
    BY <1>1, <1>2, <1>3, <1>5, <2>4 DEF DistinctIds
  <2> QED
    BY <2>1, <2>2, <2>3, <2>4
<1> QED
  BY <1>1, <1>5 DEF DistinctIds, t

LEMMA ByIdLists ==
    ASSUME NEW ds, IsFiniteSet(ds), LexicalAssumption, \A d \in ds : d.id \in ToSet(Lexical),
           \A d, e \in ds : d.id = e.id => d = e
    PROVE  ById(ds) \in Seq(ds) /\ ToSet(ById(ds)) = ds /\ DistinctIds(ById(ds))
<1> DEFINE n == Len(Lexical)
           at(k) == {d \in ds : d.id = Lexical[k]}
<1>0. n \in Nat /\ DOMAIN Lexical = 1..n /\ \A i, j \in 1..n : Lexical[i] = Lexical[j] => i = j
  BY DEF LexicalAssumption, IsInjective
<1>1. PICK run \in [0..Len(Lexical) -> Seq(ds)] : Lists(run, ds)
  BY ByIdRun
<1> HIDE DEF n
<1>2. /\ run[0] = <<>> /\ ById(ds) = run[n]
      /\ \A k \in 0..n : run[k] \in Seq(ds)
      /\ \A k \in 1..n : run[k] = run[k - 1] \o SetToSeq(at(k))
  BY <1>1 DEF Lists, n
<1>3. \A k : ListsId(SetToSeq(at(k)), ds, Lexical[k])
  BY OfOneId
<1> DEFINE Kept(k) == ToSet(run[k]) = {d \in ds : \E j \in 1..k : d.id = Lexical[j]} /\ DistinctIds(run[k])
           G == {k \in Nat : k \in 0..n /\ Kept(k)}
<1>4. 0 \in G
  <2>1. 1..0 = {} /\ DOMAIN run[0] = {}
    BY <1>2
  <2>2. Kept(0)
    BY <2>1 DEF ToSet, DistinctIds
  <2> HIDE DEF Kept
  <2> QED
    BY <1>0, <2>2
<1>5. ASSUME NEW k \in 0..n - 1, k \in G PROVE k + 1 \in G
  <2>1. k + 1 \in 1..n /\ k + 1 \in 0..n /\ (k + 1) - 1 = k /\ k \in Nat /\ k + 1 \in Nat /\ k \in 0..n /\ 1..k \subseteq 1..n
    BY <1>0
  <2>2. ToSet(run[k]) = {d \in ds : \E j \in 1..k : d.id = Lexical[j]} /\ DistinctIds(run[k])
    BY <1>5
  <2> DEFINE p == run[k]
             q == SetToSeq(at(k + 1))
  <2>3. p \in Seq(ds) /\ q \in Seq(ds) /\ ToSet(q) = at(k + 1) /\ run[k + 1] = p \o q
    BY <1>2, <1>3, <2>1 DEF ListsId
  <2>4. \A i, j \in DOMAIN q : i # j => q[i] # q[j]
    BY <1>3 DEF ListsId
  <2> HIDE DEF p, q
  <2>5. \A i \in DOMAIN q : q[i] \in ds /\ q[i].id = Lexical[k + 1]
    BY <2>3 DEF ToSet
  <2>6. DistinctIds(q)
    BY <2>4, <2>5 DEF DistinctIds
  <2>7. \A j \in 1..k : Lexical[j] # Lexical[k + 1]
    <3>1. \A j \in 1..k : j # k + 1
      BY <2>1
    <3> QED
      BY <1>0, <2>1, <3>1
  <2>8. \A x \in ToSet(p), y \in ToSet(q) : x.id # y.id
    BY <2>2, <2>3, <2>7 DEF p
  <2>9. DistinctIds(p \o q)
    BY <2>2, <2>3, <2>6, <2>8, JoinedDistinct DEF p
  <2>10. ToSet(p \o q) = ToSet(p) \cup ToSet(q)
    BY <2>3, Joined
  <2>11. \A j \in 1..k + 1 : j \in 1..k \/ j = k + 1
    BY <2>1
  <2>12. 1..k \subseteq 1..k + 1 /\ k + 1 \in 1..k + 1
    BY <2>1
  <2>13. ToSet(p \o q) = {d \in ds : \E j \in 1..k + 1 : d.id = Lexical[j]}
    BY <2>2, <2>3, <2>10, <2>11, <2>12 DEF p
  <2>14. Kept(k + 1)
    BY <2>3, <2>9, <2>13
  <2> HIDE DEF Kept
  <2> QED
    BY <2>1, <2>14
<1>6. n \in G
  <2>1. G \in SUBSET Nat
    OBVIOUS
  <2> HIDE DEF G
  <2>2. \A k \in 0..n - 1 : k \in G => k + 1 \in G
    BY <1>5
  <2>3. \A k \in 0..n : k \in G
    BY <1>0, <1>4, <2>1, <2>2, UpTo
  <2> QED
    BY <1>0, <2>3
<1>7. ToSet(run[n]) = {d \in ds : \E j \in 1..n : d.id = Lexical[j]} /\ DistinctIds(run[n])
  BY <1>6
<1>8. \A d \in ds : \E j \in 1..n : d.id = Lexical[j]
  BY <1>0 DEF ToSet
<1>9. run[n] \in Seq(ds)
  BY <1>0, <1>2
<1> QED
  BY <1>2, <1>7, <1>8, <1>9

Classified(ds) == \A d \in ToSet(ds) : \E b \in Device : d = ClassifyDevice(b)

\* What MergeDevices returns: a list of classified devices without a shared MAC or identifier, and in
\* one of them everything of each observation.
Fused(ds, rs) ==
    /\ ds \in Seq(Device) /\ Classified(ds)
    /\ \A i, j \in DOMAIN ds : i # j => ds[i].macs \cap ds[j].macs = {} /\ ds[i].id # ds[j].id
    /\ \A j \in DOMAIN rs : \A o \in ToSet(rs[j].devices) : HasPublicOnlyIPs(o) \/ \E d \in ToSet(ds) : Holds(d, o)

LEMMA MergeDevicesFuses ==
    ASSUME NEW U, Consistent(U), LexicalAssumption, {o.id : o \in U} \subseteq ToSet(Lexical), NEW rs \in Seq(ResultOf(U))
    PROVE  Fused(MergeDevices(rs), rs)
<1> DEFINE acc == MergeAll(rs)
           K   == DOMAIN acc.byKey
           c   == [k \in K |-> ClassifyDevice(acc.byKey[k])]
           ds  == {ClassifyDevice(acc.byKey[k]) : k \in K}
<1>1. MergeDevices(rs) = ById(ds)
  BY DEF MergeDevices
<1>2. acc \in MergeStates(U)
      /\ \A j \in DOMAIN rs : \A o \in ToSet(rs[j].devices) : HasPublicOnlyIPs(o) \/ Found(acc, o)
  BY MergeAllResults DEF MergedOf
<1> HIDE DEF acc
<1>3. IsFiniteSet(K) /\ (\A k \in K : acc.byKey[k] \in Device) /\ Indexed(acc) /\ Began(acc, U) /\ OneId(acc)
  BY <1>2, MergeStateFacts
<1>4. \A k \in K : ClassifyDevice(acc.byKey[k]) \in Device /\ SameDevice(acc.byKey[k], ClassifyDevice(acc.byKey[k]))
  BY <1>3, ClassifyKeeps
<1>5. c \in Surjection(K, ds)
  BY DEF Surjection
<1> HIDE DEF c, K
<1>6. IsFiniteSet(ds)
  BY <1>3, <1>5, FS_Surjection
<1>7. \A d \in ds : d \in Device /\ \E k \in K : d = ClassifyDevice(acc.byKey[k]) /\ SameDevice(acc.byKey[k], d)
  BY <1>4
<1>8. \A d, e \in ds : d.id = e.id => d = e
  <2>1. ASSUME NEW j \in K, NEW k \in K, ClassifyDevice(acc.byKey[j]).id = ClassifyDevice(acc.byKey[k]).id PROVE j = k
    BY <1>3, <1>4, <2>1 DEF SameDevice, OneId, K
  <2> QED
    BY <2>1
<1>9. \A d \in ds : d.id \in ToSet(Lexical)
  <2>1. \A k \in K : \E o \in U : o.id = acc.byKey[k].id
    BY <1>3 DEF Began, K
  <2> QED
    BY <1>7, <2>1 DEF SameDevice
<1>10. \A d, e \in ds : d # e => d.macs \cap e.macs = {}
  <2> SUFFICES ASSUME NEW d \in ds, NEW e \in ds, NEW m \in d.macs, m \in e.macs PROVE d = e
    OBVIOUS
  <2>1. PICK j \in K : d = ClassifyDevice(acc.byKey[j]) /\ SameDevice(acc.byKey[j], d)
    BY <1>7
  <2>2. PICK k \in K : e = ClassifyDevice(acc.byKey[k]) /\ SameDevice(acc.byKey[k], e)
    BY <1>7
  <2>3. m \in acc.byKey[j].macs /\ m \in acc.byKey[k].macs
    BY <2>1, <2>2 DEF SameDevice
  <2>4. acc.known[<<"mac", m>>] = j /\ acc.known[<<"mac", m>>] = k
    BY <1>3, <2>3 DEF Indexed, K
  <2> QED
    BY <2>1, <2>2, <2>4
<1>11. ASSUME NEW o, Found(acc, o) PROVE \E d \in ds : Holds(d, o)
  <2>1. PICK k \in K : Holds(acc.byKey[k], o)
    BY <1>11 DEF Found, K
  <2>2. SameDevice(acc.byKey[k], ClassifyDevice(acc.byKey[k])) /\ ClassifyDevice(acc.byKey[k]) \in ds
    BY <1>4
  <2>3. Holds(ClassifyDevice(acc.byKey[k]), o)
    BY <2>1, <2>2 DEF Holds, SameDevice
  <2> QED
    BY <2>2, <2>3
<1> HIDE DEF ds
<1>12. ById(ds) \in Seq(ds) /\ ToSet(ById(ds)) = ds /\ DistinctIds(ById(ds))
  BY <1>6, <1>8, <1>9, ByIdLists
<1>13. ds \subseteq Device
  BY <1>7
<1>14. ById(ds) \in Seq(Device)
  BY <1>12, <1>13
<1>15. \A i, j \in DOMAIN ById(ds) : i # j => ById(ds)[i].macs \cap ById(ds)[j].macs = {} /\ ById(ds)[i].id # ById(ds)[j].id
  <2>1. \A i \in DOMAIN ById(ds) : ById(ds)[i] \in ds
    BY <1>12 DEF ToSet
  <2> QED
    BY <1>10, <1>12, <2>1 DEF DistinctIds
<1>16. \A j \in DOMAIN rs : \A o \in ToSet(rs[j].devices) :
          HasPublicOnlyIPs(o) \/ \E d \in ToSet(ById(ds)) : Holds(d, o)
  BY <1>2, <1>11, <1>12
<1>17. Classified(ById(ds))
  BY <1>3, <1>7, <1>12 DEF Classified
<1> QED
  BY <1>1, <1>14, <1>15, <1>16, <1>17 DEF Fused

-----------------------------------------------------------------------------
(* The scan.                                                               *)

LEMMA ObservationsConsistent ==
    /\ Consistent(Observations)
    /\ {o.id : o \in Observations} \subseteq ToSet(Lexical)
    /\ Reported \subseteq ResultOf(Observations)
<1>1. ASSUME NEW r \in Reported
      PROVE  r \in ProbeResult /\ r.devices \in Seq(Observation) /\ ToSet(r.devices) \subseteq Observations
  BY ReportsAssumption DEF ReportsAssumption, Observations, ProbeResult
<1>2. ASSUME NEW r \in Reported PROVE r.devices \in Seq(Observations)
  <2>1. Len(r.devices) \in Nat /\ DOMAIN r.devices = 1..Len(r.devices) /\ r.devices = [i \in DOMAIN r.devices |-> r.devices[i]]
    BY <1>1
  <2>2. \A i \in 1..Len(r.devices) : r.devices[i] \in Observations
    BY <1>1, <2>1 DEF ToSet
  <2> QED
    BY <2>1, <2>2
<1>3. Reported \subseteq ResultOf(Observations)
  BY <1>1, <1>2 DEF ResultOf
<1>4. Observations \subseteq Sighting
  <2>1. ASSUME NEW r \in Reported, NEW o \in ToSet(r.devices) PROVE o \in Observation
    BY <1>1 DEF ToSet
  <2>2. \A o \in Observations : IsFiniteSet(o.ev)
    BY ReportsAssumption DEF ReportsAssumption
  <2> QED
    BY <2>1, <2>2 DEF Sighting, Observations
<1> QED
  BY <1>3, <1>4, ObservationAssumption, LexicalAssumption DEF ObservationAssumption, LexicalAssumption, Consistent

LEMMA SkippedResult ==
    ASSUME NEW U
    PROVE  Skipped \in ResultOf(U)
<1>1. \A S : <<>> \in Seq(S)
  OBVIOUS
<1>2. Skipped = [devices |-> <<>>, ev |-> <<>>, hops |-> <<>>]
  BY DEF Skipped, Result
<1>3. Skipped \in ProbeResult
  BY <1>1, <1>2 DEF ProbeResult
<1>4. Skipped.devices \in Seq(U)
  BY <1>1, <1>2
<1> QED
  BY <1>3, <1>4 DEF ResultOf

LEMMA ProbesListed ==
    ASSUME NEW m
    PROVE  Len(ProbesOf(m)) \in Nat
<1>1. DefaultProbes \in Seq({DefaultProbes[i] : i \in 1..16})
  BY DEF DefaultProbes
<1> DEFINE those == Those(DefaultProbes, {p \in ToSet(DefaultProbes) : ModeAllowed(p, m)})
<1>2. those \in Seq({DefaultProbes[i] : i \in 1..16})
  BY <1>1, ThoseIn
<1>3. Len(those) \in Nat /\ DOMAIN those = 1..Len(those)
  BY <1>2
<1> HIDE DEF those
<1>4. ProbesOf(m) = [i \in 1..Len(those) |-> those[i][1]]
  BY <1>3 DEF ProbesOf, MapSeq, those
<1> QED
  BY <1>3, <1>4

\* What is known of the scan at each stage.
Downgraded(ds, found) == MapSeq(ds, LAMBDA d : [d EXCEPT !.conf = DowngradeForConflicts(@, found, d.id)])

Gathered == results \in Seq(ResultOf(Observations)) /\ mode \in ToSet(Modes)

AsMerged ==
    Merged => devices = MergeDevices(results) /\ conflicts = DetectConflicts(MergeDevices(results), results)

AsBuilt ==
    Built => /\ conflicts = DetectConflicts(MergeDevices(results), results)
             /\ devices = Downgraded(MergeDevices(results), conflicts)
             /\ topology = BuildTopology(devices, CollectEvidence(results, devices))
             /\ output.graph = GraphAdapter(topology)

StageInv == Gathered /\ AsMerged /\ AsBuilt

LEMMA StageStarts == Init => StageInv
<1> SUFFICES ASSUME Init PROVE StageInv
  OBVIOUS
<1>1. Gathered
  BY DEF Init, Gathered
<1>2. AsMerged /\ AsBuilt
  BY DEF Init, AsMerged, AsBuilt, Merged, Built
<1> QED
  BY <1>1, <1>2 DEF StageInv

LEMMA StageKept == StageInv /\ [Next]_vars => StageInv'
<1> SUFFICES ASSUME Gathered, AsMerged, AsBuilt, [Next]_vars PROVE StageInv'
  BY DEF StageInv
<1>1. CASE ProbeReports
  <2>1. PICK r \in Reports(ProbesOf(mode)[Len(results) + 1]) \cup {Skipped} : results' = Append(results, r)
    BY <1>1 DEF ProbeReports
  <2>2. Len(results) + 1 \in 1..Len(ProbesOf(mode))
    <3>1. Len(results) \in Nat /\ Len(ProbesOf(mode)) \in Nat /\ Len(results) < Len(ProbesOf(mode))
      BY <1>1, ProbesListed DEF ProbeReports, Gathered
    <3> QED
      BY <3>1
  <2>3. r \in ResultOf(Observations)
    <3>1. CASE r = Skipped
      BY <3>1, SkippedResult
    <3>2. CASE r \in Reports(ProbesOf(mode)[Len(results) + 1])
      <4>1. r \in Reported
        BY <2>2, <3>2 DEF Reported, Gathered
      <4> QED
        BY <4>1, ObservationsConsistent
    <3> QED
      BY <2>1, <3>1, <3>2
  <2>4. Gathered'
    BY <1>1, <2>1, <2>3 DEF ProbeReports, Gathered
  <2>5. AsMerged' /\ AsBuilt'
    BY <1>1 DEF ProbeReports, AsMerged, AsBuilt, Merged, Built
  <2> QED
    BY <2>4, <2>5 DEF StageInv
<1>2. CASE RefuseScope
  <2>1. Gathered'
    BY <1>2, SkippedResult DEF RefuseScope, Gathered
  <2>2. AsMerged' /\ AsBuilt'
    BY <1>2 DEF RefuseScope, AsMerged, AsBuilt, Merged, Built
  <2> QED
    BY <2>1, <2>2 DEF StageInv
<1>3. CASE Merge
  <2>1. Gathered' /\ AsMerged' /\ AsBuilt'
    BY <1>3 DEF Merge, Gathered, AsMerged, AsBuilt, Merged, Built
  <2> QED
    BY <2>1 DEF StageInv
<1>4. CASE Build
  <2>1. Gathered'
    BY <1>4 DEF Build, Gathered
  <2>2. AsMerged'
    BY <1>4 DEF Build, AsMerged, Merged
  <2>3. devices = MergeDevices(results) /\ conflicts = DetectConflicts(MergeDevices(results), results)
    BY <1>4 DEF Build, AsMerged, Merged
  <2>4. devices' = Downgraded(MergeDevices(results'), conflicts')
    <3>1. devices' = Downgraded(devices, conflicts)
      BY <1>4, Zenon DEF Build, Downgraded
    <3> QED
      BY <1>4, <2>3, <3>1 DEF Build
  <2>5. output'.graph = GraphAdapter(topology')
    BY <1>4 DEF Build
  <2>6. topology' = BuildTopology(devices', CollectEvidence(results', devices'))
    BY <1>4 DEF Build
  <2>7. conflicts' = DetectConflicts(MergeDevices(results'), results')
    BY <1>4, <2>3 DEF Build
  <2>8. AsBuilt'
    BY <2>4, <2>5, <2>6, <2>7 DEF AsBuilt
  <2> QED
    BY <2>1, <2>2, <2>8 DEF StageInv
<1>5. CASE UNCHANGED vars
  <2>1. Gathered' /\ AsMerged' /\ AsBuilt'
    BY <1>5 DEF vars, Gathered, AsMerged, AsBuilt, Merged, Built
  <2> QED
    BY <2>1 DEF StageInv
<1> QED
  BY <1>1, <1>2, <1>3, <1>4, <1>5 DEF Next

\* Each stage of a scan has what the code computes for it from the results of the probes.
THEOREM FusionStages == Spec => []StageInv
<1>1. Init => StageInv
  BY StageStarts
<1>2. StageInv /\ [Next]_vars => StageInv'
  BY StageKept
<1> QED
  BY <1>1, <1>2, PTL DEF Spec

LEMMA FusedNow == StageInv /\ Merged => Fused(devices, results)
<1> SUFFICES ASSUME StageInv, Merged PROVE Fused(devices, results)
  OBVIOUS
<1>1. results \in Seq(ResultOf(Observations)) /\ devices = MergeDevices(results)
  BY DEF StageInv, Gathered, AsMerged
<1> QED
  BY <1>1, ObservationsConsistent, LexicalAssumption, MergeDevicesFuses

\* MergeDevices keys a device by the MACs and addresses it has shown: no two devices of its
\* list have a MAC or an identifier in common, whatever the probes report in whatever order.
THEOREM FusionMACs == Spec => []OneDevicePerMAC
<1>1. StageInv => OneDevicePerMAC
  BY FusedNow DEF OneDevicePerMAC, Fused
<1> QED
  BY <1>1, FusionStages, PTL

\* mergeIntoDevice only adds, and a later device never takes an earlier one's place: each
\* observation that is not of a foreign public address is found in one device, and for each
\* record of its evidence the one kept of that source, target and reason.
THEOREM FusionComplete == Spec => []NothingObservedIsLost
<1>1. ASSUME StageInv PROVE NothingObservedIsLost
  <2> SUFFICES ASSUME Merged, NEW r \in ToSet(results), NEW o \in ToSet(r.devices), ~HasPublicOnlyIPs(o)
               PROVE  \E d \in ToSet(devices) : Holds(d, o)
    BY DEF NothingObservedIsLost, Seen, Holds
  <2>1. Fused(devices, results)
    BY <1>1, FusedNow
  <2>2. PICK j \in DOMAIN results : r = results[j]
    BY DEF ToSet
  <2> QED
    BY <2>1, <2>2 DEF Fused
<1> QED
  BY <1>1, FusionStages, PTL

-----------------------------------------------------------------------------
(* The conflicts.                                                          *)

\* A list of conflicts, each with one of the three severities.
Severities == {"high", "medium", "low"}

Rated(s) == s \in Seq(ToSet(s)) /\ \A c \in ToSet(s) : c.severity \in Severities

LEMMA RatedSet ==
    ASSUME NEW S, IsFiniteSet(S), \A c \in S : c.severity \in Severities
    PROVE  Rated(SetToSeq(S)) /\ ToSet(SetToSeq(S)) = S
  BY Listing DEF Rated

LEMMA RatedJoin ==
    ASSUME NEW p, NEW q, Rated(p), Rated(q)
    PROVE  Rated(p \o q) /\ ToSet(p \o q) = ToSet(p) \cup ToSet(q)
<1> DEFINE A == ToSet(p) \cup ToSet(q)
<1>1. p \in Seq(ToSet(p)) /\ q \in Seq(ToSet(q)) /\ ToSet(p) \subseteq A /\ ToSet(q) \subseteq A
  BY DEF Rated
<1>2. \A c \in A : c.severity \in Severities
  BY DEF Rated
<1> HIDE DEF A
<1>3. p \in Seq(A) /\ q \in Seq(A)
  BY <1>1
<1>4. p \o q \in Seq(A) /\ ToSet(p \o q) = ToSet(p) \cup ToSet(q)
  BY <1>3, Joined
<1>5. p \o q \in Seq(ToSet(p \o q))
  BY <1>4 DEF A
<1> QED
  BY <1>2, <1>4, <1>5 DEF A, Rated

LEMMA RatedNone == Rated(<<>>)
<1>1. \A S : <<>> \in Seq(S)
  OBVIOUS
<1>2. ToSet(<<>>) = {}
  BY DEF ToSet
<1> QED
  BY <1>1, <1>2 DEF Rated

LEMMA RatedOne ==
    ASSUME NEW c, c.severity \in Severities
    PROVE  Rated(<<c>>)
<1>1. ToSet(<<c>>) = {c}
  BY DEF ToSet
<1>2. <<c>> \in Seq({c})
  OBVIOUS
<1> QED
  BY <1>1, <1>2 DEF Rated

\* The images of a finite set are finitely many.
LEMMA FiniteImage ==
    ASSUME NEW S, IsFiniteSet(S), NEW f
    PROVE  IsFiniteSet({f[x] : x \in S})
<1> DEFINE T == {f[x] : x \in S}
           g == [x \in S |-> f[x]]
<1>1. g \in Surjection(S, T)
  BY DEF Surjection
<1> HIDE DEF T, g
<1>2. IsFiniteSet(T)
  BY <1>1, FS_Surjection
<1> QED
  BY <1>2 DEF T

\* The members of finitely many finite sets are finitely many.
LEMMA FiniteFamily ==
    ASSUME NEW S, IsFiniteSet(S), NEW f, \A x \in S : IsFiniteSet(f[x])
    PROVE  IsFiniteSet(UNION {f[x] : x \in S})
<1>1. IsFiniteSet({f[x] : x \in S})
  BY FiniteImage
<1>2. \A T \in {f[x] : x \in S} : IsFiniteSet(T)
  OBVIOUS
<1> QED
  BY <1>1, <1>2, FS_UNION

\* A conflict for each member of a finite set.
LEMMA RatedImage ==
    ASSUME NEW S, IsFiniteSet(S), NEW f, \A x \in S : f[x].severity \in Severities
    PROVE  /\ Rated(SetToSeq({f[x] : x \in S}))
           /\ ToSet(SetToSeq({f[x] : x \in S})) = {f[x] : x \in S}
<1> DEFINE T == {f[x] : x \in S}
<1>1. IsFiniteSet(T) /\ \A c \in T : c.severity \in Severities
  BY FiniteImage
<1> HIDE DEF T
<1>2. Rated(SetToSeq(T)) /\ ToSet(SetToSeq(T)) = T
  BY <1>1, RatedSet
<1> QED
  BY <1>2 DEF T

LEMMA SeverityNames == "high" \in Severities /\ "medium" \in Severities /\ "low" \in Severities
  BY DEF Severities

LEMMA HostnameRated ==
    ASSUME NEW ds, IsFiniteSet(ds)
    PROVE  Rated(HostnameConflicts(ds))
<1> DEFINE S == {d \in ds : Cardinality(d.hosts) > 1}
           f == [d \in S |-> Conflict("hostname_mismatch", "low", {d.id}, "")]
<1>1. IsFiniteSet(S)
  BY FS_Subset
<1>2. {f[d] : d \in S} = {Conflict("hostname_mismatch", "low", {d.id}, "") : d \in S}
  OBVIOUS
<1>3. \A d \in S : f[d].severity \in Severities
  BY SeverityNames DEF Conflict
<1>4. HostnameConflicts(ds) = SetToSeq({f[d] : d \in S})
  BY <1>2 DEF HostnameConflicts
<1> HIDE DEF S, f
<1> QED
  BY <1>1, <1>3, <1>4, RatedImage, SeverityNames

LEMMA DeviceTypesRated ==
    ASSUME NEW ds, IsFiniteSet(ds)
    PROVE  Rated(DeviceTypeConflicts(ds))
<1> DEFINE says(d, words) == DeviceText(d) \cap words # {}
           S == {d \in ds : d.type = "router" /\ says(d, {"printer", "_ipp._tcp"})}
           T == {d \in ds : says(d, {"sysdescr", "switch", "bridge-mib"}) /\ says(d, {"router", "internetgatewaydevice"})}
           f == [d \in S |-> Conflict("router_printer_type_conflict", "medium", {d.id}, "")]
           g == [d \in T |-> Conflict("snmp_switch_http_router_conflict", "medium", {d.id}, "")]
           all == {f[d] : d \in S} \cup {g[d] : d \in T}
<1>1. IsFiniteSet(S) /\ IsFiniteSet(T)
  BY FS_Subset
<1>2. /\ {f[d] : d \in S} = {Conflict("router_printer_type_conflict", "medium", {d.id}, "") : d \in S}
      /\ {g[d] : d \in T} = {Conflict("snmp_switch_http_router_conflict", "medium", {d.id}, "") : d \in T}
  OBVIOUS
<1>3. (\A d \in S : f[d].severity \in Severities) /\ (\A d \in T : g[d].severity \in Severities)
  BY SeverityNames DEF Conflict
<1>4. DeviceTypeConflicts(ds) = SetToSeq(all)
  BY <1>2 DEF DeviceTypeConflicts
<1> HIDE DEF S, T, f, g
<1>5. IsFiniteSet({f[d] : d \in S}) /\ IsFiniteSet({g[d] : d \in T})
  BY <1>1, FiniteImage
<1>6. IsFiniteSet(all)
  BY <1>5, FS_Union
<1>7. \A c \in all : c.severity \in Severities
  BY <1>3, SeverityNames
<1> HIDE DEF all
<1> QED
  BY <1>4, <1>6, <1>7, RatedSet

LEMMA WiFiVendorRated ==
    ASSUME NEW devs
    PROVE  Rated(WiFiGatewayVendorConflict(devs))
<1> DEFINE c(a, b) == Conflict("wifi_bssid_vendor_differs_from_gateway_vendor", "low", {a, b}, "")
<1>1. WiFiGatewayVendorConflict(devs) = <<>> \/ \E a, b : WiFiGatewayVendorConflict(devs) = <<c(a, b)>>
  BY DEF WiFiGatewayVendorConflict
<1>2. \A a, b : c(a, b).severity \in Severities
  BY SeverityNames DEF Conflict
<1> HIDE DEF c
<1>3. CASE WiFiGatewayVendorConflict(devs) = <<>>
  BY <1>3, RatedNone
<1>4. CASE \E a, b : WiFiGatewayVendorConflict(devs) = <<c(a, b)>>
  <2>1. PICK a, b : WiFiGatewayVendorConflict(devs) = <<c(a, b)>>
    BY <1>4
  <2>2. Rated(<<c(a, b)>>)
    BY <1>2, RatedOne
  <2> QED
    BY <2>1, <2>2
<1> QED
  BY <1>1, <1>3, <1>4

LEMMA AddressesFinite ==
    ASSUME NEW ds \in SUBSET Device, IsFiniteSet(ds)
    PROVE  IsFiniteSet(UNION {d.ips : d \in ds}) /\ IsFiniteSet(UNION {d.macs : d \in ds})
<1> DEFINE f == [d \in ds |-> d.ips]
           g == [d \in ds |-> d.macs]
<1>1. \A d \in ds : IsFiniteSet(f[d]) /\ IsFiniteSet(g[d])
  BY DEF Device, FiniteSubsetsOf
<1>2. {f[d] : d \in ds} = {d.ips : d \in ds} /\ {g[d] : d \in ds} = {d.macs : d \in ds}
  OBVIOUS
<1> HIDE DEF f, g
<1>3. IsFiniteSet(UNION {f[d] : d \in ds}) /\ IsFiniteSet(UNION {g[d] : d \in ds})
  BY <1>1, FiniteFamily
<1> QED
  BY <1>2, <1>3

LEMMA IPMACRated ==
    ASSUME NEW ds \in SUBSET Device, IsFiniteSet(ds)
    PROVE  Rated(IPMACConflicts(ds))
<1> DEFINE at(ip)  == {d \in ds : ip \in d.ips}
           of(mac) == {d \in ds : mac \in d.macs}
           ips  == {ip \in UNION {d.ips : d \in ds} : Cardinality(UNION {d.macs : d \in at(ip)}) > 1}
           macs == {mac \in UNION {d.macs : d \in ds} : Cardinality(UNION {d.ips : d \in of(mac)}) > 1}
           f == [ip \in ips |-> Conflict("same_ip_different_macs", "high", {d.id : d \in {d \in at(ip) : d.macs # {}}}, ip)]
           g == [mac \in macs |-> Conflict("same_mac_multiple_ips", "low", {d.id : d \in {d \in of(mac) : d.ips # {}}}, mac)]
<1>1. IsFiniteSet(ips) /\ IsFiniteSet(macs)
  <2>1. IsFiniteSet(UNION {d.ips : d \in ds}) /\ IsFiniteSet(UNION {d.macs : d \in ds})
    BY AddressesFinite
  <2>2. ips \subseteq UNION {d.ips : d \in ds} /\ macs \subseteq UNION {d.macs : d \in ds}
    OBVIOUS
  <2> HIDE DEF ips, macs
  <2> QED
    BY <2>1, <2>2, FS_Subset
<1> HIDE DEF ips, macs
<1>2. (\A x \in ips : f[x].severity = "high") /\ (\A x \in macs : g[x].severity = "low")
  BY DEF Conflict
<1>3. IPMACConflicts(ds) = SetToSeq({f[x] : x \in ips}) \o SetToSeq({g[x] : x \in macs})
  <2>1. /\ {f[x] : x \in ips} = {Conflict("same_ip_different_macs", "high", {d.id : d \in {d \in at(ip) : d.macs # {}}}, ip) : ip \in ips}
        /\ {g[x] : x \in macs} = {Conflict("same_mac_multiple_ips", "low", {d.id : d \in {d \in of(mac) : d.ips # {}}}, mac) : mac \in macs}
    OBVIOUS
  <2> QED
    BY <2>1 DEF IPMACConflicts, ips, macs
<1> HIDE DEF f, g
<1>4. Rated(SetToSeq({f[x] : x \in ips})) /\ Rated(SetToSeq({g[x] : x \in macs}))
  BY <1>1, <1>2, RatedImage, SeverityNames
<1> QED
  BY <1>3, <1>4, RatedJoin

\* A public address of a LAN device is a conflict of high severity about the device.
NamesPublic(s, ds) ==
    \A d \in ds : d.type # "isp_hop" /\ ~(d.ips \subseteq PrivateIP) =>
        \E c \in ToSet(s) : c.severity = "high" /\ d.id \in c.devs

LEMMA PublicRated ==
    ASSUME NEW ds \in SUBSET Device, IsFiniteSet(ds)
    PROVE  Rated(PublicAndVirtualConflicts(ds)) /\ NamesPublic(PublicAndVirtualConflicts(ds), ds)
<1> DEFINE S == {d \in ds : d.type # "isp_hop"}
           T == {d \in ds : d.type = "virtual_adapter" /\ "upstream_gateway" \in d.roles}
           c(d, ip) == Conflict("public_ip_classified_as_local_device", "high", {d.id}, ip)
           f == [d \in S |-> {c(d, ip) : ip \in d.ips \ PrivateIP}]
           g == [d \in T |-> Conflict("virtual_adapter_mistaken_as_physical_upstream", "high", {d.id}, "")]
           all == (UNION {f[d] : d \in S}) \cup {g[d] : d \in T}
<1>1. IsFiniteSet(S) /\ IsFiniteSet(T) /\ S \subseteq ds
  BY FS_Subset
<1>2. PublicAndVirtualConflicts(ds) = SetToSeq(all)
  <2>1. /\ {f[d] : d \in S} = {{c(d, ip) : ip \in d.ips \ PrivateIP} : d \in S}
        /\ {g[d] : d \in T} = {Conflict("virtual_adapter_mistaken_as_physical_upstream", "high", {d.id}, "") : d \in T}
    OBVIOUS
  <2> QED
    BY <2>1 DEF PublicAndVirtualConflicts
<1>3. \A d \in S : IsFiniteSet(f[d])
  <2> SUFFICES ASSUME NEW d \in S PROVE IsFiniteSet(f[d])
    OBVIOUS
  <2>1. IsFiniteSet(d.ips \ PrivateIP)
    <3>1. IsFiniteSet(d.ips)
      BY <1>1 DEF Device, FiniteSubsetsOf
    <3> QED
      BY <3>1, FS_Subset
  <2> DEFINE h == [ip \in d.ips \ PrivateIP |-> c(d, ip)]
  <2>2. f[d] = {h[ip] : ip \in d.ips \ PrivateIP}
    OBVIOUS
  <2> HIDE DEF h, f
  <2> QED
    BY <2>1, <2>2, FiniteImage
<1>4. \A d \in S : \A x \in f[d] : x.severity = "high"
  BY DEF Conflict
<1>5. \A d \in S : \A ip \in d.ips \ PrivateIP : \E x \in f[d] : x.severity = "high" /\ d.id \in x.devs
  <2>1. \A d, ip : c(d, ip).severity = "high" /\ d.id \in c(d, ip).devs
    BY DEF Conflict
  <2> HIDE DEF c
  <2> QED
    BY <2>1
<1>6. \A d \in T : g[d].severity = "high"
  BY DEF Conflict
<1> HIDE DEF f, g
<1>7. IsFiniteSet(all)
  <2> HIDE DEF S, T
  <2>1. IsFiniteSet(UNION {f[d] : d \in S})
    BY <1>1, <1>3, FiniteFamily
  <2>2. IsFiniteSet({g[d] : d \in T})
    BY <1>1, FiniteImage
  <2> QED
    BY <2>1, <2>2, FS_Union
<1>8. \A x \in all : x.severity \in Severities
  BY <1>4, <1>6, SeverityNames
<1>9. \A d \in ds : d.type # "isp_hop" /\ ~(d.ips \subseteq PrivateIP) => \E x \in all : x.severity = "high" /\ d.id \in x.devs
  BY <1>5
<1> HIDE DEF all
<1>10. Rated(SetToSeq(all)) /\ ToSet(SetToSeq(all)) = all
  BY <1>7, <1>8, RatedSet
<1> QED
  BY <1>2, <1>9, <1>10 DEF NamesPublic

\* The evidence of the results, one after the other.
LEMMA EvidenceInOrder ==
    ASSUME NEW U, NEW rs \in Seq(ResultOf(U))
    PROVE  FoldLeft(LAMBDA s, r : s \o r.ev, <<>>, rs) \in Seq(EvidenceRecord)
<1> DEFINE B == Seq(EvidenceRecord)
           R == ResultOf(U)
           q == rs
           step(s, r) == s \o r.ev
           o == [p \in B \X R |-> step(p[1], p[2])]
           Sol(g) == g = [s \in SUBSET DOMAIN q |-> IF s = {} THEN <<>> ELSE step(g[s \ {Max(s)}], q[Max(s)])]
           f == CHOOSE g : Sol(g)
<1>1. \A s \in B, r \in R : step(s, r) \in B
  BY DEF ResultOf, ProbeResult
<1>6. FoldLeft(LAMBDA s, r : s \o r.ev, <<>>, rs) = f[DOMAIN q]
  BY Zenon DEF FoldLeft, MapThenFoldSet
<1>13. \A s \in B, r \in R : o[<<s, r>>] = step(s, r)
  OBVIOUS
<1> HIDE DEF step
<1>11. o \in [B \X R -> B]
  BY <1>1
<1> HIDE DEF o, B, R, q
<1>12. <<>> \in B
  BY DEF B
<1>01. q \in Seq(R)
  BY DEF R, q
<1>0. Len(q) \in Nat /\ DOMAIN q = 1..Len(q) /\ \A k \in 1..Len(q) : q[k] \in R
  BY <1>01
<1>2. PICK h \in [SUBSET DOMAIN q -> B] : IsFold(h, o, <<>>, q)
  BY <1>01, <1>11, <1>12, FoldExists
<1>4. Sol(h)
  <2>1. ASSUME NEW s \in SUBSET DOMAIN q, s # {} PROVE h[s] = step(h[s \ {Max(s)}], q[Max(s)])
    <3>1. h[s \ {Max(s)}] \in B /\ q[Max(s)] \in R
      BY <1>01, <1>2, <2>1, FoldUse
    <3>2. h[s] = o[<<h[s \ {Max(s)}], q[Max(s)]>>]
      BY <1>2, <2>1 DEF IsFold
    <3> QED
      BY <1>13, <3>1, <3>2
  <2> QED
    BY <1>2, <2>1 DEF IsFold
<1>5. Sol(f)
  BY <1>4, Zenon
<1> HIDE DEF f
<1>81. Unrolls(f, o, <<>>, B, q)
  <2>1. ASSUME NEW k \in 1..Len(q), f[1..k - 1] \in B PROVE f[1..k] = o[<<f[1..k - 1], q[k]>>]
    <3>1. k \in Nat /\ k # 0 /\ 1..k \in SUBSET DOMAIN q
      BY <1>0
    <3>2. f[1..k] = step(f[(1..k) \ {Max(1..k)}], q[Max(1..k)])
      BY <1>5, <3>1, MaxOfPrefix
    <3> QED
      BY <1>0, <1>13, <2>1, <3>1, <3>2, MaxOfPrefix
  <2> QED
    BY <1>5, <2>1 DEF Unrolls
<1>9. PICK run \in [0..Len(q) -> B] : IsRun(run, o, <<>>, q) /\ EndsIn(run, q, f[DOMAIN q])
  BY <1>01, <1>11, <1>12, <1>81, FoldPrefixes
<1>10. run[Len(q)] \in B
  BY <1>0, <1>9
<1> QED
  BY <1>6, <1>9, <1>10 DEF EndsIn, B

LEMMA ProbesRated ==
    ASSUME NEW U, NEW rs \in Seq(ResultOf(U))
    PROVE  Rated(ProbeConflicts(rs))
<1> DEFINE ev == FoldLeft(LAMBDA s, r : s \o r.ev, <<>>, rs)
           told == Those(ev, {e \in ToSet(ev) : e.reach # ""})
           changes == {j \in DOMAIN told : \E i \in 1..(j - 1) :
                          /\ told[i].target = told[j].target /\ told[i].reach # told[j].reach
                          /\ \A k \in (i + 1)..(j - 1) : told[k].target # told[i].target}
           f == [j \in changes |-> Conflict("default_gateway_unreachable_but_http_reachable", "medium", {<<"ip", told[j].target>>}, j)]
           c == Conflict("gateway_chain_differs_between_probes", "medium", {}, "")
           last == IF Cardinality({e.chain : e \in ToSet(ev)} \ {""}) > 1 THEN <<c>> ELSE <<>>
<1>1. ev \in Seq(EvidenceRecord)
  BY EvidenceInOrder
<1>2. ProbeConflicts(rs) = SetToSeq({f[j] : j \in changes}) \o last
  <2>1. {f[j] : j \in changes} = {Conflict("default_gateway_unreachable_but_http_reachable", "medium", {<<"ip", told[j].target>>}, j) : j \in changes}
    OBVIOUS
  <2> QED
    BY <2>1 DEF ProbeConflicts
<1> HIDE DEF ev
<1>3. told \in Seq(EvidenceRecord)
  BY <1>1, ThoseIn
<1>4. IsFiniteSet(changes)
  <2> HIDE DEF told
  <2>1. Len(told) \in Nat /\ DOMAIN told = 1..Len(told)
    BY <1>3
  <2>2. IsFiniteSet(DOMAIN told)
    BY <2>1, FS_Interval
  <2>3. changes \subseteq DOMAIN told
    OBVIOUS
  <2> HIDE DEF changes
  <2> QED
    BY <2>2, <2>3, FS_Subset
<1> HIDE DEF changes
<1>5. \A j \in changes : f[j].severity = "medium"
  BY DEF Conflict
<1>6. c.severity \in Severities
  BY SeverityNames DEF Conflict
<1> HIDE DEF f, c
<1>7. Rated(SetToSeq({f[j] : j \in changes}))
  BY <1>4, <1>5, RatedImage, SeverityNames
<1>8. Rated(last)
  BY <1>6, RatedOne, RatedNone
<1> HIDE DEF last
<1> QED
  BY <1>2, <1>7, <1>8, RatedJoin

\* DetectConflicts lists conflicts with a severity, and every public address of a LAN device.
LEMMA ConflictsRated ==
    ASSUME NEW U, NEW rs \in Seq(ResultOf(U)), NEW devs \in Seq(Device)
    PROVE  Rated(DetectConflicts(devs, rs)) /\ NamesPublic(DetectConflicts(devs, rs), ToSet(devs))
<1> DEFINE ds == ToSet(devs)
           a == IPMACConflicts(ds)
           b == HostnameConflicts(ds)
           c == DeviceTypeConflicts(ds)
           d == WiFiGatewayVendorConflict(devs)
           e == ProbeConflicts(rs)
           p == PublicAndVirtualConflicts(ds)
<1>1. IsFiniteSet(ds) /\ ds \in SUBSET Device
  BY FiniteRange
<1> HIDE DEF ds
<1>2. Rated(a) /\ Rated(b) /\ Rated(c) /\ Rated(d) /\ Rated(e)
  BY <1>1, IPMACRated, HostnameRated, DeviceTypesRated, WiFiVendorRated, ProbesRated
<1>3. Rated(p) /\ NamesPublic(p, ds)
  BY <1>1, PublicRated
<1>4. DetectConflicts(devs, rs) = a \o b \o c \o d \o e \o p
  BY DEF DetectConflicts, ds
<1> HIDE DEF a, b, c, d, e, p
<1>5. Rated(a \o b)
  BY <1>2, RatedJoin
<1>6. Rated(a \o b \o c)
  BY <1>2, <1>5, RatedJoin
<1>7. Rated(a \o b \o c \o d)
  BY <1>2, <1>6, RatedJoin
<1>8. Rated(a \o b \o c \o d \o e)
  BY <1>2, <1>7, RatedJoin
<1>9. /\ Rated(a \o b \o c \o d \o e \o p)
      /\ ToSet(a \o b \o c \o d \o e \o p) = ToSet(a \o b \o c \o d \o e) \cup ToSet(p)
  BY <1>3, <1>8, RatedJoin
<1>10. NamesPublic(a \o b \o c \o d \o e \o p, ds)
  BY <1>3, <1>9 DEF NamesPublic
<1> QED
  BY <1>4, <1>9, <1>10 DEF ds

-----------------------------------------------------------------------------
(* What the conflicts cost.                                                *)

Cost(v, c) == CASE c.severity = "high" -> MinOf(v, 45) [] c.severity = "medium" -> v - 10 [] c.severity = "low" -> v - 5

LEMMA CostTyped ==
    ASSUME NEW v \in Int, NEW c, c.severity \in Severities
    PROVE  /\ Cost(v, c) \in Int /\ Cost(v, c) <= v
           /\ c.severity = "high" => Cost(v, c) <= 45
<1>1. c.severity = "high" \/ c.severity = "medium" \/ c.severity = "low"
  BY DEF Severities
<1>2. CASE c.severity = "high"
  BY <1>2 DEF Cost, MinOf
<1>3. CASE c.severity = "medium"
  BY <1>3 DEF Cost
<1>4. CASE c.severity = "low"
  BY <1>4 DEF Cost
<1> QED
  BY <1>1, <1>2, <1>3, <1>4

\* The states of the loop over the conflicts of a device.
Costs(run, conf, q) ==
    /\ run[0] = conf
    /\ \A k \in 1..Len(q) : run[k] = Cost(run[k - 1], q[k])
    /\ FoldLeft(LAMBDA v, c : CASE c.severity = "high" -> MinOf(v, 45)
                                [] c.severity = "medium" -> v - 10
                                [] c.severity = "low" -> v - 5, conf, q) = run[Len(q)]

LEMMA CostRun ==
    ASSUME NEW conf \in Int, NEW cs, Rated(cs)
    PROVE  \E run \in [0..Len(cs) -> Int] : Costs(run, conf, cs)
<1> DEFINE A == ToSet(cs)
           q == cs
           step(v, c) == CASE c.severity = "high" -> MinOf(v, 45)
                           [] c.severity = "medium" -> v - 10
                           [] c.severity = "low" -> v - 5
           o == [p \in Int \X A |-> step(p[1], p[2])]
           Sol(g) == g = [s \in SUBSET DOMAIN q |-> IF s = {} THEN conf ELSE step(g[s \ {Max(s)}], q[Max(s)])]
           f == CHOOSE g : Sol(g)
<1>01. q \in Seq(A)
  BY DEF Rated
<1>1. \A v \in Int, c \in A : step(v, c) \in Int /\ step(v, c) = Cost(v, c)
  BY CostTyped DEF Rated, Cost
<1>6. FoldLeft(LAMBDA v, c : CASE c.severity = "high" -> MinOf(v, 45)
                                [] c.severity = "medium" -> v - 10
                                [] c.severity = "low" -> v - 5, conf, q) = f[DOMAIN q]
  BY Zenon DEF FoldLeft, MapThenFoldSet
<1>13. \A v \in Int, c \in A : o[<<v, c>>] = step(v, c)
  OBVIOUS
<1> HIDE DEF step
<1>11. o \in [Int \X A -> Int]
  BY <1>1
<1> HIDE DEF o, A, q
<1>0. Len(q) \in Nat /\ DOMAIN q = 1..Len(q) /\ \A k \in 1..Len(q) : q[k] \in A
  BY <1>01
<1>2. PICK h \in [SUBSET DOMAIN q -> Int] : IsFold(h, o, conf, q)
  BY <1>01, <1>11, FoldExists
<1>4. Sol(h)
  <2>1. ASSUME NEW s \in SUBSET DOMAIN q, s # {} PROVE h[s] = step(h[s \ {Max(s)}], q[Max(s)])
    <3>1. h[s \ {Max(s)}] \in Int /\ q[Max(s)] \in A
      BY <1>01, <1>2, <2>1, FoldUse
    <3>2. h[s] = o[<<h[s \ {Max(s)}], q[Max(s)]>>]
      BY <1>2, <2>1 DEF IsFold
    <3> QED
      BY <1>13, <3>1, <3>2
  <2> QED
    BY <1>2, <2>1 DEF IsFold
<1>5. Sol(f)
  BY <1>4, Zenon
<1> HIDE DEF f
<1>81. Unrolls(f, o, conf, Int, q)
  <2>1. ASSUME NEW k \in 1..Len(q), f[1..k - 1] \in Int PROVE f[1..k] = o[<<f[1..k - 1], q[k]>>]
    <3>1. k \in Nat /\ k # 0 /\ 1..k \in SUBSET DOMAIN q
      BY <1>0
    <3>2. f[1..k] = step(f[(1..k) \ {Max(1..k)}], q[Max(1..k)])
      BY <1>5, <3>1, MaxOfPrefix
    <3> QED
      BY <1>0, <1>13, <2>1, <3>1, <3>2, MaxOfPrefix
  <2> QED
    BY <1>5, <2>1 DEF Unrolls
<1>9. PICK run \in [0..Len(q) -> Int] : IsRun(run, o, conf, q) /\ EndsIn(run, q, f[DOMAIN q])
  BY <1>01, <1>11, <1>81, FoldPrefixes
<1>10. ASSUME NEW k \in 1..Len(q) PROVE run[k] = Cost(run[k - 1], q[k])
  <2>1. k - 1 \in 0..Len(q) /\ q[k] \in A /\ run[k - 1] \in Int
    BY <1>0
  <2> QED
    BY <1>1, <1>13, <1>9, <2>1 DEF IsRun
<1> QED
  BY <1>6, <1>9, <1>10 DEF IsRun, EndsIn, q, Costs

\* A conflict of high severity leaves a device at most 45 percent.
CostsRightly(v, cs, id) ==
    /\ v \in Int
    /\ (\E c \in ToSet(cs) : c.severity = "high" /\ id \in c.devs) => v <= 45

LEMMA DowngradeBounds ==
    ASSUME NEW conf \in Int, NEW cs, Rated(cs), NEW id
    PROVE  CostsRightly(DowngradeForConflicts(conf, cs, id), cs, id)
<1> DEFINE mine == Those(cs, {c \in ToSet(cs) : c.devs = {} \/ id \in c.devs})
           n == Len(mine)
<1>1. mine \in Seq(ToSet(cs)) /\ ToSet(mine) = {c \in ToSet(cs) : c.devs = {} \/ id \in c.devs}
  BY ThoseIn DEF Rated
<1> HIDE DEF mine
<1>2. Rated(mine)
  <2>1. Len(mine) \in Nat /\ DOMAIN mine = 1..Len(mine) /\ mine = [i \in DOMAIN mine |-> mine[i]]
    BY <1>1
  <2>2. mine \in Seq(ToSet(mine))
    BY <2>1 DEF ToSet
  <2> QED
    BY <1>1, <2>2 DEF Rated
<1>3. PICK run \in [0..Len(mine) -> Int] : Costs(run, conf, mine)
  BY <1>2, CostRun
<1>4. n \in Nat /\ DOMAIN mine = 1..n /\ \A k \in 1..n : mine[k].severity \in Severities
  <2>1. Len(mine) \in Nat /\ DOMAIN mine = 1..Len(mine)
    BY <1>1
  <2> QED
    BY <1>2, <2>1 DEF Rated, ToSet
<1> HIDE DEF n
<1>5. (\A k \in 0..n : run[k] \in Int) /\ \A k \in 1..n : run[k] = Cost(run[k - 1], mine[k])
  BY <1>3 DEF Costs, n
<1> DEFINE Kept(k) == (\E j \in 1..k : mine[j].severity = "high") => run[k] <= 45
           G == {k \in Nat : k \in 0..n /\ Kept(k)}
<1>6. 0 \in G
  BY <1>4
<1>7. ASSUME NEW k \in 0..n - 1, k \in G PROVE k + 1 \in G
  <2>1. k + 1 \in 1..n /\ k + 1 \in 0..n /\ (k + 1) - 1 = k /\ k \in Nat /\ k + 1 \in Nat /\ k \in 0..n
    BY <1>4
  <2>2. run[k + 1] = Cost(run[k], mine[k + 1]) /\ run[k] \in Int /\ run[k + 1] \in Int
    BY <1>5, <2>1
  <2>3. run[k + 1] <= run[k] /\ (mine[k + 1].severity = "high" => run[k + 1] <= 45)
    BY <1>4, <2>1, <2>2, CostTyped
  <2>4. (\E j \in 1..k : mine[j].severity = "high") => run[k] <= 45
    BY <1>7
  <2>5. \A j \in 1..k + 1 : j \in 1..k \/ j = k + 1
    BY <2>1
  <2>6. Kept(k + 1)
    BY <2>2, <2>3, <2>4, <2>5
  <2> HIDE DEF Kept
  <2> QED
    BY <2>1, <2>6
<1>8. n \in G
  <2>1. G \in SUBSET Nat
    OBVIOUS
  <2> HIDE DEF G
  <2>2. \A k \in 0..n - 1 : k \in G => k + 1 \in G
    BY <1>7
  <2>3. \A k \in 0..n : k \in G
    BY <1>4, <1>6, <2>1, <2>2, UpTo
  <2> QED
    BY <1>4, <2>3
<1>9. run[n] \in Int /\ ((\E j \in 1..n : mine[j].severity = "high") => run[n] <= 45)
  BY <1>4, <1>5, <1>8
<1>10. DowngradeForConflicts(conf, cs, id) = MaxOf(0, run[n])
  BY <1>3, Zenon DEF DowngradeForConflicts, Costs, n, mine
<1>11. (\E c \in ToSet(cs) : c.severity = "high" /\ id \in c.devs) => \E j \in 1..n : mine[j].severity = "high"
  BY <1>1, <1>4 DEF ToSet
<1> QED
  BY <1>9, <1>10, <1>11 DEF CostsRightly, MaxOf

\* The list that is built: the merged devices in their order, each at its new confidence.
Paid(d, e, cs) ==
    /\ e \in Device /\ e.id = d.id /\ e.ips = d.ips /\ e.type = d.type /\ e.ev = d.ev
    /\ e = [d EXCEPT !.conf = e.conf]
    /\ CostsRightly(e.conf, cs, d.id)

LEMMA DowngradedDevices ==
    ASSUME NEW ds \in Seq(Device), NEW cs, Rated(cs)
    PROVE  /\ Downgraded(ds, cs) \in Seq(Device) /\ DOMAIN Downgraded(ds, cs) = DOMAIN ds
           /\ \A i \in DOMAIN ds : Paid(ds[i], Downgraded(ds, cs)[i], cs)
<1> DEFINE new == Downgraded(ds, cs)
<1>1. Len(ds) \in Nat /\ DOMAIN ds = 1..Len(ds) /\ \A i \in 1..Len(ds) : ds[i] \in Device
  OBVIOUS
<1>2. new = [i \in 1..Len(ds) |-> [ds[i] EXCEPT !.conf = DowngradeForConflicts(ds[i].conf, cs, ds[i].id)]]
  BY <1>1 DEF Downgraded, MapSeq
<1> HIDE DEF new
<1>3. ASSUME NEW i \in 1..Len(ds) PROVE Paid(ds[i], new[i], cs)
  <2> DEFINE d == ds[i]
             v == DowngradeForConflicts(d.conf, cs, d.id)
  <2>1. d \in Device /\ d.conf \in Int
    BY <1>1 DEF Device
  <2>2. new[i] = [d EXCEPT !.conf = v]
    BY <1>2
  <2> HIDE DEF d
  <2>3. CostsRightly(v, cs, d.id)
    BY <2>1, DowngradeBounds
  <2> HIDE DEF v
  <2>4. v \in Int
    BY <2>3 DEF CostsRightly
  <2>5. Paid(d, [d EXCEPT !.conf = v], cs)
    BY <2>1, <2>3, <2>4 DEF Paid, Device
  <2> QED
    BY <2>2, <2>5 DEF d
<1>4. \A i \in 1..Len(ds) : new[i] \in Device
  BY <1>3 DEF Paid
<1>5. DOMAIN new = 1..Len(ds)
  BY <1>2
<1>6. new \in Seq(Device)
  <2>1. new = [i \in 1..Len(ds) |-> new[i]]
    BY <1>2
  <2> QED
    BY <1>1, <1>4, <2>1
<1> QED
  BY <1>1, <1>3, <1>5, <1>6 DEF new

BuiltFrom(ds, built, cs) ==
    /\ ds \in Seq(Device) /\ Classified(ds) /\ built \in Seq(Device) /\ DOMAIN built = DOMAIN ds
    /\ \A i \in DOMAIN ds : Paid(ds[i], built[i], cs)
    /\ NamesPublic(cs, ToSet(ds))

LEMMA BuiltNow == StageInv /\ Built => BuiltFrom(MergeDevices(results), devices, conflicts)
<1> SUFFICES ASSUME StageInv, Built PROVE BuiltFrom(MergeDevices(results), devices, conflicts)
  OBVIOUS
<1> DEFINE ds == MergeDevices(results)
<1>1. /\ results \in Seq(ResultOf(Observations))
      /\ conflicts = DetectConflicts(ds, results) /\ devices = Downgraded(ds, conflicts)
  BY DEF StageInv, Gathered, AsBuilt
<1>2. Fused(ds, results)
  BY <1>1, ObservationsConsistent, LexicalAssumption, MergeDevicesFuses
<1> HIDE DEF ds
<1>3. ds \in Seq(Device) /\ Classified(ds)
  BY <1>2 DEF Fused
<1>4. Rated(conflicts) /\ NamesPublic(conflicts, ToSet(ds))
  BY <1>1, <1>3, ConflictsRated
<1>5. devices \in Seq(Device) /\ DOMAIN devices = DOMAIN ds /\ \A i \in DOMAIN ds : Paid(ds[i], devices[i], conflicts)
  BY <1>1, <1>3, <1>4, DowngradedDevices
<1> QED
  BY <1>3, <1>4, <1>5 DEF BuiltFrom, ds

\* DetectConflicts and downgradeForConflicts together: a device of the list with a public
\* address is a hop of the provider's, or has at most 45 percent and a conflict that says why.
THEOREM FusionPublicWeak == Spec => []PublicNeverConfident
<1>1. ASSUME StageInv PROVE PublicNeverConfident
  <2> SUFFICES ASSUME Built, NEW d \in ToSet(devices), ~(d.ips \subseteq PrivateIP), d.type # "isp_hop"
               PROVE  d.conf <= 45 /\ \E c \in ToSet(conflicts) : c.severity = "high" /\ d.id \in c.devs
    BY DEF PublicNeverConfident
  <2> DEFINE ds == MergeDevices(results)
  <2>1. BuiltFrom(ds, devices, conflicts)
    BY <1>1, BuiltNow
  <2> HIDE DEF ds
  <2>2. PICK i \in DOMAIN devices : d = devices[i]
    BY DEF ToSet
  <2>3. i \in DOMAIN ds /\ ds[i] \in ToSet(ds) /\ Paid(ds[i], d, conflicts) /\ NamesPublic(conflicts, ToSet(ds))
    BY <2>1, <2>2 DEF BuiltFrom, ToSet
  <2>4. ds[i].ips = d.ips /\ ds[i].type = d.type /\ ds[i].id = d.id /\ CostsRightly(d.conf, conflicts, ds[i].id)
    BY <2>3 DEF Paid
  <2>5. \E c \in ToSet(conflicts) : c.severity = "high" /\ ds[i].id \in c.devs
    BY <2>3, <2>4 DEF NamesPublic
  <2> QED
    BY <2>4, <2>5 DEF CostsRightly
<1> QED
  BY <1>1, FusionStages, PTL

-----------------------------------------------------------------------------
(* The nodes.                                                              *)

LEMMA ClassifyWeak ==
    ASSUME NEW d \in Device
    PROVE  ClassifyDevice(d).inferred => ClassifyDevice(d).conf <= 60
<1> DEFINE u == [d EXCEPT !.type = IF @ = "" THEN "unknown" ELSE @]
           t == Typed(u)
           w == IF t.type = "unknown" /\ HasOnlyWeakEvidence(t.ev) THEN [t EXCEPT !.conf = MaxOf(@, 35)] ELSE t
<1>1. "unknown" \in Labels /\ d.type \in Labels
  BY DEF Device, Labels
<1>2. u \in Device
  BY <1>1 DEF Device
<1> HIDE DEF u
<1>3. t \in Device
  BY <1>2, TypedKeeps
<1> HIDE DEF t
<1>4. MaxOf(t.conf, 35) \in Int
  BY <1>3 DEF Device, MaxOf
<1>5. [t EXCEPT !.conf = MaxOf(@, 35)] \in Device
  BY <1>3, <1>4 DEF Device
<1>6. w \in Device
  BY <1>3, <1>5
<1> HIDE DEF w
<1>7. ClassifyDevice(d) = [w EXCEPT !.conf = TopologyDeviceConfidence(w)]
  BY DEF ClassifyDevice, u, t, w
<1>8. ClassifyDevice(d).inferred = w.inferred /\ ClassifyDevice(d).conf = TopologyDeviceConfidence(w)
  BY <1>6, <1>7 DEF Device
<1>9. w.inferred => TopologyDeviceConfidence(w) <= 60
  BY <1>6, ConfidenceTyped
<1> QED
  BY <1>8, <1>9

\* The nodes of the graph: the devices', and after them perhaps the inferred switch.
LEMMA NodesAre ==
    ASSUME NEW ds \in Seq(Device), NEW ev
    PROVE  /\ \A i \in DOMAIN ds : BuildTopology(ds, ev).nodes[i] = NodeFromDevice(ds[i])
           /\ \A n \in ToSet(BuildTopology(ds, ev).nodes) : n = SwitchNode \/ \E i \in DOMAIN ds : n = NodeFromDevice(ds[i])
<1> DEFINE p == MapSeq(ds, NodeFromDevice)
           switch == ShouldInferSwitch(ds, ActiveMedium(ev))
           q == IF switch THEN <<SwitchNode>> ELSE <<>>
           A == {NodeFromDevice(ds[i]) : i \in DOMAIN ds} \cup {SwitchNode}
<1>1. BuildTopology(ds, ev).nodes = p \o q
  BY DEF BuildTopology
<1>2. Len(ds) \in Nat /\ DOMAIN ds = 1..Len(ds)
  OBVIOUS
<1>3. p = [i \in 1..Len(ds) |-> NodeFromDevice(ds[i])]
  BY <1>2 DEF MapSeq
<1> HIDE DEF p, switch
<1>4. p \in Seq(A) /\ Len(p) = Len(ds) /\ \A i \in 1..Len(ds) : p[i] = NodeFromDevice(ds[i])
  BY <1>2, <1>3
<1>5. q \in Seq(A) /\ ToSet(q) \subseteq A
  <2>1. <<SwitchNode>> \in Seq(A) /\ <<>> \in Seq(A)
    OBVIOUS
  <2>2. ToSet(<<SwitchNode>>) = {SwitchNode} /\ ToSet(<<>>) = {}
    BY DEF ToSet
  <2> HIDE DEF A
  <2>3. SwitchNode \in A
    BY DEF A
  <2> QED
    BY <2>1, <2>2, <2>3
<1> HIDE DEF q, A
<1>6. \A i \in 1..Len(p) : (p \o q)[i] = p[i]
  BY <1>4, <1>5
<1>7. ToSet(p \o q) = ToSet(p) \cup ToSet(q)
  BY <1>4, <1>5, Joined
<1>8. ToSet(p) \subseteq A
  BY <1>4 DEF ToSet
<1>9. ToSet(p \o q) \subseteq A
  BY <1>5, <1>7, <1>8
<1> QED
  BY <1>1, <1>2, <1>4, <1>6, <1>9 DEF A

LEMMA NodesWeak ==
    ASSUME NEW ds \in Seq(Device), NEW ev
    PROVE  \A n \in ToSet(BuildTopology(ds, ev).nodes) : n.inferred => n.conf <= 60
<1> DEFINE N == ToSet(BuildTopology(ds, ev).nodes)
<1>1. \A n \in N : n = SwitchNode \/ \E i \in DOMAIN ds : n = NodeFromDevice(ds[i])
  BY NodesAre
<1> HIDE DEF N
<1>2. SwitchNode.conf <= 60
  <2>1. SwitchNode.conf = 50
    BY DEF SwitchNode
  <2> QED
    BY <2>1
<1>3. \A i \in DOMAIN ds : NodeFromDevice(ds[i]).inferred => NodeFromDevice(ds[i]).conf <= 60
  <2> SUFFICES ASSUME NEW i \in DOMAIN ds
               PROVE  NodeFromDevice(ds[i]).inferred => NodeFromDevice(ds[i]).conf <= 60
    OBVIOUS
  <2> DEFINE d == ds[i]
  <2>1. d \in Device
    OBVIOUS
  <2> HIDE DEF d
  <2>2. NodeFromDevice(d).inferred = ClassifyDevice(d).inferred /\ NodeFromDevice(d).conf = ClassifyDevice(d).conf
    BY DEF NodeFromDevice
  <2>3. NodeFromDevice(d).inferred => NodeFromDevice(d).conf <= 60
    BY <2>1, <2>2, ClassifyWeak
  <2> QED
    BY <2>3 DEF d
<1>4. \A n \in N : n.inferred => n.conf <= 60
  BY <1>1, <1>2, <1>3
<1> QED
  BY <1>4 DEF N

-----------------------------------------------------------------------------
(* The edges.                                                              *)

\* What every edge should be: weak if inferred, and solid only if proven.
Sound(e) ==
    /\ e.inferred => e.conf <= 60
    /\ ~e.inferred /\ ~(e.conf < 70) => e.rel = "wifi_link" \/ \E p \in e.ev : p.link # <<>> /\ Proven(p)

LEMMA InferredSound ==
    ASSUME NEW source, NEW target, NEW rel, NEW conf \in Int, conf # 0, NEW ev
    PROVE  Sound(Edge(source, target, rel, conf, TRUE, ev))
  BY DEF Edge, Sound, TopologyEdgeConfidence, MinOf

LEMMA ObservedSound ==
    ASSUME NEW source, NEW target, NEW rel, NEW conf \in Int, conf # 0, NEW ev,
           conf < 70 \/ rel = "wifi_link" \/ \E p \in ev : p.link # <<>> /\ Proven(p)
    PROVE  Sound(Edge(source, target, rel, conf, FALSE, ev))
  BY DEF Edge, Sound, TopologyEdgeConfidence, MinOf

\* A list of sound edges.
Sounds(s) == s \in Seq(ToSet(s)) /\ \A e \in ToSet(s) : Sound(e)

LEMMA SoundsJoin ==
    ASSUME NEW p, NEW q, Sounds(p), Sounds(q)
    PROVE  Sounds(p \o q)
<1> DEFINE A == ToSet(p) \cup ToSet(q)
<1>1. p \in Seq(ToSet(p)) /\ q \in Seq(ToSet(q)) /\ ToSet(p) \subseteq A /\ ToSet(q) \subseteq A /\ \A e \in A : Sound(e)
  BY DEF Sounds
<1> HIDE DEF A
<1>2. p \in Seq(A) /\ q \in Seq(A)
  BY <1>1
<1>3. p \o q \in Seq(A) /\ ToSet(p \o q) = ToSet(p) \cup ToSet(q)
  BY <1>2, Joined
<1> QED
  BY <1>1, <1>3 DEF A, Sounds

LEMMA SoundsNone == Sounds(<<>>)
<1>1. \A S : <<>> \in Seq(S)
  OBVIOUS
<1>2. ToSet(<<>>) = {}
  BY DEF ToSet
<1> QED
  BY <1>1, <1>2 DEF Sounds

LEMMA SoundsOne ==
    ASSUME NEW e, Sound(e)
    PROVE  Sounds(<<e>>)
<1>1. ToSet(<<e>>) = {e}
  BY DEF ToSet
<1>2. <<e>> \in Seq({e})
  OBVIOUS
<1> QED
  BY <1>1, <1>2 DEF Sounds

LEMMA SoundsEach ==
    ASSUME NEW n \in Nat, NEW s, s = [i \in 1..n |-> s[i]], \A i \in 1..n : Sound(s[i])
    PROVE  Sounds(s)
<1>1. DOMAIN s = 1..n
  OBVIOUS
<1>2. ToSet(s) = {s[i] : i \in 1..n}
  BY <1>1 DEF ToSet
<1> DEFINE A == ToSet(s)
<1>3. \A i \in 1..n : s[i] \in A
  BY <1>2
<1> HIDE DEF A
<1>4. s \in Seq(A)
  BY <1>3
<1> QED
  BY <1>2, <1>4 DEF A, Sounds
\* The evidence of a link has the type, and proves what the type says or makes the edge weak.
LEMMA LinkSound ==
    ASSUME NEW source, NEW target, NEW rel, NEW conf \in Int, NEW e, e.link # <<>>
    PROVE  Sound(Edge(source, target, rel, conf, ~Proven(e), {e}))
<1> DEFINE edge == Edge(source, target, rel, conf, ~Proven(e), {e})
           v == IF conf # 0 THEN conf
                ELSE CASE rel = "wifi_link" -> 85 [] rel = "ethernet_link" -> 70
                       [] rel \in {"routed_hop", "gateway_chain"} -> 60
                       [] rel \in {"isp_route_hop", "inferred_l2_link"} -> 50
                       [] rel = "upstream_nat" -> 55 [] OTHER -> 35
<1>1. v \in Int
  OBVIOUS
<1>2. TopologyEdgeConfidence(rel, conf, ~Proven(e)) = IF ~Proven(e) THEN MinOf(v, 60) ELSE v
  BY DEF TopologyEdgeConfidence
<1> HIDE DEF v
<1>3. edge.inferred = ~Proven(e) /\ edge.ev = {e} /\ edge.conf = TopologyEdgeConfidence(rel, conf, ~Proven(e))
  BY DEF Edge
<1> HIDE DEF edge
<1>4. CASE Proven(e)
  <2>1. e \in edge.ev /\ e.link # <<>> /\ Proven(e)
    BY <1>3, <1>4
  <2> HIDE DEF Proven
  <2>2. ~edge.inferred
    BY <1>3, <1>4
  <2> QED
    BY <2>1, <2>2 DEF Sound, edge
<1>5. CASE ~Proven(e)
  <2>1. edge.inferred
    BY <1>3, <1>5
  <2>2. edge.conf = MinOf(v, 60)
    BY <1>2, <1>3, <1>5
  <2>3. edge.conf <= 60
    BY <1>1, <2>2 DEF MinOf
  <2> QED
    BY <2>1, <2>3 DEF Sound, edge
<1> QED
  BY <1>4, <1>5

LEMMA ExplicitSound ==
    ASSUME NEW ev, IsFiniteSet(ev), \A e \in ev : e.conf \in Int
    PROVE  Sounds(ExplicitLinks(ev))
<1> DEFINE conf(e) == CASE e.src = "lldp_cdp_passive_probe" -> MaxOf(e.conf, 90)
                        [] e.src = "snmp_optin_probe" /\ "bridge" \in e.words -> MaxOf(e.conf, 80)
                        [] OTHER -> e.conf
           edge(e) == Edge(e.link[1], e.link[2], EdgeTypeFromRaw(e), conf(e), ~Proven(e), {e})
           S == {e \in ev : e.link # <<>>}
           f == [e \in S |-> edge(e)]
           T == {f[e] : e \in S}
<1>1. \A e \in S : conf(e) \in Int
  BY DEF MaxOf
<1> HIDE DEF conf
<1>2. \A e \in S : Sound(edge(e))
  BY <1>1, LinkSound
<1>3. ExplicitLinks(ev) = SetToSeq({edge(e) : e \in S})
  BY Zenon DEF ExplicitLinks, conf
<1> HIDE DEF edge
<1>4. T = {edge(e) : e \in S}
  OBVIOUS
<1>5. IsFiniteSet(S)
  BY FS_Subset
<1> HIDE DEF S
<1>6. \A e \in S : f[e] = edge(e)
  OBVIOUS
<1> HIDE DEF f
<1>7. IsFiniteSet(T)
  BY <1>5, FiniteImage
<1>8. \A t \in T : Sound(t)
  BY <1>2, <1>6
<1> HIDE DEF T
<1>9. SetToSeq(T) \in Seq(T) /\ ToSet(SetToSeq(T)) = T
  BY <1>7, Listing
<1>10. Sounds(SetToSeq(T))
  BY <1>8, <1>9 DEF Sounds
<1> QED
  BY <1>3, <1>4, <1>10

LEMMA HostSound ==
    ASSUME NEW ds, NEW ev
    PROVE  Sounds(HostLinks(ds, ev))
<1> DEFINE local  == LocalId(ds)
           gw     == GatewayId(ds)
           medium == ActiveMedium(ev)
           target == IF medium = "wifi" /\ APId(ds) # <<>> THEN APId(ds) ELSE gw
           host   == From(ev, {"os_interface_probe", "route_table_probe", "wifi_probe"})
           ap     == From(ev, {"wifi_probe", "route_table_probe"})
           wifi   == Edge(local, target, "wifi_link", 85, FALSE, host)
           cable  == Edge(local, target, "ethernet_link", 70, TRUE, host)
           other  == Edge(local, target, "unknown_link", 40, TRUE, host)
           behind == Edge(target, gw, "inferred_l2_link", 55, TRUE, ap)
           link   == CASE medium = "wifi" -> wifi [] medium = "ethernet" -> cable [] OTHER -> other
<1>1. HostLinks(ds, ev) = IF local = <<>> \/ gw = <<>> THEN <<>>
                          ELSE <<link>> \o IF target = gw THEN <<>> ELSE <<behind>>
  BY DEF HostLinks
<1> HIDE DEF local, gw, medium, target, host, ap
<1>2. Sound(wifi) /\ Sound(cable) /\ Sound(other) /\ Sound(behind)
  BY DEF Edge, Sound, TopologyEdgeConfidence, MinOf
<1> HIDE DEF wifi, cable, other, behind
<1>3. Sound(link)
  BY <1>2
<1> HIDE DEF link
<1>4. Sounds(<<link>>) /\ Sounds(<<behind>>) /\ Sounds(<<>>)
  BY <1>2, <1>3, SoundsOne, SoundsNone
<1>5. Sounds(<<link>> \o <<behind>>) /\ Sounds(<<link>> \o <<>>)
  BY <1>4, SoundsJoin
<1> QED
  BY <1>1, <1>4, <1>5

LEMMA RouteSound ==
    ASSUME NEW ds \in Seq(Device)
    PROVE  Sounds(RouteLinks(ds))
<1> DEFINE gw      == GatewayId(ds)
           private == Those(ds, {d \in ToSet(ds) : d.type # "isp_hop" /\ "upstream_gateway" \in d.roles})
           public  == Those(ds, {d \in ToSet(ds) : d.type = "isp_hop"})
           before  == IF private # <<>> THEN Last(private).id ELSE gw
           n       == MaxOf(0, Len(private) - 1)
           chain   == [i \in 1..n |-> Edge(private[i].id, private[i + 1].id, "gateway_chain", 60, FALSE, private[i].ev)]
           nat     == Edge(gw, private[1].id, "upstream_nat", 55, FALSE, private[1].ev)
           hops    == [i \in DOMAIN public |->
                         Edge(IF i = 1 THEN before ELSE public[i - 1].id, public[i].id, "isp_route_hop", 50, FALSE, public[i].ev)]
           link    == IF gw = <<>> \/ private = <<>> THEN <<>> ELSE <<nat>>
<1>1. RouteLinks(ds) = chain \o link \o hops
  BY DEF RouteLinks
<1>2. private \in Seq(Device) /\ public \in Seq(Device)
  BY ThoseIn
<1> HIDE DEF gw, private, public, before
<1>3. Len(private) \in Nat /\ Len(public) \in Nat /\ DOMAIN public = 1..Len(public)
  BY <1>2
<1>4. n \in Nat
  BY <1>3 DEF MaxOf
<1> HIDE DEF n
<1>5. \A i \in 1..n : Sound(chain[i])
  BY DEF Edge, Sound, TopologyEdgeConfidence, MinOf
<1>6. \A i \in 1..Len(public) : Sound(hops[i])
  BY <1>3 DEF Edge, Sound, TopologyEdgeConfidence, MinOf
<1>7. Sound(nat)
  BY DEF Edge, Sound, TopologyEdgeConfidence, MinOf
<1>8. chain = [i \in 1..n |-> chain[i]] /\ hops = [i \in 1..Len(public) |-> hops[i]]
  BY <1>3
<1> HIDE DEF chain, hops, nat
<1>9. Sounds(chain) /\ Sounds(hops)
  BY <1>3, <1>4, <1>5, <1>6, <1>8, SoundsEach
<1>10. Sounds(link)
  BY <1>7, SoundsOne, SoundsNone
<1> HIDE DEF link
<1>11. Sounds(chain \o link)
  BY <1>9, <1>10, SoundsJoin
<1> DEFINE both == chain \o link
<1> HIDE DEF both
<1>12. Sounds(both \o hops)
  BY <1>9, <1>11, SoundsJoin DEF both
<1> QED
  BY <1>1, <1>12 DEF both

LEMMA SwitchSound ==
    ASSUME NEW ds \in Seq(Device)
    PROVE  Sounds(SwitchLinks(ds))
<1> DEFINE local == LocalId(ds)
           peers == Those(ds, {d \in ToSet(ds) : /\ d.id \notin {local, GatewayId(ds)}
                                                  /\ d.type # "isp_hop" /\ HasPrivateIP(d)})
           own   == Edge(local, SwitchId, "inferred_l2_link", 50, TRUE, {})
           link  == IF local = <<>> THEN <<>> ELSE <<own>>
           each  == [i \in DOMAIN peers |-> Edge(SwitchId, peers[i].id, "inferred_l2_link", 45, TRUE, {})]
<1>1. SwitchLinks(ds) = link \o each
  BY DEF SwitchLinks, MapSeq
<1>2. peers \in Seq(Device)
  BY ThoseIn
<1> HIDE DEF local, peers
<1>3. Len(peers) \in Nat /\ DOMAIN peers = 1..Len(peers)
  BY <1>2
<1>4. \A i \in 1..Len(peers) : Sound(each[i])
  BY <1>3 DEF Edge, Sound, TopologyEdgeConfidence, MinOf
<1>5. Sound(own)
  BY DEF Edge, Sound, TopologyEdgeConfidence, MinOf
<1>6. each = [i \in 1..Len(peers) |-> each[i]]
  BY <1>3
<1> HIDE DEF each, own
<1>7. Sounds(each)
  BY <1>3, <1>4, <1>6, SoundsEach
<1>8. Sounds(link)
  BY <1>5, SoundsOne, SoundsNone
<1> HIDE DEF link
<1>9. Sounds(link \o each)
  BY <1>7, <1>8, SoundsJoin
<1> QED
  BY <1>1, <1>9

\* An edge is kept only if it was wanted.
Drawn(kept, q) == kept \in SUBSET ToSet(q)

LEMMA EdgesDrawn ==
    ASSUME NEW A, NEW wanted \in Seq(A), NEW ids
    PROVE  Drawn(AddEdges(ids, wanted), wanted)
<1> DEFINE R == ToSet(wanted)
           B == SUBSET R
           q == wanted
           step(edges, e) == AddEdge(ids, edges, e)
           o == [p \in B \X R |-> step(p[1], p[2])]
           Sol(g) == g = [s \in SUBSET DOMAIN q |-> IF s = {} THEN {} ELSE step(g[s \ {Max(s)}], q[Max(s)])]
           f == CHOOSE g : Sol(g)
<1>1. \A s \in B, e \in R : step(s, e) \in B
  BY DEF AddEdge, UpsertEdge
<1>6. AddEdges(ids, wanted) = f[DOMAIN q]
  BY Zenon DEF AddEdges, FoldLeft, MapThenFoldSet
<1>13. \A s \in B, e \in R : o[<<s, e>>] = step(s, e)
  OBVIOUS
<1>00. Len(wanted) \in Nat /\ DOMAIN wanted = 1..Len(wanted) /\ wanted = [k \in 1..Len(wanted) |-> wanted[k]]
  OBVIOUS
<1>02. \A k \in 1..Len(wanted) : wanted[k] \in R
  BY <1>00 DEF ToSet
<1> HIDE DEF R
<1>03. wanted \in Seq(R)
  BY <1>00, <1>02
<1> HIDE DEF step
<1>11. o \in [B \X R -> B]
  BY <1>1
<1>12. {} \in B
  OBVIOUS
<1> HIDE DEF o, B, q
<1>01. q \in Seq(R)
  BY <1>03 DEF q
<1>0. Len(q) \in Nat /\ DOMAIN q = 1..Len(q) /\ \A k \in 1..Len(q) : q[k] \in R
  BY <1>01
<1>2. PICK h \in [SUBSET DOMAIN q -> B] : IsFold(h, o, {}, q)
  BY <1>01, <1>11, <1>12, FoldExists
<1>4. Sol(h)
  <2>1. ASSUME NEW s \in SUBSET DOMAIN q, s # {} PROVE h[s] = step(h[s \ {Max(s)}], q[Max(s)])
    <3>1. h[s \ {Max(s)}] \in B /\ q[Max(s)] \in R
      BY <1>01, <1>2, <2>1, FoldUse
    <3>2. h[s] = o[<<h[s \ {Max(s)}], q[Max(s)]>>]
      BY <1>2, <2>1 DEF IsFold
    <3> QED
      BY <1>13, <3>1, <3>2
  <2> QED
    BY <1>2, <2>1 DEF IsFold
<1>5. Sol(f)
  BY <1>4, Zenon
<1> HIDE DEF f
<1>81. Unrolls(f, o, {}, B, q)
  <2>1. ASSUME NEW k \in 1..Len(q), f[1..k - 1] \in B PROVE f[1..k] = o[<<f[1..k - 1], q[k]>>]
    <3>1. k \in Nat /\ k # 0 /\ 1..k \in SUBSET DOMAIN q
      BY <1>0
    <3>2. f[1..k] = step(f[(1..k) \ {Max(1..k)}], q[Max(1..k)])
      BY <1>5, <3>1, MaxOfPrefix
    <3> QED
      BY <1>0, <1>13, <2>1, <3>1, <3>2, MaxOfPrefix
  <2> QED
    BY <1>5, <2>1 DEF Unrolls
<1>9. PICK run \in [0..Len(q) -> B] : IsRun(run, o, {}, q) /\ EndsIn(run, q, f[DOMAIN q])
  BY <1>01, <1>11, <1>12, <1>81, FoldPrefixes
<1>10. run[Len(q)] \in B
  BY <1>0, <1>9
<1>14. f[DOMAIN q] \in SUBSET ToSet(wanted)
  BY <1>9, <1>10 DEF EndsIn, B, R
<1> QED
  BY <1>6, <1>14 DEF Drawn

LEMMA EvidenceCollected ==
    ASSUME NEW U, NEW rs \in Seq(ResultOf(U)), NEW ds \in Seq(Device)
    PROVE  IsFiniteSet(CollectEvidence(rs, ds)) /\ \A e \in CollectEvidence(rs, ds) : e.conf \in Int
<1> DEFINE R == ToSet(rs)
           D == ToSet(ds)
           f == [r \in R |-> ToSet(r.ev)]
           g == [d \in D |-> d.ev]
           F == UNION {f[r] : r \in R}
           G == UNION {g[d] : d \in D}
<1>1. CollectEvidence(rs, ds) = F \cup G
  <2>1. {f[r] : r \in R} = {ToSet(r.ev) : r \in R} /\ {g[d] : d \in D} = {d.ev : d \in D}
    OBVIOUS
  <2> QED
    BY <2>1 DEF CollectEvidence
<1>2. IsFiniteSet(R) /\ R \subseteq ResultOf(U) /\ IsFiniteSet(D) /\ D \subseteq Device
  BY FiniteRange
<1>3. \A r \in R : f[r] = ToSet(r.ev) /\ r.ev \in Seq(EvidenceRecord)
  BY <1>2 DEF ResultOf, ProbeResult
<1>4. \A d \in D : g[d] = d.ev /\ d.ev \in FiniteSubsetsOf(EvidenceRecord)
  BY <1>2 DEF Device
<1> HIDE DEF R, D, f, g
<1>5. \A r \in R : IsFiniteSet(f[r]) /\ f[r] \subseteq EvidenceRecord
  BY <1>3, FiniteRange
<1>6. \A d \in D : IsFiniteSet(g[d]) /\ g[d] \subseteq EvidenceRecord
  BY <1>4 DEF FiniteSubsetsOf
<1>7. IsFiniteSet(F) /\ IsFiniteSet(G)
  BY <1>2, <1>5, <1>6, FiniteFamily
<1>8. F \subseteq EvidenceRecord /\ G \subseteq EvidenceRecord
  BY <1>5, <1>6
<1> HIDE DEF F, G
<1>9. IsFiniteSet(F \cup G)
  BY <1>7, FS_Union
<1>10. \A e \in EvidenceRecord : e.conf \in Int
  BY DEF EvidenceRecord
<1> QED
  BY <1>1, <1>8, <1>9, <1>10

\* Every edge of the graph is sound.
LEMMA EdgesSound ==
    ASSUME NEW ds \in Seq(Device), NEW ev, IsFiniteSet(ev), \A e \in ev : e.conf \in Int
    PROVE  \A e \in BuildTopology(ds, ev).edges : Sound(e)
<1> DEFINE switch == ShouldInferSwitch(ds, ActiveMedium(ev))
           ids    == {d.id : d \in ToSet(ds)} \cup IF switch THEN {SwitchId} ELSE {}
           host   == HostLinks(ds, ev)
           links  == ExplicitLinks(ev)
           route  == RouteLinks(ds)
           inner  == IF switch THEN SwitchLinks(ds) ELSE <<>>
           wanted == host \o links \o route \o inner
<1>1. BuildTopology(ds, ev).edges = AddEdges(ids, wanted)
  BY DEF BuildTopology
<1>2. Sounds(host) /\ Sounds(links) /\ Sounds(route)
  BY HostSound, ExplicitSound, RouteSound
<1>3. Sounds(inner)
  BY SwitchSound, SoundsNone
<1> HIDE DEF host, links, route, inner, ids
<1>4. Sounds(host \o links)
  BY <1>2, SoundsJoin
<1> DEFINE first == host \o links
           second == first \o route
<1> HIDE DEF first
<1>5. Sounds(second)
  BY <1>2, <1>4, SoundsJoin DEF first
<1> HIDE DEF second
<1>6. Sounds(second \o inner)
  BY <1>3, <1>5, SoundsJoin
<1>7. Sounds(wanted)
  BY <1>6 DEF first, second
<1> HIDE DEF wanted
<1>8. wanted \in Seq(ToSet(wanted)) /\ \A e \in ToSet(wanted) : Sound(e)
  BY <1>7 DEF Sounds
<1> DEFINE drawn == AddEdges(ids, wanted)
<1>9. Drawn(drawn, wanted)
  BY <1>8, EdgesDrawn
<1> HIDE DEF drawn
<1>10. \A e \in drawn : Sound(e)
  BY <1>8, <1>9 DEF Drawn
<1> QED
  BY <1>1, <1>10 DEF drawn

\* What is drawn, once the graph is built.
Honest(drawn) ==
    /\ \A n \in ToSet(drawn.nodes) : n.inferred => n.conf <= 60
    /\ \A e \in drawn.edges : Sound(e)

LEMMA HonestNow == StageInv /\ Built => Honest(topology) /\ output.graph = GraphAdapter(topology)
<1> SUFFICES ASSUME StageInv, Built PROVE Honest(topology) /\ output.graph = GraphAdapter(topology)
  OBVIOUS
<1> DEFINE ev == CollectEvidence(results, devices)
<1>1. /\ results \in Seq(ResultOf(Observations)) /\ topology = BuildTopology(devices, ev)
      /\ output.graph = GraphAdapter(topology)
  BY DEF StageInv, Gathered, AsBuilt
<1>2. devices \in Seq(Device)
  BY BuiltNow DEF BuiltFrom
<1>3. IsFiniteSet(ev) /\ \A e \in ev : e.conf \in Int
  BY <1>1, <1>2, EvidenceCollected
<1> HIDE DEF ev
<1>4. \A n \in ToSet(topology.nodes) : n.inferred => n.conf <= 60
  BY <1>1, <1>2, NodesWeak
<1>5. \A e \in topology.edges : Sound(e)
  BY <1>1, <1>2, <1>3, EdgesSound
<1> QED
  BY <1>1, <1>4, <1>5 DEF Honest

\* TopologyDeviceConfidence and TopologyEdgeConfidence cap what is inferred, and nothing after
\* them raises it: no inferred device or edge has more than 60 percent.
THEOREM FusionWeak == Spec => []InferenceStaysWeak
<1>1. StageInv => InferenceStaysWeak
  <2> SUFFICES ASSUME StageInv, Built
               PROVE  /\ \A n \in ToSet(topology.nodes) : n.inferred => n.conf <= 60
                      /\ \A e \in topology.edges : e.inferred => e.conf <= 60
    BY DEF InferenceStaysWeak
  <2> QED
    BY HonestNow DEF Honest, Sound
<1> QED
  BY <1>1, FusionStages, PTL

\* GraphAdapter draws a solid line only for an edge that addInferredAndRoutedEdges was told of
\* by the operating system, or by evidence that proves links.
THEOREM FusionSolid == Spec => []SolidEdgesProven
<1>1. StageInv => SolidEdgesProven
  <2> SUFFICES ASSUME StageInv, Built, NEW g \in output.graph.edges, g.style = "solid"
               PROVE  \E e \in topology.edges : /\ EdgeId(e) = g.id
                                                /\ e.rel = "wifi_link" \/ \E p \in e.ev : p.link # <<>> /\ Proven(p)
    BY DEF SolidEdgesProven
  <2>1. Honest(topology) /\ output.graph = GraphAdapter(topology)
    BY HonestNow
  <2>2. output.graph.edges = {[id |-> EdgeId(e), conf |-> e.conf, style |-> EdgeStyle(e)] : e \in topology.edges}
    <3> DEFINE N == MapSeq(topology.nodes, LAMBDA n :
                       [id |-> n.id, icon |-> Icon(n.type), conf |-> n.conf,
                        section |-> IF n.type = "isp_hop" THEN "isp_path" ELSE "lan",
                        badges |-> n.roles \cup (IF n.inferred THEN {"inferred"} ELSE {})
                                   \cup (IF n.type = "isp_hop" THEN {"observed_route_hop"} ELSE {})])
               E == {[id |-> EdgeId(e), conf |-> e.conf, style |-> EdgeStyle(e)] : e \in topology.edges}
    <3>1. GraphAdapter(topology) = [nodes |-> N, edges |-> E]
      BY Zenon DEF GraphAdapter
    <3> HIDE DEF N
    <3> QED
      BY <2>1, <3>1
  <2>3. PICK e \in topology.edges : g = [id |-> EdgeId(e), conf |-> e.conf, style |-> EdgeStyle(e)]
    BY <2>2
  <2>4. EdgeStyle(e) = "solid" /\ EdgeId(e) = g.id
    BY <2>3
  <2>5. ~e.inferred /\ ~(e.conf < 70)
    BY <2>4 DEF EdgeStyle
  <2>6. Sound(e)
    BY <2>1 DEF Honest
  <2> QED
    BY <2>4, <2>5, <2>6 DEF Sound
<1> QED
  BY <1>1, FusionStages, PTL

-----------------------------------------------------------------------------
(* The second classification.                                              *)

\* The needles that the name of a type may contain.
Needles == {"switch", "router", "ont", "printer", "nas", "camera", "phone", "laptop", "desktop", "iot"}

LEMMA TypeNeedles ==
    ASSUME NEW t
    PROVE  TypeWords(t) \subseteq Needles
  BY DEF TypeWords, Needles

\* The types that classification keeps without looking at the text.
Kept == {"local_host", "virtual_adapter", "isp_hop", "inferred_switch"}

\* The class that a needle or a role belongs to.
ClassRow(w) ==
    CASE w \in {"router", "default_gateway"} -> 1 [] w \in {"switch", "switching_device"} -> 2 [] w = "wifi_ap" -> 3
      [] w = "ont" -> 4 [] w = "printer" -> 6 [] w = "nas" -> 7 [] w = "camera" -> 8 [] w = "phone" -> 9
      [] w = "laptop" -> 10 [] w = "desktop" -> 11 [] w = "iot" -> 12 [] OTHER -> 0

Named(t) == t # ""

Decided(t) == t \notin Kept /\ Named(t)

\* What the name of a class's type, its needles and its roles say belongs to the class alone.
Says(c, row) ==
    /\ c.words \cap Needles \subseteq TypeWords(c.type)
    /\ \A w \in TypeWords(c.type) : ClassRow(w) = row
    /\ \A r \in c.roles : RoleWords(r) \subseteq TypeWords(c.type)
    /\ \A r \in c.roles \cup c.has : ClassRow(r) = row
    /\ Decided(c.type)

LEMMA ClassesSay == \A i \in 1..12 : Says(Classes[i], i)
<1>0. \A k \in 1..12 : k = 1 \/ k = 2 \/ k = 3 \/ k = 4 \/ k = 5 \/ k = 6 \/ k = 7 \/ k = 8 \/ k = 9 \/ k = 10 \/ k = 11 \/ k = 12
  OBVIOUS
<1>1. Says(Classes[1], 1)
  <2>1. /\ Classes[1].type = "router" /\ Classes[1].has = {"default_gateway"} /\ Classes[1].roles = {}
        /\ Classes[1].words = {"internetgatewaydevice", "wanipconnection", "nat-pmp", "pcp", "default-gateway"}
    BY DEF Classes, Class
  <2>2. TypeWords("router") = {"router"}
    BY DEF TypeWords
  <2> QED
    BY <2>1, <2>2 DEF Says, Decided, Named, Needles, Kept, ClassRow, RoleWords
<1>2. Says(Classes[2], 2)
  <2>1. /\ Classes[2].type = "managed_switch" /\ Classes[2].has = {} /\ Classes[2].roles = {"switching_device"}
        /\ Classes[2].words = {"sysdescr", "bridge-mib", "lldp", "cdp", "forwarding-table", "switch"}
    BY DEF Classes, Class
  <2>2. TypeWords("managed_switch") = {"switch"}
    BY DEF TypeWords
  <2> QED
    BY <2>1, <2>2 DEF Says, Decided, Named, Needles, Kept, ClassRow, RoleWords
<1>3. Says(Classes[3], 3)
  <2>1. /\ Classes[3].type = "access_point" /\ Classes[3].has = {"wifi_ap"} /\ Classes[3].roles = {"wifi_ap"}
        /\ Classes[3].words = {"bssid", "wireless-ap", "access-point", "802.11"}
    BY DEF Classes, Class
  <2>2. TypeWords("access_point") = {}
    BY DEF TypeWords
  <2> QED
    BY <2>1, <2>2 DEF Says, Decided, Named, Needles, Kept, ClassRow, RoleWords
<1>4. Says(Classes[4], 4)
  <2>1. /\ Classes[4].type = "ont" /\ Classes[4].has = {} /\ Classes[4].roles = {}
        /\ Classes[4].words = {"ont", "gpon", "xgs-pon", "optical"}
    BY DEF Classes, Class
  <2>2. TypeWords("ont") = {"ont"}
    BY DEF TypeWords
  <2> QED
    BY <2>1, <2>2 DEF Says, Decided, Named, Needles, Kept, ClassRow, RoleWords
<1>5. Says(Classes[5], 5)
  <2>1. /\ Classes[5].type = "modem" /\ Classes[5].has = {} /\ Classes[5].roles = {}
        /\ Classes[5].words = {"docsis", "cable-modem", "dsl", "vdsl", "adsl"}
    BY DEF Classes, Class
  <2>2. TypeWords("modem") = {}
    BY DEF TypeWords
  <2> QED
    BY <2>1, <2>2 DEF Says, Decided, Named, Needles, Kept, ClassRow, RoleWords
<1>6. Says(Classes[6], 6)
  <2>1. /\ Classes[6].type = "printer" /\ Classes[6].has = {} /\ Classes[6].roles = {}
        /\ Classes[6].words = {"_ipp._tcp", "printer", "jetdirect", "port-9100"}
    BY DEF Classes, Class
  <2>2. TypeWords("printer") = {"printer"}
    BY DEF TypeWords
  <2> QED
    BY <2>1, <2>2 DEF Says, Decided, Named, Needles, Kept, ClassRow, RoleWords
<1>7. Says(Classes[7], 7)
  <2>1. /\ Classes[7].type = "nas" /\ Classes[7].has = {} /\ Classes[7].roles = {}
        /\ Classes[7].words = {"synology", "qnap", "_smb._tcp", "nas"}
    BY DEF Classes, Class
  <2>2. TypeWords("nas") = {"nas"}
    BY DEF TypeWords
  <2> QED
    BY <2>1, <2>2 DEF Says, Decided, Named, Needles, Kept, ClassRow, RoleWords
<1>8. Says(Classes[8], 8)
  <2>1. /\ Classes[8].type = "camera" /\ Classes[8].has = {} /\ Classes[8].roles = {}
        /\ Classes[8].words = {"rtsp", "onvif", "camera"}
    BY DEF Classes, Class
  <2>2. TypeWords("camera") = {"camera"}
    BY DEF TypeWords
  <2> QED
    BY <2>1, <2>2 DEF Says, Decided, Named, Needles, Kept, ClassRow, RoleWords
<1>9. Says(Classes[9], 9)
  <2>1. /\ Classes[9].type = "phone" /\ Classes[9].has = {} /\ Classes[9].roles = {}
        /\ Classes[9].words = {"iphone", "android", "phone"}
    BY DEF Classes, Class
  <2>2. TypeWords("phone") = {"phone"}
    BY DEF TypeWords
  <2> QED
    BY <2>1, <2>2 DEF Says, Decided, Named, Needles, Kept, ClassRow, RoleWords
<1>10. Says(Classes[10], 10)
  <2>1. /\ Classes[10].type = "laptop" /\ Classes[10].has = {} /\ Classes[10].roles = {}
        /\ Classes[10].words = {"laptop", "macbook", "notebook"}
    BY DEF Classes, Class
  <2>2. TypeWords("laptop") = {"laptop"}
    BY DEF TypeWords
  <2> QED
    BY <2>1, <2>2 DEF Says, Decided, Named, Needles, Kept, ClassRow, RoleWords
<1>11. Says(Classes[11], 11)
  <2>1. /\ Classes[11].type = "desktop" /\ Classes[11].has = {} /\ Classes[11].roles = {}
        /\ Classes[11].words = {"desktop", "workstation"}
    BY DEF Classes, Class
  <2>2. TypeWords("desktop") = {"desktop"}
    BY DEF TypeWords
  <2> QED
    BY <2>1, <2>2 DEF Says, Decided, Named, Needles, Kept, ClassRow, RoleWords
<1>12. Says(Classes[12], 12)
  <2>1. /\ Classes[12].type = "iot" /\ Classes[12].has = {} /\ Classes[12].roles = {}
        /\ Classes[12].words = {"iot", "chromecast", "airplay", "smart"}
    BY DEF Classes, Class
  <2>2. TypeWords("iot") = {"iot"}
    BY DEF TypeWords
  <2> QED
    BY <2>1, <2>2 DEF Says, Decided, Named, Needles, Kept, ClassRow, RoleWords
<1> QED
  BY <1>0, <1>1, <1>2, <1>3, <1>4, <1>5, <1>6, <1>7, <1>8, <1>9, <1>10, <1>11, <1>12

\* What a class gives a device leads to no other class.
Apart(c, d) ==
    /\ TypeWords(c.type) \cap d.words = {}
    /\ \A r \in c.roles : RoleWords(r) \cap d.words = {}
    /\ c.roles \cap d.has = {}

LEMMA ClassesApart ==
    ASSUME NEW i \in 1..12, NEW j \in 1..12, i # j
    PROVE  Apart(Classes[i], Classes[j])
<1> DEFINE c == Classes[i]
           d == Classes[j]
<1>1. Says(c, i) /\ Says(d, j)
  BY ClassesSay
<1> HIDE DEF c, d
<1>2. TypeWords(c.type) \subseteq Needles
  BY TypeNeedles
<1>3. ASSUME NEW w \in TypeWords(c.type), w \in d.words PROVE FALSE
  <2>1. w \in TypeWords(d.type)
    BY <1>1, <1>2, <1>3 DEF Says
  <2>2. ClassRow(w) = i /\ ClassRow(w) = j
    BY <1>1, <1>3, <2>1 DEF Says
  <2> QED
    BY <2>2
<1>4. \A r \in c.roles : RoleWords(r) \cap d.words = {}
  BY <1>1, <1>3 DEF Says
<1>5. ASSUME NEW r \in c.roles, r \in d.has PROVE FALSE
  <2>1. ClassRow(r) = i /\ ClassRow(r) = j
    BY <1>1, <1>5 DEF Says
  <2> QED
    BY <2>1
<1>6. Apart(c, d)
  BY <1>3, <1>4, <1>5 DEF Apart
<1> QED
  BY <1>6 DEF c, d

\* A case of the switch holds for a device.
Hits(d, c) == d.roles \cap c.has # {} \/ DeviceText(d) \cap c.words # {} \/ d.ports \cap c.ports # {}

LEMMA HitsClasses ==
    ASSUME NEW d
    PROVE  ClassesOf(d) = {i \in 1..12 : Hits(d, Classes[i])}
  BY ClassesTyped DEF ClassesOf, Hits

\* What classification reads of a device besides its type and roles.
SameText(d, e) == e.words = d.words /\ e.ports = d.ports /\ e.ev = d.ev

\* e is d once class c has been given to it.
Given(d, e, c) == e.type = c.type /\ e.roles = d.roles \cup c.roles /\ SameText(d, e)

LEMMA TextHas ==
    ASSUME NEW d, NEW w
    PROVE  w \in DeviceText(d) <=> \/ w \in TypeWords(d.type) \/ w \in d.words
                                   \/ \E r \in d.roles : w \in RoleWords(r)
                                   \/ \E x \in d.ev : w \in x.words
  BY DEF DeviceText

LEMMA HitStays ==
    ASSUME NEW d, NEW e, NEW c, NEW row, Says(c, row), Given(d, e, c), Hits(d, c)
    PROVE  Hits(e, c)
<1>1. CASE d.roles \cap c.has # {} \/ d.ports \cap c.ports # {}
  BY <1>1 DEF Given, SameText, Hits
<1>2. CASE DeviceText(d) \cap c.words # {}
  <2>1. PICK w \in c.words : w \in DeviceText(d)
    BY <1>2
  <2>2. CASE w \in TypeWords(d.type)
    <3>1. w \in TypeWords(e.type)
      BY <2>1, <2>2, TypeNeedles DEF Says, Given
    <3> QED
      BY <2>1, <3>1, TextHas DEF Hits
  <2>3. CASE w \notin TypeWords(d.type)
    <3>1. w \in DeviceText(e)
      BY <2>1, <2>3, TextHas DEF Given, SameText
    <3> QED
      BY <2>1, <3>1 DEF Hits
  <2> QED
    BY <2>2, <2>3
<1> QED
  BY <1>1, <1>2 DEF Hits

LEMMA NoNewHit ==
    ASSUME NEW d, NEW e, NEW c, NEW o, Apart(c, o), Given(d, e, c), Hits(e, o)
    PROVE  Hits(d, o)
<1>1. CASE e.roles \cap o.has # {} \/ e.ports \cap o.ports # {}
  BY <1>1 DEF Given, SameText, Hits, Apart
<1>2. CASE DeviceText(e) \cap o.words # {}
  <2>1. PICK w \in o.words : w \in DeviceText(e)
    BY <1>2
  <2>2. w \notin TypeWords(e.type) /\ \A r \in c.roles : w \notin RoleWords(r)
    BY <2>1 DEF Apart, Given
  <2>3. w \in DeviceText(d)
    BY <2>1, <2>2, TextHas DEF Given, SameText
  <2> QED
    BY <2>1, <2>3 DEF Hits
<1> QED
  BY <1>1, <1>2 DEF Hits

\* The class that decided the first time decides the second.
LEMMA SameClass ==
    ASSUME NEW d, NEW e, ClassesOf(d) # {}, Given(d, e, Classes[Min(ClassesOf(d))])
    PROVE  ClassesOf(e) # {} /\ Min(ClassesOf(e)) = Min(ClassesOf(d))
<1> DEFINE i == Min(ClassesOf(d))
<1>1. ClassesOf(d) \in SUBSET Nat /\ ClassesOf(e) \in SUBSET Nat /\ ClassesOf(d) \subseteq 1..12
  BY HitsClasses
<1>2. i \in ClassesOf(d) /\ \A j \in ClassesOf(d) : i <= j
  BY <1>1, MinIn
<1>3. Given(d, e, Classes[i])
  OBVIOUS
<1> HIDE DEF i
<1>4. i \in 1..12 /\ Hits(d, Classes[i])
  BY <1>2, HitsClasses
<1>5. i \in ClassesOf(e)
  <2>1. Hits(e, Classes[i])
    BY <1>3, <1>4, HitStays, ClassesSay
  <2> QED
    BY <1>4, <2>1, HitsClasses
<1>6. ASSUME NEW j \in ClassesOf(e) PROVE i <= j
  <2>1. j \in 1..12 /\ Hits(e, Classes[j])
    BY <1>6, HitsClasses
  <2>2. CASE j # i
    <3>1. Hits(d, Classes[j])
      BY <1>3, <1>4, <2>1, <2>2, ClassesApart, NoNewHit
    <3>2. j \in ClassesOf(d)
      BY <2>1, <3>1, HitsClasses
    <3> QED
      BY <1>2, <3>2
  <2>3. CASE j = i
    BY <1>4, <2>3
  <2> QED
    BY <2>2, <2>3
<1>7. Min(ClassesOf(e)) \in ClassesOf(e) /\ \A j \in ClassesOf(e) : Min(ClassesOf(e)) <= j
  BY <1>1, <1>5, MinIn
<1> DEFINE m == Min(ClassesOf(e))
<1> HIDE DEF m
<1>8. m = i
  <2>1. m <= i /\ i <= m /\ m \in Nat /\ i \in Nat
    BY <1>1, <1>4, <1>5, <1>6, <1>7 DEF m
  <2> QED
    BY <2>1
<1> QED
  BY <1>5, <1>8 DEF i, m

\* What Typed makes of the type and the roles.
TypedAs(d, t) ==
    /\ d.type \in Kept => t.type = d.type
    /\ d.type \notin Kept /\ ClassesOf(d) = {} => t = d
    /\ d.type \notin Kept /\ ClassesOf(d) # {} => /\ Min(ClassesOf(d)) \in 1..12
                                                   /\ Given(d, t, Classes[Min(ClassesOf(d))])

LEMMA TypedIs ==
    ASSUME NEW d \in Device
    PROVE  TypedAs(d, Typed(d))
<1> DEFINE c == Classes[Min(ClassesOf(d))]
<1>1. CASE d.type \in Kept
  <2>1. Typed(d).type = d.type
    <3>1. CASE d.type = "local_host"
      BY <3>1 DEF Typed, Reclassified
    <3>2. CASE d.type = "virtual_adapter"
      BY <3>2 DEF Typed, Reclassified
    <3>3. CASE d.type = "isp_hop"
      BY <3>3 DEF Typed, Reclassified
    <3>4. CASE d.type = "inferred_switch"
      BY <3>4 DEF Typed, Reclassified
    <3> QED
      BY <1>1, <3>1, <3>2, <3>3, <3>4 DEF Kept
  <2> QED
    BY <1>1, <2>1 DEF TypedAs
<1>2. CASE d.type \notin Kept /\ ClassesOf(d) = {}
  <2>1. Typed(d) = d
    BY <1>2 DEF Typed, Kept
  <2> QED
    BY <1>2, <2>1 DEF TypedAs
<1>3. CASE d.type \notin Kept /\ ClassesOf(d) # {}
  <2>1. Typed(d) = Reclassified(d, c.type, d.roles \cup c.roles, MaxOf(d.conf, ClassFloor(d, c)), d.inferred)
    BY <1>3 DEF Typed, Kept
  <2>2. ClassesOf(d) \in SUBSET Nat /\ ClassesOf(d) \subseteq 1..12
    BY HitsClasses
  <2>3. Min(ClassesOf(d)) \in 1..12
    BY <1>3, <2>2, MinIn
  <2> DEFINE conf == MaxOf(d.conf, ClassFloor(d, c))
  <2> HIDE DEF c, conf
  <2>4. Given(d, Reclassified(d, c.type, d.roles \cup c.roles, conf, d.inferred), c)
    BY DEF Reclassified, Given, SameText
  <2>5. Given(d, Typed(d), c)
    BY <2>1, <2>4 DEF conf
  <2> QED
    BY <1>3, <2>3, <2>5 DEF TypedAs, c
<1> QED
  BY <1>1, <1>2, <1>3

Relabelled(d) == [d EXCEPT !.type = IF @ = "" THEN "unknown" ELSE @]

LEMMA RelabelledIs ==
    ASSUME NEW d \in Device
    PROVE  /\ Relabelled(d) \in Device /\ Named(Relabelled(d).type)
           /\ Named(d.type) => Relabelled(d).type = d.type
           /\ Relabelled(d).roles = d.roles /\ SameText(d, Relabelled(d))
<1> DEFINE type == IF d.type = "" THEN "unknown" ELSE d.type
<1>1. Relabelled(d) = [d EXCEPT !.type = type]
  BY DEF Relabelled
<1>2. "unknown" \in Labels /\ d.type \in Labels
  BY DEF Device, Labels
<1>3. type \in Labels /\ Named(type) /\ (Named(d.type) => type = d.type)
  BY <1>2, Zenon DEF Named
<1> HIDE DEF type
<1> QED
  BY <1>1, <1>3 DEF Device, SameText

\* ClassifyDevice: the type and the roles are those of Typed.
LEMMA ClassifyIs ==
    ASSUME NEW d \in Device
    PROVE  /\ ClassifyDevice(d).type = Typed(Relabelled(d)).type
           /\ ClassifyDevice(d).roles = Typed(Relabelled(d)).roles
           /\ SameText(d, ClassifyDevice(d))
<1> DEFINE u == Relabelled(d)
           t == Typed(u)
           w == IF t.type = "unknown" /\ HasOnlyWeakEvidence(t.ev) THEN [t EXCEPT !.conf = MaxOf(@, 35)] ELSE t
<1>1. u \in Device
  BY RelabelledIs
<1> HIDE DEF u
<1>2. t \in Device
  BY <1>1, TypedKeeps
<1> HIDE DEF t
<1>3. [t EXCEPT !.conf = MaxOf(@, 35)].type = t.type /\ [t EXCEPT !.conf = MaxOf(@, 35)].roles = t.roles
  BY <1>2 DEF Device
<1>4. MaxOf(t.conf, 35) \in Int
  BY <1>2 DEF Device, MaxOf
<1>5. [t EXCEPT !.conf = MaxOf(@, 35)] \in Device
  BY <1>2, <1>4 DEF Device
<1>6. w \in Device /\ w.type = t.type /\ w.roles = t.roles
  BY <1>2, <1>3, <1>5
<1> HIDE DEF w
<1>7. ClassifyDevice(d) = [w EXCEPT !.conf = TopologyDeviceConfidence(w)]
  BY DEF ClassifyDevice, Relabelled, u, t, w
<1>8. ClassifyDevice(d).type = w.type /\ ClassifyDevice(d).roles = w.roles
  BY <1>6, <1>7 DEF Device
<1>9. SameText(d, ClassifyDevice(d))
  BY ClassifyKeeps DEF SameDevice, SameText
<1> QED
  BY <1>6, <1>8, <1>9 DEF t, u

\* Classifying a classified device again, whatever its confidence has become, gives its type.
LEMMA ClassifyTwice ==
    ASSUME NEW b \in Device, NEW e \in Device, e.type = ClassifyDevice(b).type, e.roles = ClassifyDevice(b).roles,
           SameText(ClassifyDevice(b), e)
    PROVE  ClassifyDevice(e).type = e.type
<1> DEFINE u == Relabelled(b)
           n == Relabelled(e)
<1>1. u \in Device /\ Named(u.type) /\ SameText(b, u)
  BY RelabelledIs
<1>2. e.type = Typed(u).type /\ e.roles = Typed(u).roles /\ SameText(b, ClassifyDevice(b))
  BY ClassifyIs
<1>3. n \in Device /\ (Named(e.type) => n.type = e.type) /\ n.roles = e.roles /\ SameText(e, n)
  BY RelabelledIs
<1>4. ClassifyDevice(e).type = Typed(n).type
  BY ClassifyIs
<1> HIDE DEF u, n
<1>5. SameText(u, n)
  BY <1>1, <1>2, <1>3 DEF SameText
<1>6. TypedAs(u, Typed(u)) /\ TypedAs(n, Typed(n))
  BY <1>1, <1>3, TypedIs
<1> SUFFICES Typed(n).type = e.type
  BY <1>4
<1>7. CASE u.type \in Kept
  <2>1. e.type = u.type
    BY <1>2, <1>6, <1>7 DEF TypedAs
  <2>2. n.type = e.type
    BY <1>1, <1>3, <2>1
  <2> QED
    BY <1>6, <1>7, <2>1, <2>2 DEF TypedAs
<1>8. CASE u.type \notin Kept /\ ClassesOf(u) = {}
  <2>1. e.type = u.type /\ e.roles = u.roles
    BY <1>2, <1>6, <1>8 DEF TypedAs
  <2>2. n.type = u.type /\ n.roles = u.roles
    BY <1>1, <1>3, <2>1
  <2>3. DeviceText(n) = DeviceText(u)
    BY <1>5, <2>2 DEF DeviceText, SameText
  <2>4. ClassesOf(n) = {}
    BY <1>5, <1>8, <2>2, <2>3 DEF ClassesOf, SameText
  <2> QED
    BY <1>6, <1>8, <2>1, <2>2, <2>4 DEF TypedAs
<1>9. CASE u.type \notin Kept /\ ClassesOf(u) # {}
  <2> DEFINE c == Classes[Min(ClassesOf(u))]
  <2>1. Given(u, Typed(u), c) /\ Min(ClassesOf(u)) \in 1..12
    BY <1>6, <1>9 DEF TypedAs
  <2>2. Decided(c.type)
    BY <2>1, ClassesSay DEF Says
  <2> HIDE DEF c
  <2>3. e.type = c.type /\ e.roles = u.roles \cup c.roles
    BY <1>2, <2>1 DEF Given
  <2>4. n.type = c.type /\ n.roles = u.roles \cup c.roles /\ n.type \notin Kept
    BY <1>3, <2>2, <2>3 DEF Decided
  <2>5. Given(u, n, c)
    BY <1>5, <2>4 DEF Given
  <2>6. ClassesOf(n) # {} /\ Min(ClassesOf(n)) = Min(ClassesOf(u))
    BY <1>9, <2>5, SameClass DEF c
  <2>7. Given(n, Typed(n), c)
    BY <1>6, <2>4, <2>6 DEF TypedAs, c
  <2> QED
    BY <2>3, <2>7 DEF Given
<1> QED
  BY <1>7, <1>8, <1>9

\* ClassifyDevice runs in MergeDevices and again in BuildTopology: the type drawn is the type
\* listed, for what a class adds to a device leads to no other class before it.
THEOREM FusionStable == Spec => []ClassificationStable
<1>1. StageInv => ClassificationStable
  <2> SUFFICES ASSUME StageInv, Built, NEW i \in DOMAIN devices
               PROVE  topology.nodes[i].id = devices[i].id /\ topology.nodes[i].type = devices[i].type
    BY DEF ClassificationStable
  <2> DEFINE e == devices[i]
             d == MergeDevices(results)[i]
  <2>1. BuiltFrom(MergeDevices(results), devices, conflicts)
    BY BuiltNow
  <2>2. devices \in Seq(Device) /\ MergeDevices(results) \in Seq(Device) /\ i \in DOMAIN MergeDevices(results)
        /\ Paid(d, e, conflicts) /\ Classified(MergeDevices(results))
    BY <2>1 DEF BuiltFrom
  <2>3. d \in ToSet(MergeDevices(results)) /\ d \in Device /\ e \in Device
    BY <2>2 DEF ToSet
  <2>4. PICK b \in Device : d = ClassifyDevice(b)
    BY <2>2, <2>3 DEF Classified
  <2>5. topology.nodes[i] = NodeFromDevice(e)
    <3>1. topology = BuildTopology(devices, CollectEvidence(results, devices))
      BY DEF StageInv, AsBuilt
    <3> QED
      BY <2>2, <3>1, NodesAre
  <2> HIDE DEF d, e
  <2>6. e.type = d.type /\ e.roles = d.roles /\ SameText(d, e)
    BY <2>2, <2>3 DEF Paid, Device, SameText
  <2>7. ClassifyDevice(e).type = e.type
    BY <2>3, <2>4, <2>6, ClassifyTwice
  <2>8. ClassifyDevice(e).id = e.id
    BY <2>3, ClassifyKeeps DEF SameDevice
  <2>9. topology.nodes[i].id = e.id /\ topology.nodes[i].type = e.type
    BY <2>5, <2>7, <2>8 DEF NodeFromDevice
  <2> QED
    BY <2>9 DEF e
<1> QED
  BY <1>1, FusionStages, PTL
=============================================================================
