---------------------------- MODULE AccessTypes ----------------------------
(***************************************************************************)
(* The vocabulary of the access classification: the type keys that are     *)
(* scored, their categories, and the names a verdict is published under.   *)
(*                                                                         *)
(* A text is abstracted to the set of needles it contains, of those the    *)
(* code ever looks for; a switch over strings.Contains is a table whose    *)
(* first matching row decides.                                             *)
(***************************************************************************)
EXTENDS Slices

Unknown == "Unknown"

\* The value of the first row <<needles, value>> that the text matches.
FirstMatch(table, text, default) ==
    LET hits == {i \in DOMAIN table : table[i][1] \cap text # {}}
    IN  IF hits = {} THEN default ELSE table[Min(hits)][2]

\* appendUnique: an empty or known value leaves the list alone.
AppendUnique(s, v) == IF v = "" \/ Contains(s, v) THEN s ELSE Append(s, v)

AppendAllUnique(s, vs) == FoldLeft(AppendUnique, s, vs)

FirstNonEmpty(a, b) == IF a # "" THEN a ELSE b

\* The needles a type name contains when it is searched as text.
HintText(h) ==
    CASE h \in {"VDSL", "ADSL", "DSL"} -> {"dsl"} \cup (IF h = "VDSL" THEN {"vdsl"} ELSE IF h = "ADSL" THEN {"adsl"} ELSE {})
      [] h = "VDSL2" -> {"dsl", "vdsl", "vdsl2"}
      [] h = "ADSL2+" -> {"dsl", "adsl", "adsl2", "adsl2+"}
      [] h = "GPON" -> {"gpon"} [] h = "EPON" -> {"epon"} [] h = "FTTH" -> {"ftth"}
      [] h = "Fiber" -> {"fiber"} [] h = "Cable" -> {"cable"} [] h = "DOCSIS" -> {"docsis"}
      [] h = "Mobile" -> {"mobile"} [] h = "FWA" -> {"fwa"} [] h = "LTE" -> {"lte"} [] h = "5G" -> {"5g"}
      [] h = "Satellite" -> {"satellite"}
      [] h = "EthernetWAN" -> {"ethernet", "ethernetwan"}
      [] OTHER -> {h}

HintsText(hs) == UNION {HintText(h) : h \in ToSet(hs)}

MaxOf(a, b) == IF b > a THEN b ELSE a

-----------------------------------------------------------------------------
CategoryTypes ==
    [DSL        |-> {"DSL", "ADSL", "ADSL2+", "VDSL", "VDSL2", "G.fast", "SDSL", "SHDSL"},
     Fiber      |-> {"Fiber", "FTTH", "FTTB", "FTTC", "FTTN", "FTTP", "GPON", "EPON", "XG-PON",
                     "XGS-PON", "10G-EPON", "Active Ethernet"},
     Cable      |-> {"Cable", "DOCSIS", "EuroDOCSIS", "HFC"},
     WISP       |-> {"Fixed Wireless", "WISP", "Microwave", "Point-to-Point Wireless",
                     "Point-to-Multipoint Wireless"},
     Mobile     |-> {"Mobile", "Cellular", "LTE", "5G", "WWAN", "FWA", "5G FWA"},
     Satellite  |-> {"Satellite", "LEO Satellite", "GEO Satellite", "MEO Satellite", "VSAT"},
     LeasedLine |-> {"EthernetWAN", "Enterprise", "Ethernet", "Metro Ethernet", "DIA", "MPLS",
                     "Leased Line", "Public Wi-Fi", "VPN / Overlay Network"}]

\* "Mobile/FWA" is the name of the category whose field above is Mobile.
CategoryName(c) == IF c = "Mobile" THEN "Mobile/FWA" ELSE c

CategoryFor(t) ==
    LET cs == {c \in DOMAIN CategoryTypes : t \in CategoryTypes[c]}
    IN  IF cs = {} THEN Unknown ELSE CategoryName(CHOOSE c \in cs : TRUE)

\* A key outside the table competes as a category of its own.
ScoredCategory(t) == IF CategoryFor(t) = Unknown THEN t ELSE CategoryFor(t)

InferTable ==
    << <<{"xgs-pon", "xg-pon", "gpon", "epon", "ont", "optical"}, "Fiber">>,
       <<{"vdsl"}, "VDSL">>,
       <<{"adsl"}, "ADSL">>,
       <<{"dsl", "ptm", "atm"}, "DSL">>,
       <<{"docsis", "cable"}, "Cable">>,
       <<{"lte", "nr", "wwan", "cellular", "5g"}, "FWA">>,
       <<{"satellite", "starlink", "vsat"}, "Satellite">>,
       <<{"wisp", "radio", "wireless cpe"}, "WISP">>,
       <<{"ethernet"}, "EthernetWAN">> >>

InferTargetType(text) == FirstMatch(InferTable, text, Unknown)

PublicTypeForTarget(t) ==
    LET c == CategoryFor(t)
    IN  CASE c = "DSL" -> IF t \in {"VDSL", "VDSL2"} THEN "VDSL"
                          ELSE IF t \in {"ADSL", "ADSL2+"} THEN "ADSL" ELSE "DSL"
          [] c = "Mobile/FWA" -> "FWA"
          [] c = "LeasedLine" -> "EthernetWAN"
          [] c = Unknown -> IF t = "" THEN Unknown ELSE t
          [] OTHER -> c

FirstHintTarget(hints) ==
    LET named == Those(hints, ToSet(hints) \ {""})
    IN  IF named = <<>> THEN Unknown ELSE PublicTypeForTarget(Head(named))

\* Subtypes of one medium do not conflict with each other.
ConflictFamily(t) ==
    CASE t \in {"VDSL", "ADSL", "DSL", "VDSL2", "ADSL2+"} -> "DSL"
      [] t \in {"Fiber", "FTTH", "GPON", "EPON", "XG-PON", "XGS-PON"} -> "Fiber"
      [] t \in {"Cable", "DOCSIS"} -> "Cable"
      [] t \in {"FWA", "Mobile", "LTE", "5G"} -> "FWA"
      [] OTHER -> t

\* The published pair <<type, subtype>> of a verdict; "" is no subtype.
PublicClassification(primary, lineSubtype) ==
    LET sub(d) == IF lineSubtype # "" THEN lineSubtype ELSE d
    IN  CASE primary \in {"", Unknown} -> <<Unknown, "">>
          [] primary = "VDSL2"  -> <<"VDSL", sub(primary)>>
          [] primary = "ADSL2+" -> <<"ADSL", sub(primary)>>
          [] primary \in {"GPON", "EPON", "XG-PON", "XGS-PON", "10G-EPON"} -> <<"Fiber", sub(primary)>>
          [] primary \in {"FTTH", "Fiber"} -> <<"Fiber", lineSubtype>>
          [] primary = "DOCSIS" -> <<"Cable", sub(primary)>>
          [] primary \in {"LTE", "5G", "5G FWA", "Mobile", "Cellular"} -> <<"FWA", sub(primary)>>
          [] primary = "Fixed Wireless" -> <<"WISP", lineSubtype>>
          [] primary \in CategoryTypes.Satellite \ {"Satellite"} -> <<"Satellite", sub(primary)>>
          [] primary = "EthernetWAN" -> <<primary, "">>
          [] OTHER -> <<primary, lineSubtype>>

\* Category and technology shown with a published type.
ClassificationDetails(primary, subtype) ==
    [category   |-> IF primary \in {"", Unknown} THEN Unknown ELSE ScoredCategory(primary),
     technology |->
        IF primary \in {"", Unknown} THEN ""
        ELSE IF subtype # "" THEN subtype
        ELSE IF primary = "Cable" THEN "DOCSIS"
        ELSE IF primary = "VDSL" THEN "VDSL2"
        ELSE IF primary = "Fiber" THEN "GPON"
        ELSE IF primary = "FWA" THEN "LTE/5G NR"
        ELSE IF primary = "WISP" THEN "Fixed Wireless"
        ELSE IF primary = "EthernetWAN" THEN "Ethernet"
        ELSE primary]
=============================================================================
