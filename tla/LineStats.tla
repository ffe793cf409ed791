----------------------------- MODULE LineStats -----------------------------
(***************************************************************************)
(* What a modem's own telemetry says about the line: package linestats.    *)
(* hay is the set of needles the text and the key/values contain; kv maps  *)
(* the fields the parsers look up to the number written there, as          *)
(* [tenths, dec]: the number in tenths, and whether it has a decimal point. *)
(***************************************************************************)
EXTENDS AccessTypes

NoProfile == [medium |-> "", mode |-> "", subtype |-> "", conf |-> 0]

DSLFields == {"snrdown", "snrup", "attdown", "attup"}
DSLRates == {"syncdown", "syncup", "maxdown", "maxup"}

DetectMedium(hay, kv) ==
    FirstMatch(<< <<{"xgs-pon", "xg-pon", "gpon", "epon", "ont"}, "pon">>,
                  <<{"docsis", "cable modem", "ofdma", "cmts", "mer"}, "docsis">>,
                  <<{"vdsl", "adsl", "g.fast", "g.993", "g.992", "shdsl", "ptm", "atm",
                     "snr margin", "line attenuation", "dsl"}, "dsl">> >>,
               hay,
               IF DOMAIN kv \cap {"snrdown", "snrup", "modulation"} # {} THEN "dsl" ELSE "")

DetectDSLStandard(hay) ==
    FirstMatch(<< <<{"g.9701", "g.fast"}, "G.9701">>,
                  <<{"g.993.5"}, "G.993.5">>,
                  <<{"g.993.2", "vdsl2"}, "G.993.2">>,
                  <<{"g.992.5", "adsl2+"}, "G.992.5">>,
                  <<{"g.992.3"}, "G.992.3">>,
                  <<{"g.992.1"}, "G.992.1">>,
                  <<{"g.991.2", "shdsl"}, "G.991.2">> >>, hay, "")

Profiles == {"8a", "8b", "8c", "8d", "12a", "12b", "17a", "30a", "35b"}

\* A profile is trusted after the word "profile", or bare in a VDSL context.
HasProfile(hay) ==
    /\ hay \cap Profiles # {}
    /\ "profile" \in hay \/ hay \cap {"vdsl", "g.993"} # {}

DetectDSLMode(hay) ==
    LET standard == DetectDSLStandard(hay)
    IN  IF standard = "G.9701" THEN "G.fast"
        ELSE IF standard \in {"G.993.5", "G.993.2"} THEN "VDSL2"
        ELSE IF standard = "G.992.5" THEN "ADSL2+"
        ELSE IF standard = "G.992.3" THEN "ADSL2"
        ELSE IF standard = "G.992.1" THEN "ADSL"
        ELSE IF standard = "G.991.2" THEN "SHDSL"
        ELSE IF HasProfile(hay) THEN "VDSL2"
        ELSE FirstMatch(<< <<{"adsl2"}, "ADSL2">>, <<{"sdsl"}, "SDSL">>,
                                    <<{"vdsl"}, "VDSL">>, <<{"adsl"}, "ADSL">> >>, hay, "")

\* Integers are tenths of a dB on the wire, decimals are dB; result in tenths of a dB.
LookupTenthsDB(kv, f) ==
    IF f \notin DOMAIN kv THEN 0
    ELSE IF kv[f].dec THEN kv[f].tenths ELSE kv[f].tenths \div 10

LookupNumber(kv, f) == IF f \in DOMAIN kv THEN kv[f].tenths ELSE 0

HasDSLStats(kv) ==
    \/ \E f \in DSLFields : LookupTenthsDB(kv, f) # 0
    \/ \E f \in DSLRates : LookupNumber(kv, f) \div 10 # 0

DSLConfidence(hay, kv) ==
    IF DetectDSLMode(hay) # "" /\ HasDSLStats(kv) THEN 92
    ELSE IF DetectDSLMode(hay) # "" /\ HasProfile(hay) THEN 88
    ELSE IF DetectDSLMode(hay) # "" THEN 75
    ELSE IF HasDSLStats(kv) THEN 60
    ELSE 0

ParseDSL(hay, kv) ==
    IF DetectDSLMode(hay) = "" /\ ~HasDSLStats(kv) THEN NoProfile
    ELSE [medium |-> "dsl", mode |-> DetectDSLMode(hay), subtype |-> DetectDSLMode(hay),
          conf |-> DSLConfidence(hay, kv)]

DOCSISVersion(hay) ==
    FirstMatch(<< <<{"docsis 4", "full duplex"}, "4.0">>, <<{"docsis 3.1"}, "3.1">>,
                  <<{"docsis 3.0"}, "3.0">>, <<{"docsis 2.0"}, "2.0">>,
                  <<{"ofdm", "ofdma"}, "3.1">> >>, hay, "")

ParseDOCSIS(hay, kv) ==
    [medium |-> "docsis", mode |-> DOCSISVersion(hay), subtype |-> "DOCSIS",
     conf |-> IF DOCSISVersion(hay) = "" THEN 60
              ELSE IF LookupNumber(kv, "channels") \div 10 > 0 \/ LookupNumber(kv, "snr") # 0
                   \/ LookupNumber(kv, "power") # 0 THEN 90
              ELSE 80]

PONType(hay) ==
    FirstMatch(<< <<{"xgs-pon"}, "XGS-PON">>, <<{"xg-pon"}, "XG-PON">>, <<{"10g-epon"}, "10G-EPON">>,
                  <<{"gpon"}, "GPON">>, <<{"epon"}, "EPON">> >>, hay, "")

ParsePON(hay, kv) ==
    LET light == LookupNumber(kv, "rxpower") # 0 \/ LookupNumber(kv, "txpower") # 0
    IN  IF PONType(hay) = "" /\ ~light /\ "ontmodel" \notin DOMAIN kv THEN NoProfile
        ELSE [medium |-> "pon", mode |-> PONType(hay),
              subtype |-> IF PONType(hay) = "" THEN "PON" ELSE PONType(hay),
              conf |-> IF PONType(hay) # "" /\ light THEN 92
                       ELSE IF PONType(hay) # "" THEN 85
                       ELSE IF light THEN 70
                       ELSE 50]

Parse(hay, kv) ==
    CASE DetectMedium(hay, kv) = "dsl" -> ParseDSL(hay, kv)
      [] DetectMedium(hay, kv) = "docsis" -> ParseDOCSIS(hay, kv)
      [] DetectMedium(hay, kv) = "pon" -> ParsePON(hay, kv)
      [] OTHER -> NoProfile

\* The scored keys a profile implies, most specific first.
AccessHints(lp) ==
    CASE lp.medium = "dsl" ->
            (CASE lp.mode = "VDSL2" -> <<"VDSL2", "VDSL", "DSL">>
               [] lp.mode = "ADSL2+" -> <<"ADSL2+", "ADSL", "DSL">>
               [] lp.mode = "ADSL2" -> <<"ADSL", "DSL">>
               [] lp.mode = "" -> <<"DSL">>
               [] OTHER -> <<lp.mode, "DSL">>)
      [] lp.medium = "docsis" -> <<"DOCSIS", "Cable">>
      [] lp.medium = "pon" -> IF lp.mode = "" THEN <<"FTTH", "Fiber">> ELSE <<lp.mode, "FTTH", "Fiber">>
      [] OTHER -> <<>>
=============================================================================
