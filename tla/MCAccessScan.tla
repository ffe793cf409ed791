--------------------------- MODULE MCAccessScan ---------------------------
(***************************************************************************)
(* A small network for AccessScan: host h, gateway a, an upstream CPE b    *)
(* behind it, and the probes whose results interact in the engine. The     *)
(* rules and fingerprints are entries of the shipped rule files.           *)
(***************************************************************************)
EXTENDS AccessScan

MCKeys == <<"ADSL", "ADSL2+", "Cable", "DOCSIS", "DSL", "EthernetWAN", "FTTH", "FWA", "Fiber", "GPON",
            "LTE", "Mobile", "Satellite", "VDSL", "VDSL2", "WISP">>

MCPrivate == {"h", "a", "b"}

MCSlots == <<"adapter_probe", "gateway_probe", "gateway_chain_probe", "latency_probe", "upnp_igd_probe", "tr064_probe",
             "http_fingerprint_v2", "stun_pcp_nat_probe", "os_interface_probe_v2",
             "gateway_reachability_diagnostics_probe", "traceroute_probe", "asn_probe">>

MCFingerprints ==
    << [match |-> {"vr400"}, hints |-> <<"DSL", "VDSL">>, supports |-> <<"ADSL2+", "VDSL2">>],
       [match |-> {"hg8245"}, hints |-> <<"Fiber", "FTTH", "GPON">>, supports |-> <<"GPON">>] >>

Rule(class, model, text, hint, add) ==
    [class |-> class, model |-> model, text |-> text, iface |-> {}, hint |-> hint, add |-> add]

MCRules ==
    << Rule("device", {"vr400", "dsl"}, {}, {}, [DSL |-> 40, VDSL |-> 35, ADSL |-> 20]),
       Rule("device", {"hg8245", "gpon", "ont"}, {}, {}, [Fiber |-> 50, FTTH |-> 45, GPON |-> 45]),
       Rule("device", {}, {}, {"mobile", "fwa"}, [Mobile |-> 20, FWA |-> 20]),
       Rule("device", {}, {"wandslinterfaceconfig", "vdsl2", "ptm"}, {}, [DSL |-> 45, VDSL |-> 40, ADSL |-> 20]),
       Rule("device", {}, {"gpon", "ont", "ftth"}, {}, [Fiber |-> 45, FTTH |-> 40, GPON |-> 40]),
       Rule("regional", {}, {"vdsl"}, {}, [VDSL |-> 12, DSL |-> 6]) >>

Res(hints, conf, ev) == [hints |-> hints, conf |-> conf, ev |-> ev]

Device(ip, role, reachable) ==
    [ip |-> ip, role |-> role, reachable |-> reachable, rstate |-> "", found |-> {}, tr064 |-> "",
     observed |-> reachable, wantype |-> {}, link |-> {}, access |-> {}, model |-> {}, services |-> {}, hints |-> <<>>, physhints |-> <<>>, devconf |-> 20, accconf |-> 0]

MCOutcome(n) ==
    CASE n = "adapter_probe" ->
            {Res(<<>>, 100, [adapters |-> << [name |-> {"vmware"}, up |-> TRUE, virtual |-> TRUE, ip |-> "b", apipa |-> FALSE, access |-> ""],
                                             [name |-> {"eth"}, up |-> TRUE, virtual |-> FALSE, ip |-> "h", apipa |-> FALSE, access |-> "Ethernet"] >>])}
      [] n = "gateway_probe" -> {Res(<<>>, 90, [gateway |-> "a"])}
      [] n = "gateway_chain_probe" ->
            {Res(<<>>, 50, [gateway_chain |-> <<"a">>, double_nat_possible |-> FALSE,
                            gateway_devices |-> << [Device("a", "default_gateway", TRUE) EXCEPT !.model = {"vr400"},
                                                      !.hints = <<"DSL">>, !.access = {"medium"},
                                                      !.devconf = 60, !.accconf = 30] >>]),
             Res(<<>>, 60, [gateway_chain |-> <<"a", "b">>, double_nat_possible |-> TRUE, likely_modem_ip |-> "b",
                            gateway_devices |-> << Device("a", "default_gateway", TRUE),
                                                   [Device("b", "upstream_private_gateway", FALSE) EXCEPT !.found = {"auth"}] >>])}
      [] n = "latency_probe" -> {Res(<<>>, 50, [avg_ms |-> ms]) : ms \in {8, 80, 500}}
      [] n = "upnp_igd_probe" ->
            {Res(<<"DSL">>, 85, [wan_access_type |-> {"dsl"}, access_confidence |-> 85, igd_wan_common_found |-> TRUE]),
             Res(<<"EthernetWAN">>, 70, [wan_signals |-> <<[text |-> {"ethernet"}, named |-> TRUE, strong |-> TRUE, conf |-> 75]>>,
                                         access_confidence |-> 55]),
             Res(<<>>, 60, [model |-> {"hg8245"}, device_confidence |-> 60]),
             Res(<<>>, 80, [cpe_kv |-> [snrdown |-> [tenths |-> 95, dec |-> TRUE]], cpe_text |-> {"vdsl2", "vdsl", "dsl"}])}
      [] n = "tr064_probe" ->
            {Res(<<"GPON">>, 85, [wan_access_type |-> {"gpon"}, access_confidence |-> 85, tr064_found |-> TRUE])}
      [] n = "http_fingerprint_v2" ->
            {Res(<<>>, 50, [gateway_devices |-> << [Device("b", "possible_cpe", TRUE) EXCEPT !.found = {"tr064"},
                               !.services = {"ont"}, !.hints = <<"GPON">>, !.access = {"medium"},
                               !.devconf = 70, !.accconf = 90] >>]),
             \* No page could be fetched, but the TLS handshake shows a certificate.
             Res(<<>>, 25, [gateway_devices |-> << [Device("b", "upstream_private_gateway", FALSE) EXCEPT !.observed = TRUE] >>])}
      [] n = "stun_pcp_nat_probe" ->
            {Res(<<"Mobile">>, 50, [nat_topology |-> [NoNAT EXCEPT !.publicip = "p", !.cgnat = TRUE, !.topology = "x"],
                                    network_confidence |-> 50])}
      [] n = "os_interface_probe_v2" ->
            {Res(<<"LTE">>, 70, [local_medium |-> "Cellular", local_cellular_evidence |-> TRUE, access_confidence |-> 45,
                                 device_confidence |-> 25])}
      [] n = "gateway_reachability_diagnostics_probe" ->
            {Res(<<>>, 50, [gateway_ip |-> "a", management_reachable |-> FALSE, route_present |-> TRUE, network_confidence |-> 30])}
      [] n = "traceroute_probe" ->
            {Res(<<>>, 60, [hops |-> <<"a", "*", "p">>]), Res(<<>>, 70, [hops |-> <<"h", "a", "b", "p">>])}
      [] OTHER -> {Res(<<>>, 50, [ptr |-> {"vdsl", "dsl"}])}
=============================================================================
