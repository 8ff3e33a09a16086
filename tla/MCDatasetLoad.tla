---------------------------- MODULE MCDatasetLoad ----------------------------
(* Small exports, one of each kind, for TLC. *)
EXTENDS DatasetLoad

LowerOf(t) == CASE t = "AB" -> "ab" [] t = "C2" -> "c2" [] t = "HASH" -> "hash" [] OTHER -> t
UpperOf(t) == CASE t = "user" -> "USER" [] t = "login" -> "LOGIN" [] t = "pass" -> "PASS"
                [] t = "access" -> "ACCESS" [] OTHER -> t
FirstWordOf(t) == IF t = "kim_secret" THEN "kim" ELSE t
MaskedText(t) == IF t = "psexec_secret" THEN "psexec_[redacted]" ELSE t
SegmentsOf(p) ==
  CASE p = "credentials.password" -> <<"credentials", "password">>
    [] p = "rqs.cmd.args" -> <<"rqs", "cmd", "args">>
    [] p = "subject.process.cmdline" -> <<"subject", "process", "cmdline">>
    [] OTHER -> <<p>>
TimesData == [t1 |-> 10, t2 |-> 20, t3 |-> 30]
NumbersData == "0" :> 0 @@ "7" :> 7 @@ "-1" :> -1 @@ "165" :> 165
MappedData == [BruteForce |-> "initial_access", DataLeakage |-> "exfiltration"]
RefusedData == {"HackTools"}

Doc == [flat |-> <<>>, nested |-> <<>>, sizes |-> <<>>, branches |-> {}]
Json(doc) == [form |-> "doc", doc |-> doc, outer |-> Null]
Other(form) == [Json(Doc) EXCEPT !.form = form]
Csv(row) == [row |-> row]

(* Commands with the password in their argument, one of them wrapped; a flow *)
(* whose login is found in the second of its records; a transfer that names  *)
(* its command by a branch; broken and empty lines.                          *)
NadExport ==
  [source |-> "nad", table |-> "nad_traffic_ftp", lines |->
    <<[Json([Doc EXCEPT !.nested = "ts" :> <<"t2">> @@ "rqs.cmd.name" :> <<"pass">> @@
                "rqs.cmd.args" :> <<"secret">> @@ "src.ip" :> <<"in">>]) EXCEPT !.outer = "d1"],
      Other("broken"),
      Json([Doc EXCEPT !.nested = "ts" :> <<"t1">> @@ "flow_id" :> <<"f1">>
                @@ "table_name" :> <<"nad_traffic_flow">> @@ "credentials.login" :> <<Null, "kim">> @@ "credentials.password" :> <<Null, "secret">>
                @@ "app_proto" :> <<"smtp">> @@ "attack_phase" :> <<"C2">> @@ "incident.category" :> <<"DataLeakage">>,
                !.sizes = "bytes.sent" :> 7 @@ "bytes.recv" :> 2]),
      Json([Doc EXCEPT !.nested = "ts" :> <<" ">> @@ "tx_time" :> <<"t3">> @@ "rqs.cmd.name" :> <<"login">>
                @@ "rqs.cmd.args" :> <<"kim_secret">> @@ "md5" :> <<"AB">> @@ "sha256" :> <<"ab">>,
                !.branches = {"rqs.read"}])>>]

(* One event in the flat and one in the nested form, told apart by the host  *)
(* only; one of a refused category; and one that ends the reading.           *)
SiemFlat == "time" :> <<"t1">> @@ "msgid" :> <<"4625">> @@ "action" :> <<"access">> @@ "object" :> <<"account">>
SiemExport(more) ==
  [source |-> "pt_siem", table |-> Null, lines |->
    <<Json([Doc EXCEPT !.flat = SiemFlat @@ "event_src.host" :> <<"h1">> @@ "incident.category" :> <<"BruteForce">>
                @@ "subject.process.cmdline" :> <<"psexec_secret">>]),
      Json([Doc EXCEPT !.nested = SiemFlat @@ "event_src.host" :> <<"h2">> @@ "incident.category" :> <<"HackTools">>
                @@ "alert.ioc_type" :> <<"hash">> @@ "alert.ioc_value" :> <<"AB">>, !.sizes = "count.bytes" :> -1])>>
    \o more]

Flow == "start_time" :> "t1" @@ "src_host" :> "ws" @@ "src_ip" :> "in" @@ "dst_ip" :> "out" @@ "bytes" :> "7"
FlowExport == [source |-> "netflow", table |-> Null, lines |->
                <<Csv(Flow @@ "flow_id" :> "f1" @@ "attack_phase" :> "recon"), Csv(Flow), Csv("src_host" :> "ws")>>]

(* Two rows of one id, the later of which counts; one with a size below      *)
(* zero, one without a column.                                               *)
EdrRow == "event_id" :> "e1" @@ "timestamp" :> "t2" @@ "event_type" :> "logon" @@ "hostname" :> "ws" @@ "username" :> "kim"
EdrExport == [source |-> "edr", table |-> Null, lines |->
                <<Csv(EdrRow), Csv(("payload_size" :> "-1") @@ EdrRow), Csv(("timestamp" :> "t3") @@ EdrRow),
                  Csv("event_id" :> "e2" @@ "timestamp" :> "t2")>>]
OtExport == [source |-> "ot", table |-> Null, lines |->
               <<Csv("event_id" :> "o1" @@ "timestamp" :> "t1" @@ "operation" :> "WRITE" @@ "protocol" :> "MODBUS"
                     @@ "asset_id" :> "plc" @@ "tag" :> "T1")>>]
IocExport == [source |-> "siem", table |-> Null, lines |->
                <<Csv("record_id" :> "r1" @@ "event_time" :> "t1" @@ "rule_name" :> "RULE" @@ "indicator" :> "AB"
                      @@ "indicator_type" :> "hash"),
                  Csv("record_id" :> "r2" @@ "event_time" :> "t1" @@ "rule_name" :> "RULE" @@ "indicator_type" :> "odd")>>]
ExportsData == <<NadExport, SiemExport(<<>>), SiemExport(<<Other("empty"), Other("beyond")>>), FlowExport, EdrExport,
                 OtExport, IocExport>>

(* A row of the export that was cut off while it was written.                *)
CutExports == <<[EdrExport EXCEPT !.lines = <<Csv(EdrRow), Csv([EdrRow EXCEPT !["event_type"] = Null])>>]>>

Body(payload) == [at |-> "t2", protocol |-> "NETFLOW", operation |-> "FLOW", asset |-> "ws", size |-> "7",
                  own |-> [src_ip |-> "in", dst_ip |-> "out"], payload |-> payload, id |-> Null,
                  class |-> "network_events", pri |-> "165"]
PostsData == {[kind |-> "syslog", body |-> [Body(<<>>) EXCEPT !.own = [hostname |-> "ws", severity |-> 3]]],
              [kind |-> "netflow", body |-> Body("operation" :> "logon")],
              [kind |-> "integration", body |-> [Body("user" :> "ann") EXCEPT !.id = "b1", !.own = [operator_id |-> ""]]]}
LinkedData == <<[type |-> "host", value |-> "ws", colon |-> FALSE], [type |-> "host", value |-> "plc_1", colon |-> TRUE],
                [type |-> "user", value |-> "kim", colon |-> FALSE]>>
AlarmingData == {<<"logon">>, <<"PASS">>, <<"ACCESS", "account">>, <<"NETFLOW_FLOW">>}
TrustData == [ndr |-> 90, edr |-> 80]
=============================================================================
