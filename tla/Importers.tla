----------------------------- MODULE Importers -------------------------------
(* How a record of another system becomes an event: documents of PT NAD and  *)
(* PT SIEM (one JSON object a line), the CSV exports of a dataset, and the   *)
(* bodies of the integrations.  In each the first field with a value wins,   *)
(* secrets are masked, and a phase of the attack that the source has not     *)
(* named is translated from its category.                                    *)
(*                                                                           *)
(* A document is given by its fields: flat and nested map a path to the      *)
(* values found there (several, where the path leads through a list), sizes  *)
(* maps a path to a number, branches are the paths that lead to a record.  A *)
(* row of a CSV maps its columns to values.  Null is JSON's null and what a  *)
(* row that is too short has in its last columns.                            *)
EXTENDS Integers, Sequences, SequencesExt, TLC

CONSTANTS
  Lower(_), Upper(_),  \* letters of a text
  FirstWord(_),        \* of a text
  Masked(_),           \* mask_command_line: the text with known arguments masked
  Segments(_),         \* the names a path is made of, as a sequence
  Times,               \* function: texts that are moments -> the moment
  Numbers,             \* function: texts that are numbers -> the number
  Mapped,              \* function: categories -> phase (source_phases.yaml)
  Untranslated         \* categories listed there as not translated

ASSUME ImportersAssumption == DOMAIN Mapped \cap Untranslated = {}

Null == "null"
Blanks == {Null, "", " "}
None0 == <<>>
Items(fields, path) == IF path \in DOMAIN fields THEN fields[path] ELSE None0

(* The first of what is left of some values, where that is not blank.        *)
HeadUnless(left, blank) == IF left = <<>> \/ left[1] \in blank THEN Null ELSE left[1]

(* The first of the values that is not passed over; blank counts as none.    *)
Text(values, passed) == HeadUnless(SelectSeq(values, LAMBDA v : v \notin passed), Blanks)

Either(values) == HeadUnless(SelectSeq(values, LAMBDA v : v # Null), {})

First(text(_, _), doc, paths) == Either([i \in DOMAIN paths |-> text(doc, paths[i])])

(* ---- secrets and phases -------------------------------------------------- *)
RedactedFieldNames ==
  {"password", "account_password", "case_insensitive_password", "case_sensitive_password",
   "session_key", "encryption_key", "x_csrf_token", "simple", "community", "auth_params",
   "privacy_params", "security_parameters", "authorization", "proxy_authorization", "cookie",
   "set_cookie"}
CommandLineFieldNames == {"cmdline", "command_line"}
Marker == "[redacted]"

(* Every name on the way counts in the nested form, the last in the flat one.*)
Redact(doc) ==
  LET hide(v) == IF v \in {Null, ""} THEN v ELSE Marker
      masked(secret, names, values) ==
        IF secret THEN [i \in DOMAIN values |-> hide(values[i])]
        ELSE IF Last(names) \in CommandLineFieldNames /\ Len(values) = 1
        THEN <<Masked(values[1])>> ELSE values
  IN [flat |-> [p \in DOMAIN doc.flat |->
                  masked(Last(Segments(p)) \in RedactedFieldNames, Segments(p), doc.flat[p])],
      nested |-> [p \in DOMAIN doc.nested |->
                  masked(\E i \in DOMAIN Segments(p) : Segments(p)[i] \in RedactedFieldNames,
                         Segments(p), doc.nested[p])]]

LoginCommands == {"USER", "LOGIN"}
SecretArgumentCommands == {"PASS", "LOGIN", "AUTH", "AUTHENTICATE"}

(* A password that is the argument of a command has no field of its own.     *)
RedactCommandArguments(fields) ==
  LET names == Items(fields.nested, "rqs.cmd.name")
      hide(i, v) == IF i \in DOMAIN names /\ Upper(names[i]) \in SecretArgumentCommands
                       /\ v \notin {Null, ""} THEN Marker ELSE v
  IN [fields EXCEPT !.nested =
        [p \in DOMAIN @ |-> IF p = "rqs.cmd.args" THEN [i \in DOMAIN @[p] |-> hide(i, @[p][i])]
                            ELSE @[p]]]

Phases == <<"recon", "initial_access", "execution", "c2", "privilege_escalation",
            "lateral_movement", "persistence", "exfiltration", "impact">>
ParsePhase(raw) == IF \E i \in DOMAIN Phases : Phases[i] = Lower(raw) THEN Lower(raw) ELSE Null

CategoryFields == <<"incident.category", "category.high", "category.generic">>

LookUp(fields, path) ==
  LET values == IF path \in DOMAIN fields.flat THEN fields.flat[path] ELSE Items(fields.nested, path)
  IN IF Len(values) = 1 /\ values[1] \notin Blanks THEN values[1] ELSE Null

(* The first category that has a translation; one that has none is passed    *)
(* over, also when it is listed as refused.                                  *)
PhaseForPayload(fields) ==
  LET found == SelectSeq(CategoryFields, LAMBDA f : LookUp(fields, f) \in DOMAIN Mapped)
  IN IF found = <<>> THEN <<>> ELSE <<Mapped[LookUp(fields, found[1])], found[1]>>

(* A phase the source has named is never replaced; a translated one says so. *)
AnnotatePhase(fields) ==
  LET own   == ParsePhase(Either(Items(fields.nested, "attack_phase")))
      found == PhaseForPayload(fields)
  IN [fields |-> fields] @@
     (IF own # Null THEN [phase |-> own, origin |-> ""]
      ELSE IF found = <<>> THEN [phase |-> Null, origin |-> ""]
      ELSE [phase |-> found[1], origin |-> found[2]])

(* ---- artifacts ----------------------------------------------------------- *)
Artifacts(candidates) ==
  LET named == SelectSeq(candidates, LAMBDA c : c[2] # Null)
      shaped == [i \in DOMAIN named |-> <<named[i][1], IF named[i][1] = "hash" THEN Lower(named[i][2])
                                                       ELSE named[i][2]>>]
      new == SelectSeq([i \in DOMAIN named |-> i], LAMBDA i : \A j \in 1..(i - 1) : shaped[j] # shaped[i])
  IN [k \in DOMAIN new |-> shaped[new[k]]]

Typed(kind, doc, text(_, _), paths) == [i \in DOMAIN paths |-> <<kind, text(doc, paths[i])>>]

(* ---- PT NAD -------------------------------------------------------------- *)
(* A path goes through lists: the first element that has the rest of it.     *)
NadText(doc, path) == Text(Items(doc.nested, path), {Null})

NadTime == <<"ts", "ts_start", "_ltime", "tx_time">>
NadIds == <<"_id", "_ndx", "_prn.id", "flow_id", "tx_id", "file_id">>
NadSrc == <<"src.ip", "attacker.ip">>
NadDst == <<"dst.ip", "victim.ip">>

NadEventId(doc) ==
  LET own == First(NadText, doc, NadIds)
  IN IF own # Null THEN <<own>>
     ELSE <<"nad", First(NadText, doc, NadTime), First(NadText, doc, NadSrc), NadText(doc, "src.port"),
            First(NadText, doc, NadDst), NadText(doc, "dst.port")>>

NadPayloadSize(doc) ==
  LET of(p) == IF p \in DOMAIN doc.sizes THEN doc.sizes[p] ELSE 0
      halves == {"bytes.sent", "bytes.recv"} \cap DOMAIN doc.sizes
      size == IF halves # {} THEN of("bytes.sent") + of("bytes.recv")
              ELSE IF "bytes" \in DOMAIN doc.sizes THEN of("bytes") ELSE of("size")
  IN IF size < 0 THEN 0 ELSE size

(* A few of the 38 tables.                                                   *)
TableProtocol == [nad_traffic_flow |-> Null, nad_traffic_dns |-> "dns", nad_traffic_ftp |-> "ftp",
                  nad_traffic_rdp |-> "rdp", nad_traffic_tftp |-> "tftp", nad_traffic_files |-> Null,
                  nad_traffic_dcerpc_br |-> "dcerpc"]
TableOperation == [nad_traffic_rdp |-> "CONNECT", nad_traffic_files |-> "FILE_TRANSFER"]
Named(sheet, t) == IF t \in DOMAIN sheet THEN sheet[t] ELSE Null

NadTable(doc, declared) ==
  Either(<<First(NadText, doc, <<"table_name", "_table", "__table">>), declared>>)

(* The command, else the branch of the request, else the event that the      *)
(* table itself stands for.                                                  *)
NadOperation(doc, sheet) ==
  LET named == First(NadText, doc, <<"s_msg", "alert.description", "verdict", "rqs.cmd.name",
                                     "rqs.method", "rqs.command", "opcode", "type">>)
  IN IF named # Null THEN <<Upper(named)>>
     ELSE IF "rqs.read" \in doc.branches THEN <<"READ">>
     ELSE IF "rqs.write" \in doc.branches THEN <<"WRITE">>
     ELSE <<Either(<<Named(TableOperation, sheet), "NETWORK_FLOW">>)>>

LoginFromCommand(doc) ==
  IF Upper(NadText(doc, "rqs.cmd.name")) \in LoginCommands /\ NadText(doc, "rqs.cmd.args") # Null
  THEN FirstWord(NadText(doc, "rqs.cmd.args")) ELSE Null

MapNad(doc, declared) ==
  LET sheet == NadTable(doc, declared)
      user  == Either(<<First(NadText, doc, <<"user", "credentials.login", "rqs.user_name",
                                              "rqs.cname.principal", "rqs.bind.name", "subject">>),
                        LoginFromCommand(doc)>>)
  IN [id |-> NadEventId(doc), at |-> Times[First(NadText, doc, NadTime)], class |-> "ndr",
      protocol |-> Either(<<First(NadText, doc, <<"app_proto", "proto">>), Named(TableProtocol, sheet),
                            NadText(doc, "protocol"), "network">>),
      operation |-> NadOperation(doc, sheet), size |-> NadPayloadSize(doc), user |-> user,
      host |-> First(NadText, doc, <<"src.host_id", "host.host_id", "attacker.host_id", "src.host",
                                     "host.host", "src.name", "host.name">>),
      process |-> Null, parent |-> Null,
      src |-> First(NadText, doc, NadSrc), dst |-> First(NadText, doc, NadDst),
      payload |-> AnnotatePhase(RedactCommandArguments(Redact(doc))),
      artifacts |-> Artifacts(
        Typed("hash", doc, NadText, <<"sha256", "md5", "ja3_md5", "ja4">>)
        \o <<<<"file", First(NadText, doc, <<"filepath", "filename">>)>>>>
        \o Typed("file", doc, NadText, <<"rqs.create.filename", "path">>)
        \o Typed("url", doc, NadText, <<"rqs.url", "rqs.uri">>)
        \o Typed("domain", doc, NadText, <<"query.rrname", "dns.query", "server_name", "rqs.host">>)
        \o <<<<"address", First(NadText, doc, NadDst)>>, <<"account", user>>>>
        \o Typed("account", doc, NadText, <<"rqs.operation.params.user", "rsp.operation.username">>))]

(* ---- PT SIEM ------------------------------------------------------------- *)
(* The flat form of a path goes before the nested one, even if it is empty.  *)
SiemText(doc, path) ==
  Text(IF path \in DOMAIN doc.flat THEN doc.flat[path] ELSE Items(doc.nested, path), {Null, ""})

SiemTime == <<"time", "original_time", "start_time", "recv_time">>
SiemHost == <<"event_src.host", "event_src.hostname", "event_src.fqdn", "event_src.asset", "src.host">>
SiemUser == <<"subject.account.name", "subject.name", "subject.account.id">>
SiemSrc == <<"src.ip", "external_src.ip", "assigned_src_ip">>
SiemDst == <<"dst.ip", "external_dst.ip", "assigned_dst_ip">>

(* Mutated form: the type of the event in its source is taken for its id.    *)
SiemEventIdOfType(doc) == <<First(SiemText, doc, <<"uuid", "msgid">>)>>

SiemEventId(doc) ==
  LET own == SiemText(doc, "uuid")
  IN IF own # Null THEN <<own>>
     ELSE <<"siem", First(SiemText, doc, SiemTime), First(SiemText, doc, SiemHost),
            SiemText(doc, "msgid"), First(SiemText, doc, SiemSrc), First(SiemText, doc, SiemDst),
            First(SiemText, doc, SiemUser)>>

(* An operation is one word, or two.                                         *)
SiemOperation(doc) ==
  LET action == SiemText(doc, "action")
      target == SiemText(doc, "object")
      other  == First(SiemText, doc, <<"correlation_name", "event_src.rule", "msgid", "event_type">>)
  IN IF action # Null /\ target # Null THEN <<Upper(action), Upper(target)>>
     ELSE <<Upper(Either(<<action, other, "SIEM_EVENT">>))>>

SiemPayloadSize(doc) ==
  LET of(p) == IF p \in DOMAIN doc.sizes THEN doc.sizes[p] ELSE 0
      size == IF "count.bytes" \in DOMAIN doc.sizes THEN of("count.bytes")
              ELSE of("count.bytes_in") + of("count.bytes_out")
  IN IF size < 0 THEN 0 ELSE size

IocArtifactTypes == [domain |-> "domain", hash |-> "hash", host |-> "host", ip_address |-> "address",
                     path |-> "file", url |-> "url", username |-> "account"]

MapPtSiem(doc) ==
  LET user == First(SiemText, doc, SiemUser)
      ioc  == Named(IocArtifactTypes, Lower(SiemText(doc, "alert.ioc_type")))
  IN [id |-> SiemEventId(doc), at |-> Times[First(SiemText, doc, SiemTime)], class |-> "siem",
      protocol |-> Either(<<First(SiemText, doc, <<"protocol.layer7", "protocol">>), "siem">>),
      operation |-> SiemOperation(doc), size |-> SiemPayloadSize(doc), user |-> user,
      host |-> First(SiemText, doc, SiemHost),
      process |-> First(SiemText, doc, <<"subject.process.guid", "subject.process.id">>),
      parent |-> First(SiemText, doc, <<"subject.process.parent.guid", "subject.process.parent.id">>),
      src |-> First(SiemText, doc, SiemSrc), dst |-> First(SiemText, doc, SiemDst),
      payload |-> AnnotatePhase(Redact(doc)),
      artifacts |-> Artifacts(
        Typed("hash", doc, SiemText, <<"object.hash.sha256", "subject.process.hash.sha256">>)
        \o Typed("file", doc, SiemText, <<"object.fullpath", "subject.process.fullpath">>)
        \o Typed("process", doc, SiemText, <<"subject.process.name", "object.process.name">>)
        \o Typed("account", doc, SiemText, <<"subject.account.name", "object.account.name">>)
        \o Typed("domain", doc, SiemText, <<"dst.fqdn", "external_dst.fqdn", "event_src.fqdn">>)
        \o <<<<"address", First(SiemText, doc, SiemDst)>>>>
        \o IF ioc = Null THEN <<>> ELSE <<<<ioc, SiemText(doc, "alert.ioc_value")>>>>)]

(* ---- rows ---------------------------------------------------------------- *)
Cell(row, column) == IF column \in DOMAIN row THEN row[column] ELSE Null
Value(row, column) == Text(<<Cell(row, column)>>, {})
FirstValue(row, columns) == First(Value, row, columns)

(* or: blanks count as a value here.                                         *)
Or(row, columns) ==
  Either([i \in DOMAIN columns |-> IF Cell(row, columns[i]) = "" THEN Null ELSE Cell(row, columns[i])])

EntityAliases ==
  [host |-> <<"host_id", "hostname", "asset_id", "device_host", "src_host", "plc_id", "node">>,
   user |-> <<"user_id", "username", "user", "subject_user", "account", "operator_id">>,
   process |-> <<"process_guid", "process_id", "process">>,
   parent |-> <<"parent_process_guid", "parent_process_id", "parent_process">>,
   src |-> <<"src_address", "src_ip", "flow_src_ip", "source_ip", "client_ip">>,
   dst |-> <<"dst_address", "dst_ip", "flow_dst_ip", "remote_ip", "destination_ip", "server_ip">>]

ArtifactTypes == {"host", "file", "hash", "process", "account", "address", "url", "domain", "spn", "repo"}

ArtifactsFromRow(row) ==
  LET kind == Lower(Either(<<FirstValue(row, <<"indicator_type">>), "address">>))
  IN SelectSeq(<<<<"hash", FirstValue(row, <<"sha256", "hash", "file_hash">>)>>,
                 <<"file", FirstValue(row, <<"image_path", "file_path", "file">>)>>,
                 <<"domain", FirstValue(row, <<"dns_query", "domain", "fqdn">>)>>,
                 <<kind, FirstValue(row, <<"indicator">>)>>>>,
               LAMBDA a : a[2] # Null /\ a[1] \in ArtifactTypes)

RowPayload(row) ==
  AnnotatePhase([flat |-> [c \in DOMAIN row |-> <<row[c]>>], nested |-> [c \in DOMAIN row |-> <<row[c]>>]])

(* A size that is no number becomes the length of the row, here RowLength.   *)
RowLength == 99
RowTime(row) == Or(row, <<"timestamp", "ts", "time">>)

RawRowToNormalized(row, class, id) ==
  LET size == Either(<<Or(row, <<"payload_size", "length">>), "0">>)
  IN [id |-> id, at |-> Times[RowTime(row)], class |-> class,
      protocol |-> Either(<<Or(row, <<"protocol", "proto">>), "unknown">>),
      operation |-> <<Upper(Either(<<Or(row, <<"operation", "event_type", "action", "op">>), "UNKNOWN">>))>>,
      size |-> IF size \in DOMAIN Numbers THEN Numbers[size] ELSE RowLength,
      payload |-> RowPayload(row), artifacts |-> ArtifactsFromRow(row)]
     @@ [entity \in DOMAIN EntityAliases |-> FirstValue(row, EntityAliases[entity])]

(* The columns of the exports of a dataset, by source.                       *)
Columns ==
  [edr |-> [id |-> "event_id", at |-> "timestamp", operation |-> "event_type", size |-> "payload_size",
            user |-> "username", host |-> "hostname", process |-> "process_guid",
            parent |-> "parent_process_guid", src |-> "", dst |-> "remote_ip"],
   siem |-> [id |-> "record_id", at |-> "event_time", operation |-> "rule_name", size |-> "payload_size",
             user |-> "subject_user", host |-> "device_host", process |-> "", parent |-> "",
             src |-> "src_ip", dst |-> "dst_ip"],
   ndr |-> [id |-> "flow_id", at |-> "start_time", operation |-> "verdict", size |-> "bytes",
            user |-> "", host |-> "src_host", process |-> "", parent |-> "",
            src |-> "src_ip", dst |-> "dst_ip"],
   ot |-> [id |-> "event_id", at |-> "timestamp", operation |-> "operation", size |-> "payload_size",
           user |-> "", host |-> "asset_id", process |-> "", parent |-> "",
           src |-> "src_address", dst |-> "dst_address"]]

RowProtocol(source, row) ==
  CASE source = "edr" -> "endpoint" [] source = "siem" -> "siem"
    [] source = "ndr" -> Cell(row, "app_protocol") [] source = "ot" -> Cell(row, "protocol")

IndicatorType(row) == Lower(Either(<<Value(row, "indicator_type"), "address">>))

RowArtifacts(source, row) ==
  SelectSeq(CASE source = "edr" -> <<<<"hash", Value(row, "sha256")>>, <<"file", Value(row, "image_path")>>>>
              [] source = "siem" -> <<<<IndicatorType(row), Value(row, "indicator")>>>>
              [] source = "ndr" -> <<<<"domain", Value(row, "dns_query")>>>>
              [] source = "ot" -> <<<<"process", Value(row, "tag")>>>>,
            LAMBDA a : a[2] # Null)

RowSize(source, row) ==
  LET size == Value(row, Columns[source].size) IN IF size = Null THEN RowLength ELSE Numbers[size]

MapRow(source, row) ==
  LET c == Columns[source]
  IN [id |-> <<row[c.id]>>, at |-> Times[row[c.at]], class |-> source, protocol |-> RowProtocol(source, row),
      operation |-> <<Upper(row[c.operation])>>, size |-> RowSize(source, row),
      payload |-> RowPayload(row), artifacts |-> RowArtifacts(source, row)]
     @@ [entity \in {"user", "host", "process", "parent", "src", "dst"} |-> Value(row, c[entity])]

(* A flow read from a dataset is renamed to what the integration would send, *)
(* and normalised like it; without a flow_id it gets a new id each time.     *)
FlowRow(row) ==
  LET got(column) == IF column \in DOMAIN row THEN row[column] ELSE ""
      other(column, default) == IF got(column) \in {"", Null} THEN default ELSE got(column)
  IN [timestamp |-> got("start_time"), protocol |-> other("app_protocol", "NETFLOW"),
      operation |-> Upper(other("verdict", "NETFLOW_FLOW")), asset_id |-> got("src_host"),
      flow_src_ip |-> got("src_ip"), flow_dst_ip |-> got("dst_ip"), flow_bytes |-> got("bytes"),
      payload_size |-> IF "bytes" \in DOMAIN row THEN row["bytes"] ELSE "0",
      dns_query |-> got("dns_query"), collector |-> "netflow-collector",
      attack_phase |-> got("attack_phase")]

MapNetflow(row, fresh) ==
  RawRowToNormalized(FlowRow(row), "network_events",
                     LET own == Or(row, <<"flow_id">>) IN IF own = Null THEN fresh ELSE <<own>>)

(* ---- bodies of the integrations ------------------------------------------ *)
(* The eight facilities times severities of a priority; no number, no both.  *)
SyslogPriority(pri) == IF pri = Null THEN <<Null, Null>>
                       ELSE <<Numbers[pri] \div 8, Numbers[pri] % 8>>

(* What the body says of itself, what its kind adds where it is said (the    *)
(* priority of a syslog message, where the body does not give the two), and  *)
(* over both its payload, whose keys win.                                    *)
PreparedRow(kind, body) ==
  LET renamed ==
        CASE kind \in {"netflow", "ipfix"} ->
               [src_ip |-> "flow_src_ip", dst_ip |-> "flow_dst_ip", bytes |-> "flow_bytes"]
          [] kind = "snmp_trap" -> [trap_oid |-> "snmp_trap_oid", community |-> "snmp_community"]
          [] kind = "syslog" -> [hostname |-> "syslog_hostname", msgid |-> "syslog_msgid"]
          [] OTHER -> [operator_id |-> "operator_id"]
      said == {c \in DOMAIN renamed : Cell(body.own, c) \notin {Null, ""}}
      base == [timestamp |-> body.at, protocol |-> body.protocol, operation |-> body.operation,
               asset_id |-> body.asset, payload_size |-> body.size]
      stated(field, default) == IF field \in DOMAIN body.own THEN body.own[field] ELSE default
      priority == IF kind # "syslog" THEN <<>>
                  ELSE LET pri == SyslogPriority(body.pri)
                       IN [syslog_facility |-> stated("facility", pri[1]),
                           syslog_severity |-> stated("severity", pri[2])]
  IN body.payload @@ [c \in {renamed[f] : f \in said} |->
                        body.own[CHOOSE f \in said : renamed[f] = c]] @@ priority @@ base

Prepared(kind, body, fresh) ==
  RawRowToNormalized(PreparedRow(kind, body), IF kind = "integration" THEN body.class ELSE "network_events",
                     IF body.id = Null THEN fresh ELSE <<body.id>>)

(* ---- reading a file ------------------------------------------------------ *)
(* What becomes of a line: an event, nothing (a warning in the log), or the  *)
(* end of the whole reading, where the error is not one the reader expects.  *)
(* A line of NDJSON is [form, doc, outer]; form: "doc", "empty", "broken"    *)
(* (no JSON, or no object), "beyond" (a size that is infinite, or bytes that *)
(* are no text); outer: the id that a wrapped document has outside.          *)
Unwrapped(line) ==
  IF line.outer = Null \/ "_id" \in DOMAIN line.doc.nested THEN line.doc
  ELSE [line.doc EXCEPT !.nested = ("_id" :> <<line.outer>>) @@ @]

DocumentReads(line, time) ==
  CASE line.form = "empty" -> "empty"
    [] line.form = "broken" -> "skip"
    [] line.form = "beyond" -> "stop"
    [] OTHER -> IF time \in DOMAIN Times THEN "event" ELSE "skip"

(* A row may lack a column, be too short for one, or have a value that is no *)
(* moment, no number or no type of artifact.                                 *)
RowReads(source, row) ==
  LET c == Columns[source]
      needed == {c.id, c.at, c.operation} \cup
                (CASE source = "ndr" -> {"app_protocol"} [] source = "ot" -> {"protocol"} [] OTHER -> {})
      size == Value(row, c.size)
  IN IF source = "siem" /\ IndicatorType(row) \notin ArtifactTypes THEN "skip"
     ELSE IF ~(needed \subseteq DOMAIN row) THEN "skip"
     ELSE IF row[c.at] = Null THEN "stop"
     ELSE IF row[c.at] \notin DOMAIN Times THEN "skip"
     ELSE IF row[c.operation] = Null THEN "stop"
     ELSE IF size # Null /\ (size \notin DOMAIN Numbers \/ Numbers[size] < 0) THEN "skip"
     ELSE "event"

FlowReads(row) == IF RowTime(FlowRow(row)) \in DOMAIN Times THEN "event" ELSE "skip"

Reads(source, line) ==
  CASE source = "nad" -> DocumentReads(line, First(NadText, Unwrapped(line), NadTime))
    [] source = "pt_siem" -> DocumentReads(line, First(SiemText, line.doc, SiemTime))
    [] source = "netflow" -> FlowReads(line.row)
    [] OTHER -> RowReads(source, line.row)

(* The event of a line that has one; fresh is an id nobody has yet.          *)
EventOfLine(source, sheet, line, fresh) ==
  CASE source = "nad" -> MapNad(Unwrapped(line), sheet)
    [] source = "pt_siem" -> MapPtSiem(line.doc)
    [] source = "netflow" -> MapNetflow(line.row, fresh)
    [] OTHER -> MapRow(source, line.row)
=============================================================================
