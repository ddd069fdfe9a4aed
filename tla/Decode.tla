-------------------------------- MODULE Decode --------------------------------
(***************************************************************************)
(* The OTLP decoders (internal/otlp): an export request arrives as a       *)
(* protobuf message or as a JSON document and becomes a list of spans, a   *)
(* list of log records or a summary of metrics, or is refused.             *)
(*                                                                         *)
(* A protobuf message is the sequence of its fields as they stand on the   *)
(* wire, in any order: number, wire type, whether the tag and the value    *)
(* can be read, and the value, which for a sub-message is again such a     *)
(* sequence.  Ids are "", "00" (all zero), "aa", "bb", "AA" (upper case),  *)
(* and "zz" for one that is no hex of its length.                          *)
(***************************************************************************)
EXTENDS Telemetry

CONSTANTS
  Half,      \* 2^31: enums are int32
  Lost,      \* bits of a uint64 for which a float64 has no room (11)
  NaNTime    \* the uint64 the build converts NaN, or 2^64, to; Go leaves it open

ASSUME NumbersAssumption ==
  /\ Half \in Nat \ {0} /\ NaNTime \in 0..MaxTime
  /\ Lost \in Nat \ {0} /\ (MaxTime + 1) % 2^Lost = 0

Then(result, Use(_)) == IF result.ok THEN Use(result.v) ELSE Failed

AllOk(results) ==
  IF \A i \in DOMAIN results : results[i].ok
  THEN Ok([i \in DOMAIN results |-> results[i].v]) ELSE Failed

\* every element in turn; the lists they decode to are joined
DecodeAll(blocks, Decoder(_)) ==
  Then(AllOk([i \in DOMAIN blocks |-> Decoder(blocks[i])]),
       LAMBDA parts : Ok(FlattenSeq(parts)))

IsInt32(v) == v \in -Half..(Half - 1)
\* mutant: the varint is kept as it is
Int32_Untruncated(v) == v
Int32(v) == ((v + Half) % (2 * Half)) - Half

-----------------------------------------------------------------------------
(* protowire: tags and values.                                             *)

\* mutant: a value cut short is taken for what there is of it
Skippable_Cut(f) == f.num > 0 /\ f.wt \in {"varint", "fixed64", "bytes", "fixed32"}

\* Tag refuses field number 0 and groups; readable: neither it nor the value is cut
Skippable(f) ==
  /\ f.readable
  /\ f.num > 0
  /\ f.wt \in {"varint", "fixed64", "bytes", "fixed32"}

\* the loop of every decoder: an unknown field, or a known one of another wire
\* type, is skipped; Known says what the others do to the message so far
Scan(m, zero, Known(_, _, _)) ==
  FoldLeft(LAMBDA acc, f :
             IF acc.ok /\ Skippable(f) THEN Known(acc.v, <<f.num, f.wt>>, f.val) ELSE Failed,
           Ok(zero), m)

-----------------------------------------------------------------------------
(* Attributes, resource and scope.                                         *)

ValueKinds ==
  (<<1, "bytes">> :> "string") @@ (<<2, "varint">> :> "bool") @@ (<<3, "varint">> :> "int")
  @@ (<<4, "fixed64">> :> "double") @@ (<<5, "bytes">> :> "array")
  @@ (<<6, "bytes">> :> "kvlist") @@ (<<7, "bytes">> :> "bytes")

Value(kind, x) == Ok([kind |-> kind, val |-> x])

RECURSIVE decodeKeyValue(_), decodeAnyValue(_)

decodeValueList(m) ==
  Scan(m, << >>, LAMBDA out, tag, x :
    IF tag = <<1, "bytes">>
    THEN Then(decodeAnyValue(x), LAMBDA v : Ok(Append(out, v))) ELSE Ok(out))

decodeKVList(m) ==
  Scan(m, << >>, LAMBDA out, tag, x :
    IF tag = <<1, "bytes">>
    THEN Then(decodeKeyValue(x), LAMBDA kv : Ok(Append(out, kv))) ELSE Ok(out))

decodeAnyValue(m) ==
  Scan(m, Empty, LAMBDA v, tag, x :
    IF tag \notin DOMAIN ValueKinds THEN Ok(v)
    ELSE LET kind == ValueKinds[tag]
         IN  CASE kind = "bool" -> Value(kind, IF x # 0 THEN 1 ELSE 0)
               [] kind = "int" -> Value(kind, Int64(x))
               [] kind = "array" -> Then(decodeValueList(x), LAMBDA l : Value(kind, l))
               [] kind = "kvlist" -> Then(decodeKVList(x), LAMBDA l : Value(kind, l))
               [] OTHER -> Value(kind, x))

decodeKeyValue(m) ==
  Scan(m, [key |-> "", value |-> Empty], LAMBDA kv, tag, x :
    CASE tag = <<1, "bytes">> -> Ok([kv EXCEPT !.key = x])
      [] tag = <<2, "bytes">> -> Then(decodeAnyValue(x), LAMBDA v : Ok([kv EXCEPT !.value = v]))
      [] OTHER -> Ok(kv))

\* attributes are appended in wire order
AddAttr(s, name, x) ==
  Then(decodeKeyValue(x), LAMBDA kv : Ok([s EXCEPT ![name] = Append(@, kv)]))

decodeResource(m) ==
  Scan(m, [attrs |-> << >>], LAMBDA res, tag, x :
    IF tag = <<1, "bytes">> THEN AddAttr(res, "attrs", x) ELSE Ok(res))

Label(name, version) == IF name # "" THEN <<name, version>> ELSE <<"", "">>

decodeScope(m) ==
  Then(Scan(m, <<"", "">>, LAMBDA s, tag, x :
         CASE tag = <<1, "bytes">> -> Ok([s EXCEPT ![1] = x])
           [] tag = <<2, "bytes">> -> Ok([s EXCEPT ![2] = x])
           [] OTHER -> Ok(s)),
       LAMBDA s : Ok(Label(s[1], s[2])))

\* a message with a head in field 1 (the last one wins) and blocks in field 2
HeadAndBlocks(m, zero, DecodeHead(_)) ==
  Scan(m, [head |-> zero, blocks |-> << >>], LAMBDA s, tag, x :
    CASE tag = <<1, "bytes">> -> Then(DecodeHead(x), LAMBDA h : Ok([s EXCEPT !.head = h]))
      [] tag = <<2, "bytes">> -> Ok([s EXCEPT !.blocks = Append(@, x)])
      [] OTHER -> Ok(s))

WithContext(item, attrs, scope) ==
  item @@ [service |-> serviceName(attrs), resource |-> attrs, scope |-> scope]

-----------------------------------------------------------------------------
(* Traces.                                                                 *)

decodeEvent(m) ==
  Scan(m, [time |-> 0, name |-> "", attrs |-> << >>], LAMBDA ev, tag, x :
    CASE tag = <<1, "fixed64">> -> Ok([ev EXCEPT !.time = x])
      [] tag = <<2, "bytes">> -> Ok([ev EXCEPT !.name = x])
      [] tag = <<3, "bytes">> -> AddAttr(ev, "attrs", x)
      [] OTHER -> Ok(ev))

decodeLink(m) ==
  Scan(m, [trace |-> "", id |-> "", attrs |-> << >>], LAMBDA ln, tag, x :
    CASE tag = <<1, "bytes">> -> Ok([ln EXCEPT !.trace = x])
      [] tag = <<2, "bytes">> -> Ok([ln EXCEPT !.id = x])
      [] tag = <<4, "bytes">> -> AddAttr(ln, "attrs", x)
      [] OTHER -> Ok(ln))

decodeStatus(m, span) ==
  Scan(m, span, LAMBDA sp, tag, x :
    CASE tag = <<2, "bytes">> -> Ok([sp EXCEPT !.message = x])
      [] tag = <<3, "varint">> -> Ok([sp EXCEPT !.code = Int32(x)])
      [] OTHER -> Ok(sp))

SpanScalars ==
  (<<1, "bytes">> :> "trace") @@ (<<2, "bytes">> :> "id") @@ (<<4, "bytes">> :> "parent")
  @@ (<<5, "bytes">> :> "name") @@ (<<7, "fixed64">> :> "start") @@ (<<8, "fixed64">> :> "end")

decodeSpan(m) ==
  Scan(m, ZeroSpan, LAMBDA sp, tag, x :
    CASE tag \in DOMAIN SpanScalars -> Ok([sp EXCEPT ![SpanScalars[tag]] = x])
      [] tag = <<6, "varint">> -> Ok([sp EXCEPT !.kind = Int32(x)])
      [] tag = <<9, "bytes">> -> AddAttr(sp, "attrs", x)
      [] tag = <<11, "bytes">> ->
           Then(decodeEvent(x), LAMBDA ev : Ok([sp EXCEPT !.events = Append(@, ev)]))
      [] tag = <<13, "bytes">> ->
           Then(decodeLink(x), LAMBDA ln : Ok([sp EXCEPT !.links = Append(@, ln)]))
      [] tag = <<15, "bytes">> -> decodeStatus(x, sp)
      [] OTHER -> Ok(sp))

decodeScopeSpans(m, attrs) ==
  Then(HeadAndBlocks(m, <<"", "">>, decodeScope), LAMBDA s :
    DecodeAll(s.blocks, LAMBDA b :
      Then(decodeSpan(b), LAMBDA sp : Ok(<<WithContext(sp, attrs, s.head)>>))))

\* mutant: scope blocks are decoded as they come, before the resource is known
decodeResourceSpans_Eager(m) ==
  Then(Scan(m, [attrs |-> << >>, items |-> << >>], LAMBDA s, tag, x :
         CASE tag = <<1, "bytes">> ->
                Then(decodeResource(x), LAMBDA h : Ok([s EXCEPT !.attrs = h.attrs]))
           [] tag = <<2, "bytes">> ->
                Then(decodeScopeSpans(x, s.attrs), LAMBDA l : Ok([s EXCEPT !.items = @ \o l]))
           [] OTHER -> Ok(s)),
       LAMBDA s : Ok(s.items))

decodeResourceSpans(m) ==
  Then(HeadAndBlocks(m, [attrs |-> << >>], decodeResource), LAMBDA s :
    DecodeAll(s.blocks, LAMBDA b : decodeScopeSpans(b, s.head.attrs)))

\* a request: the blocks in field 1, decoded as they come
Request(m, DecodeBlock(_)) ==
  Scan(m, << >>, LAMBDA items, tag, x :
    IF tag = <<1, "bytes">>
    THEN Then(DecodeBlock(x), LAMBDA more : Ok(items \o more)) ELSE Ok(items))

DecodeTracesProto(m) == Request(m, decodeResourceSpans)

-----------------------------------------------------------------------------
(* Logs.                                                                   *)

decodeLogRecord(m) ==
  Scan(m, ZeroRecord, LAMBDA rec, tag, x :
    CASE tag = <<1, "fixed64">> -> Ok([rec EXCEPT !.time = x])
      [] tag = <<2, "varint">> -> Ok([rec EXCEPT !.severity = Int32(x)])
      [] tag = <<3, "bytes">> -> Ok([rec EXCEPT !.text = x])
      [] tag = <<5, "bytes">> -> Then(decodeAnyValue(x), LAMBDA v : Ok([rec EXCEPT !.body = v]))
      [] tag = <<6, "bytes">> -> AddAttr(rec, "attrs", x)
      [] tag = <<9, "bytes">> -> Ok([rec EXCEPT !.trace = x])
      [] tag = <<10, "bytes">> -> Ok([rec EXCEPT !.id = x])
      [] tag = <<11, "fixed64">> -> Ok(IF rec.time = 0 THEN [rec EXCEPT !.time = x] ELSE rec)
      [] OTHER -> Ok(rec))

decodeScopeLogs(m, attrs) ==
  Then(HeadAndBlocks(m, <<"", "">>, decodeScope), LAMBDA s :
    DecodeAll(s.blocks, LAMBDA b :
      Then(decodeLogRecord(b), LAMBDA rec : Ok(<<WithContext(rec, attrs, s.head)>>))))

decodeResourceLogs(m) ==
  Then(HeadAndBlocks(m, [attrs |-> << >>], decodeResource), LAMBDA s :
    DecodeAll(s.blocks, LAMBDA b : decodeScopeLogs(b, s.head.attrs)))

DecodeLogsProto(m) == Request(m, decodeResourceLogs)

-----------------------------------------------------------------------------
(* Metrics: counted, and the names collected in order of appearance.       *)

\* the rest of a metric is not looked at once its name is known
metricName(m) ==
  LET i == SelectInSeq(m, LAMBDA f : ~Skippable(f) \/ <<f.num, f.wt>> = <<1, "bytes">>)
  IN  IF i = 0 THEN Ok("") ELSE IF Skippable(m[i]) THEN Ok(m[i].val) ELSE Failed

Field2(m, DecodeBlock(_)) ==
  Scan(m, << >>, LAMBDA items, tag, x :
    IF tag = <<2, "bytes">>
    THEN Then(DecodeBlock(x), LAMBDA more : Ok(items \o more)) ELSE Ok(items))

summarizeScopeMetrics(m) ==
  Field2(m, LAMBDA b : Then(metricName(b), LAMBDA n : Ok(<<n>>)))

summarizeResourceMetrics(m) == Field2(m, summarizeScopeMetrics)

\* resources, metrics, and the distinct names among them; one list of names
\* per resource
Summary(resources) ==
  LET all == FlattenSeq(resources)
  IN  [resources |-> Len(resources), count |-> Len(all),
       names |-> FoldLeft(LAMBDA seen, n :
                   IF n = "" \/ n \in ToSet(seen) THEN seen ELSE Append(seen, n), << >>, all)]

SummarizeMetricsProto(m) ==
  Then(Request(m, LAMBDA b : Then(summarizeResourceMetrics(b), LAMBDA names : Ok(<<names>>))),
       LAMBDA resources : Ok(Summary(resources)))

-----------------------------------------------------------------------------
(* OTLP/JSON.  A document is the tree json.Unmarshal fills: an absent      *)
(* object reads as one without fields.  Unmarshal refuses a bad number     *)
(* before anything is converted; any failure fails the whole request, so   *)
(* here it fails where the number stands.  An any-value is a record of the *)
(* alternatives present; enum names stand without their optional prefix.   *)

\* A float64 holds every number up to Exact (2^53), then every second, fourth, ...
Exact == (MaxTime + 1) \div 2^Lost
Spacing(n) == Min({2^k : k \in {j \in 0..Lost : n <= Exact * 2^j}})

\* ParseFloat: the nearest of them; half way between two, the one with the even mantissa
Rounded(n) ==
  LET s    == Spacing(n)
      m    == n \div s
      over == 2 * (n % s)
  IN  IF over < s \/ (over = s /\ m % 2 = 0) THEN m * s ELSE (m + 1) * s

\* mutant: 2^64 itself counts as within the range
flexUint64_Inclusive(t) ==
  CASE t.form = "absent" -> Ok(0)
    [] t.form = "digits" /\ t.n \in 0..MaxTime -> Ok(t.n)
    [] t.form = "float" /\ t.n \in 0..MaxTime ->
         IF Rounded(t.n) <= MaxTime THEN Ok(Rounded(t.n)) ELSE Ok(NaNTime)
    [] t.form = "nan" -> Ok(NaNTime)
    [] OTHER -> Failed

\* A time is absent (or "", or null), digits, a float (written with a point or an
\* exponent; n is the number), a quoted NaN, of which both comparisons with the range
\* are false, or junk.  Digits ParseUint refuses are no float within the range either.
flexUint64(t) ==
  CASE t.form = "absent" -> Ok(0)
    [] t.form = "digits" /\ t.n \in 0..MaxTime -> Ok(t.n)
    [] t.form = "float" /\ t.n \in 0..MaxTime /\ Rounded(t.n) <= MaxTime -> Ok(Rounded(t.n))
    [] t.form = "nan" -> Ok(NaNTime)
    [] OTHER -> Failed

flexInt64(n) == IF n \in (-MaxInt64 - 1)..MaxInt64 THEN Ok(n) ELSE Failed

flexEnum(e) == IF IsInt32(e.num) THEN Ok(e) ELSE Failed

\* an unknown name is 0, like the first name
resolve(e, names) ==
  IF e.name = "" THEN e.num
  ELSE LET i == SelectInSeq(names, LAMBDA n : n = e.name) IN IF i = 0 THEN 0 ELSE i - 1

Bands ==
  ("TRACE" :> 1) @@ ("DEBUG" :> 5) @@ ("INFO" :> 9) @@ ("WARN" :> 13)
  @@ ("ERROR" :> 17) @@ ("FATAL" :> 21)

\* rest is the digit after the band's name, 0 for none
severityFromName(name, rest) ==
  IF name \in DOMAIN Bands THEN Bands[name] + (IF rest \in 2..4 THEN rest - 1 ELSE 0) ELSE 0

\* absent and all-zero are the same; lower case from here on
hexID(s) ==
  CASE s = "zz" -> Failed
    [] s = "00" -> Ok("")
    [] s = "AA" -> Ok("aa")
    [] OTHER -> Ok(s)

Alternatives == <<"string", "bool", "int", "double", "array", "kvlist", "bytes">>

RECURSIVE convertAttrs(_), convertAnyValue(_)

\* the first alternative present decides
convertAnyValue(jv) ==
  LET i == SelectInSeq(Alternatives, LAMBDA k : k \in DOMAIN jv)
      kind == Alternatives[i]
  IN  CASE i = 0 -> Ok(Empty)
        [] i # 0 /\ kind = "array" ->
             Then(AllOk([k \in DOMAIN jv.array |-> convertAnyValue(jv.array[k])]),
                  LAMBDA l : Value(kind, l))
        [] i # 0 /\ kind = "kvlist" ->
             Then(convertAttrs(jv.kvlist), LAMBDA l : Value(kind, l))
        [] i # 0 /\ kind = "int" -> Then(flexInt64(jv.int), LAMBDA n : Value(kind, n))
        [] i # 0 /\ kind = "bytes" /\ jv.bytes = "not base64" -> Failed
        [] i # 0 /\ kind = "double" /\ jv.double \in {"NaN", "Inf"} -> Failed
        [] OTHER -> Value(kind, jv[kind])

convertAttrs(in) ==
  DecodeAll(in, LAMBDA kv :
    Then(convertAnyValue(kv.value), LAMBDA v : Ok(<<[key |-> kv.key, value |-> v]>>)))

scopeLabel(s) == Label(s[1], s[2])

convertEvent(je) ==
  Then(AllOk(<<flexUint64(je.time), convertAttrs(je.attrs)>>), LAMBDA v :
    Ok(<<[time |-> v[1], name |-> je.name, attrs |-> v[2]]>>))

convertLink(jl) ==
  Then(AllOk(<<hexID(jl.trace), hexID(jl.id), convertAttrs(jl.attrs)>>), LAMBDA v :
    Ok(<<[trace |-> v[1], id |-> v[2], attrs |-> v[3]]>>))

convertSpan(js) ==
  Then(AllOk(<<hexID(js.trace), hexID(js.id), hexID(js.parent), flexUint64(js.start),
               flexUint64(js.end), flexEnum(js.kind), flexEnum(js.code),
               convertAttrs(js.attrs), DecodeAll(js.events, convertEvent),
               DecodeAll(js.links, convertLink)>>), LAMBDA v :
    Ok([trace |-> v[1], id |-> v[2], parent |-> v[3], name |-> js.name,
        kind |-> resolve(v[6], spanKindNames), start |-> v[4], end |-> v[5],
        attrs |-> v[8], events |-> v[9], links |-> v[10],
        code |-> resolve(v[7], statusCodeNames), message |-> js.message]))

\* mutant: the observed time and the severity's name are ignored
convertLogRecord_NoFallback(jr) ==
  Then(AllOk(<<flexUint64(jr.time), flexUint64(jr.observed), flexEnum(jr.severity),
               convertAnyValue(jr.body), convertAttrs(jr.attrs), hexID(jr.trace),
               hexID(jr.id)>>), LAMBDA v :
    Ok([time |-> v[1], severity |-> v[3].num, text |-> jr.text, body |-> v[4],
        attrs |-> v[5], trace |-> v[6], id |-> v[7]]))

convertLogRecord(jr) ==
  Then(AllOk(<<flexUint64(jr.time), flexUint64(jr.observed), flexEnum(jr.severity),
               convertAnyValue(jr.body), convertAttrs(jr.attrs), hexID(jr.trace),
               hexID(jr.id)>>), LAMBDA v :
    Ok([time |-> IF v[1] # 0 THEN v[1] ELSE v[2],
        severity |-> IF jr.severity.name # ""
                     THEN severityFromName(jr.severity.name, jr.severity.num) ELSE jr.severity.num,
        text |-> jr.text, body |-> v[4], attrs |-> v[5], trace |-> v[6], id |-> v[7]]))

Converted(doc, Convert(_)) ==
  DecodeAll(doc, LAMBDA res :
    Then(convertAttrs(res.attrs), LAMBDA attrs :
      DecodeAll(res.scopes, LAMBDA sc :
        DecodeAll(sc.items, LAMBDA item :
          Then(Convert(item), LAMBDA v : Ok(<<WithContext(v, attrs, scopeLabel(sc.scope))>>))))))

DecodeTracesJSON(doc) == Converted(doc, convertSpan)

DecodeLogsJSON(doc) == Converted(doc, convertLogRecord)

SummarizeMetricsJSON(doc) ==
  Ok(Summary([i \in DOMAIN doc |->
       FlattenSeq([k \in DOMAIN doc[i].scopes |-> doc[i].scopes[k].items])]))

-----------------------------------------------------------------------------
(* The handler calls one decoder per request, chosen by path and media     *)
(* type (server.go dispatch).                                              *)

DecodeProto ==
  /\ via = ""
  /\ via' = "proto"
  /\ decoded' = CASE body.signal = "traces" -> DecodeTracesProto(body.proto)
                  [] body.signal = "logs" -> DecodeLogsProto(body.proto)
                  [] body.signal = "metrics" -> SummarizeMetricsProto(body.proto)
  /\ UNCHANGED body

DecodeJSON ==
  /\ via = ""
  /\ via' = "json"
  /\ decoded' = CASE ~body.json.wellFormed -> Failed
                  [] OTHER ->
                       CASE body.signal = "traces" -> DecodeTracesJSON(body.json.doc)
                         [] body.signal = "logs" -> DecodeLogsJSON(body.json.doc)
                         [] body.signal = "metrics" -> SummarizeMetricsJSON(body.json.doc)
  /\ UNCHANGED body

Next == DecodeProto \/ DecodeJSON

Spec == Init /\ [][Next]_vars

-----------------------------------------------------------------------------

\* Every decoder hands on items with all the fields the renderer reads,
\* whatever is absent on the wire, and with enums that fit an int32.
TypeOK ==
  /\ body.signal \in {"traces", "logs", "metrics"}
  /\ via \in {"", "proto", "json"}
  /\ decoded.ok /\ body.signal = "traces" =>
       \A i \in DOMAIN decoded.v :
         /\ DOMAIN decoded.v[i] = DOMAIN ZeroSpan \cup {"service", "resource", "scope"}
         /\ IsInt32(decoded.v[i].kind) /\ IsInt32(decoded.v[i].code)
  /\ decoded.ok /\ body.signal = "logs" =>
       \A i \in DOMAIN decoded.v :
         /\ DOMAIN decoded.v[i] = DOMAIN ZeroRecord \cup {"service", "resource", "scope"}
         /\ IsInt32(decoded.v[i].severity)

\* A protobuf export decodes to what it means however its fields are laid
\* out: in any order (the resource or scope after the items they apply to),
\* with fields of later protocol revisions or of another wire type in between,
\* with a scalar sent twice, with proto3 defaults left out.
ProtoMeansRequest ==
  via = "proto" /\ body.protoOK => decoded = Ok(body.meaning)

\* the texts of the times in a JSON document
TextsOf(item, signal) ==
  IF signal = "traces"
  THEN {item.start, item.end} \cup {item.events[k].time : k \in DOMAIN item.events}
  ELSE {item.time, item.observed}

TimeTexts(doc, signal) ==
  IF signal = "metrics" THEN {}
  ELSE UNION {UNION {UNION {TextsOf(doc[r].scopes[s].items[i], signal) :
                              i \in DOMAIN doc[r].scopes[s].items} :
                       s \in DOMAIN doc[r].scopes} : r \in DOMAIN doc}

\* one is a float, and without its trailing zeros too long for a mantissa
Rounds(doc, signal) ==
  \E t \in TimeTexts(doc, signal) :
    /\ t.form = "float" /\ t.n \in 0..MaxTime
    /\ \A k \in 0..Lost : t.n % 2^k = 0 => t.n \div 2^k > Exact

HasNaN(doc, signal) == \E t \in TimeTexts(doc, signal) : t.form = "nan"

\* A JSON export decodes to the same thing as the protobuf one, whether enums
\* come as names or numbers, ids in upper or lower case, zero or absent, and times
\* as digits or as floats a float64 can hold.
JSONMeansRequest ==
  via = "json" /\ body.jsonOK /\ body.jsonExact => decoded = Ok(body.meaning)

\* Decoding is all or nothing: damage at any depth, before or after the sound
\* parts, rejects the whole request, and nothing of it reaches the renderer.  One
\* thing the code takes that the comment in flexUint64 has it reject, a value outside
\* the range of a uint64, is excepted: a quoted NaN.
BrokenIsRejected ==
  \/ via = ""
  \/ (IF via = "proto" THEN body.protoOK ELSE body.jsonOK)
  \/ via = "json" /\ body.json.wellFormed /\ HasNaN(body.json.doc, body.signal)
  \/ decoded = Failed

Times(item) ==
  IF body.signal = "traces"
  THEN <<item.start, item.end>> \o [k \in DOMAIN item.events |-> item.events[k].time]
  ELSE <<item.time>>

Timeless(item) ==
  IF body.signal = "traces"
  THEN [item EXCEPT !.start = 0, !.end = 0,
                    !.events = [k \in DOMAIN @ |-> [@[k] EXCEPT !.time = 0]]]
  ELSE [item EXCEPT !.time = 0]

\* A time written as a float goes through a float64 (flexUint64), which cannot hold
\* most nanosecond times of today.  Such a request is refused if one of them is
\* rounded out of the range of a uint64, and for no other reason; otherwise all but
\* its times is as meant, each time is the one meant to within one part in 2^53, and
\* none of an item's times is moved past another.
FloatTimesStayClose ==
  via = "json" /\ body.jsonOK /\ ~body.jsonExact =>
    IF \E t \in TimeTexts(body.json.doc, body.signal) :
         t.form = "float" /\ t.n > MaxTime - 2^(Lost - 1)
    THEN decoded = Failed
    ELSE /\ decoded.ok /\ Len(decoded.v) = Len(body.meaning)
         /\ \A i \in DOMAIN decoded.v :
              LET got  == Times(decoded.v[i])
                  said == Times(body.meaning[i])
              IN  /\ Timeless(decoded.v[i]) = Timeless(body.meaning[i])
                  /\ \A k \in DOMAIN said :
                       /\ Exact * (got[k] - said[k]) <= said[k]
                       /\ Exact * (said[k] - got[k]) <= said[k]
                       /\ \A j \in DOMAIN said : said[j] <= said[k] => got[j] <= got[k]

\* model.go: the parent of a root span is ""; a JSON parent id of zeros is
\* normalised to that, "proto3 zero value semantics".
RootsHaveNoParent ==
  via # "" /\ decoded.ok /\ body.signal = "traces" =>
    \A i \in DOMAIN decoded.v : decoded.v[i].parent # "00"
=============================================================================
