--------------------------------- MODULE Lines ---------------------------------
(***************************************************************************)
(* What the renderer (internal/render) prints line by line: spans in       *)
(* compact and JSON mode, log records and metrics in every mode.  The      *)
(* trees of pretty mode are module TraceTree.                              *)
(*                                                                         *)
(* A line is the record of what it shows; columns, colours and punctuation *)
(* are left out.  Of an id, one digit stands for the eight that are shown. *)
(*                                                                         *)
(* What decoding yields is promised here, not computed (Promised); module  *)
(* Pipeline computes it.                                                   *)
(***************************************************************************)
EXTENDS Telemetry, Duration

CONSTANTS
  AsText(_), \* AnyValue.String: the text of an any-value
  Configs,   \* command lines: cli.Config before it is checked
  MaxNames,  \* metric names a line shows (6)
  Day        \* nanoseconds of a day

ASSUME LinesAssumption ==
  /\ Configs \subseteq [output : STRING, color : STRING, noAttrs : BOOLEAN,
                        noEvents : BOOLEAN, resource : BOOLEAN, service : STRING,
                        minDuration : (-MaxInt64 - 1)..MaxInt64, maxBody : Int,
                        hostPort : BOOLEAN, args : Nat]
  /\ MaxNames \in Nat /\ Day \in Nat \ {0}

VARIABLES
  options,   \* of the renderer; << >> before it prints
  lines      \* what it printed

allVars == <<vars, options, lines>>

\* what Run goes on with; hostPort: net.SplitHostPort takes the address
ParseConfig(cfg) ==
  /\ cfg.args = 0
  /\ cfg.output \in {"pretty", "compact", "json"}
  /\ cfg.color \in {"auto", "always", "never"}
  /\ cfg.minDuration >= 0
  /\ cfg.maxBody > 0
  /\ cfg.hostPort

\* the duration is an int64 and becomes a uint64
RenderOptions(cfg) ==
  [mode |-> cfg.output, hideAttrs |-> cfg.noAttrs, hideEvents |-> cfg.noEvents,
   showResource |-> cfg.resource, service |-> cfg.service,
   minDurationNs |-> cfg.minDuration % (MaxTime + 1)]

-----------------------------------------------------------------------------
(* The telemetry model's own methods (model.go).                           *)

SpanKindString(k) == IF k \in 1..5 THEN spanKindNames[k + 1] ELSE "UNSPECIFIED"
StatusString(c) == IF c \in 1..2 THEN statusCodeNames[c + 1] ELSE "UNSET"

BandNames == <<"TRACE", "DEBUG", "INFO", "WARN", "ERROR", "FATAL">>
SeverityText(n) == IF n \in 1..24 THEN BandNames[(n + 3) \div 4] ELSE "UNSET"
Level(rec) == IF rec.text # "" THEN rec.text ELSE SeverityText(rec.severity)

DurationNano(sp) == IF sp.end <= sp.start THEN 0 ELSE sp.end - sp.start

-----------------------------------------------------------------------------
(* Pieces of lines.                                                        *)

short(id) == IF Len(id) <= 1 THEN id ELSE SubSeq(id, 1, 1) \o "..."

\* the milliseconds of the day; a time beyond int64 counts back from 1970
clock(ns) == IF ns = 0 THEN << >> ELSE <<(Int64(ns) % Day) \div Nanos.ms>>

Native(v) ==
  IF v.kind \in {"string", "bool", "int", "double"} THEN v
  ELSE [kind |-> "string", val |-> AsText(v)]

Keys(attrs) == {attrs[i].key : i \in DOMAIN attrs}
PositionsOf(attrs, key) == {i \in DOMAIN attrs : attrs[i].key = key}

\* mutant: a key that is already there is not written again
attrsToMap_FirstWins(attrs) ==
  [key \in Keys(attrs) |-> Native(attrs[Min(PositionsOf(attrs, key))].value)]

\* a key that comes again is written again
attrsToMap(attrs) ==
  [key \in Keys(attrs) |-> Native(attrs[Max(PositionsOf(attrs, key))].value)]

\* json.Marshal knows no NaN and no infinity
Marshals(map) == \A k \in DOMAIN map : map[k].kind = "double" => map[k].val \notin {"NaN", "Inf"}

KeyTexts(attrs) == [i \in DOMAIN attrs |-> <<attrs[i].key, AsText(attrs[i].value)>>]
NamesOf(items) == [i \in DOMAIN items |-> items[i].name]

-----------------------------------------------------------------------------
(* Traces.                                                                 *)

\* the items at the positions that are kept, in their order
Chosen(items, kept) ==
  FlattenSeq([i \in DOMAIN items |-> IF i \in kept THEN <<items[i]>> ELSE << >>])

OfService(items, o) == {i \in DOMAIN items : o.service \in {"", items[i].service}}

SlowEnough(spans, o) ==
  {i \in DOMAIN spans : o.minDurationNs > 0 =>
     \E j \in DOMAIN spans :
       spans[j].trace = spans[i].trace /\ DurationNano(spans[j]) >= o.minDurationNs}

\* mutant: the gate looks at the spans of every service
filterSpans_GateFirst(spans, o) ==
  Chosen(spans, OfService(spans, o) \cap SlowEnough(spans, o))

filterSpans(spans, o) ==
  LET out == Chosen(spans, OfService(spans, o)) IN Chosen(out, SlowEnough(out, o))

spanCompact(sp) ==
  [form |-> "compact", duration |-> FormatDuration(DurationNano(sp)),
   kind |-> SpanKindString(sp.kind),
   service |-> IF sp.service = "" THEN "-" ELSE sp.service,
   name |-> IF sp.name = "" THEN "(unnamed span)" ELSE sp.name,
   trace |-> short(sp.trace),
   error |-> IF sp.code = 2 THEN <<sp.message>> ELSE << >>]

jsonSpan(sp, o) ==
  [form |-> "object", traceId |-> sp.trace, spanId |-> sp.id, parentSpanId |-> sp.parent,
   name |-> sp.name, kind |-> SpanKindString(sp.kind), service |-> sp.service,
   scope |-> sp.scope, start |-> sp.start, end |-> sp.end, duration |-> DurationNano(sp),
   status |-> StatusString(sp.code), statusMessage |-> sp.message,
   attributes |-> IF o.hideAttrs THEN << >> ELSE attrsToMap(sp.attrs),
   resource |-> IF o.hideAttrs \/ ~o.showResource THEN << >> ELSE attrsToMap(sp.resource),
   events |-> IF o.hideEvents THEN << >> ELSE NamesOf(sp.events)]

\* mutant: what cannot be marshalled leaves an empty line
spanJSON_Blank(sp, o) ==
  LET js == jsonSpan(sp, o)
  IN  IF Marshals(js.attributes) /\ Marshals(js.resource) THEN js ELSE [form |-> "blank"]

\* a diagnostic object stands for a span that has no JSON form
spanJSON(sp, o) ==
  LET js == jsonSpan(sp, o)
  IN  IF Marshals(js.attributes) /\ Marshals(js.resource) THEN js ELSE [form |-> "error"]

Traces(spans, o) ==
  LET kept == filterSpans(spans, o)
  IN  [i \in DOMAIN kept |->
         IF o.mode = "json" THEN spanJSON(kept[i], o) ELSE spanCompact(kept[i])]

-----------------------------------------------------------------------------
(* Logs and metrics.                                                       *)

logLine(rec, o) ==
  [form |-> "log", time |-> clock(rec.time), level |-> Level(rec), service |-> rec.service,
   body |-> AsText(rec.body),
   attributes |-> IF o.hideAttrs THEN << >> ELSE KeyTexts(rec.attrs), trace |-> short(rec.trace)]

\* the error of Marshal is not looked at
logJSON(rec, o) ==
  LET js == [form |-> "object", time |-> rec.time, level |-> Level(rec), service |-> rec.service,
             body |-> AsText(rec.body), traceId |-> rec.trace, spanId |-> rec.id,
             attributes |-> IF o.hideAttrs THEN << >> ELSE attrsToMap(rec.attrs)]
  IN  IF Marshals(js.attributes) THEN js ELSE [form |-> "blank"]

Logs(records, o) ==
  LET kept == Chosen(records, OfService(records, o))
  IN  [i \in DOMAIN kept |-> IF o.mode = "json" THEN logJSON(kept[i], o) ELSE logLine(kept[i], o)]

Metrics(sum, o) ==
  IF o.mode = "json" THEN [form |-> "object", count |-> sum.count, names |-> sum.names]
  ELSE [form |-> "metrics", count |-> sum.count, more |-> Len(sum.names) > MaxNames,
        names |-> SubSeq(sum.names, 1, IF Len(sum.names) > MaxNames THEN MaxNames ELSE Len(sum.names))]

-----------------------------------------------------------------------------
LinesInit == Init /\ options = << >> /\ lines = << >>

SoundIn(encoding) ==
  IF encoding = "proto" THEN body.protoOK ELSE body.jsonOK /\ body.jsonExact

\* What decoding promises: a sound request yields what it means, any other nothing.
\* That is ProtoMeansRequest, JSONMeansRequest and BrokenIsRejected of module Decode;
\* a document whose times are not exact is not followed here.
Promised ==
  /\ via = ""
  /\ via' \in {"proto", "json"}
  /\ decoded' = IF SoundIn(via') THEN Ok(body.meaning) ELSE Failed
  /\ UNCHANGED <<body, options, lines>>

\* the options are those of the command line the sink was started with
Render ==
  /\ via # "" /\ decoded.ok /\ options = << >>
  /\ \E cfg \in Configs :
       /\ ParseConfig(cfg)
       /\ body.signal = "traces" => cfg.output # "pretty"
       /\ options' = RenderOptions(cfg)
  /\ lines' = CASE body.signal = "traces" -> Traces(decoded.v, options')
                [] body.signal = "logs" -> Logs(decoded.v, options')
                [] body.signal = "metrics" -> <<Metrics(decoded.v, options')>>
  /\ UNCHANGED vars

LinesNext == Promised \/ Render

LinesSpec == LinesInit /\ [][LinesNext]_allVars

-----------------------------------------------------------------------------
(* Properties: the lines against what the request means.                   *)

Printed == options # << >> /\ SoundIn(via)

\* the items of the request that are to be shown
Wanted ==
  Chosen(body.meaning, {i \in DOMAIN body.meaning :
    /\ options.service \in {"", body.meaning[i].service}
    /\ body.signal = "traces" /\ options.minDurationNs > 0 =>
         \E j \in DOMAIN body.meaning :
           LET other == body.meaning[j]
           IN  /\ other.trace = body.meaning[i].trace
               /\ options.service \in {"", other.service}
               /\ other.end >= other.start + options.minDurationNs})

\* A batch prints one line for each span or record of the chosen service (and of
\* the traces slow enough), in the order of the request, whichever encoding it
\* came in: a value that cannot be printed never costs the line or a later one, and
\* no gate is so high that nothing could pass.
OneLinePerItem ==
  Printed /\ body.signal # "metrics" =>
    /\ options.minDurationNs <= MaxInt64
    /\ Len(lines) = Len(Wanted)
    /\ \A i \in DOMAIN lines :
         /\ lines[i].form = "compact" /\ Wanted[i].name # "" => lines[i].name = Wanted[i].name
         /\ lines[i].form = "object" /\ body.signal = "traces" =>
              lines[i].name = Wanted[i].name /\ lines[i].spanId = Wanted[i].id
         /\ lines[i].form = "log" => lines[i].body = AsText(Wanted[i].body)

\* the attributes whose keys do not come again
Lasting(attrs) ==
  {attrs[i] : i \in {k \in DOMAIN attrs : \A j \in (k + 1)..Len(attrs) : attrs[j].key # attrs[k].key}}

\* those the options leave to be printed, the resource's included
Shown(item) ==
  IF options.hideAttrs THEN {}
  ELSE Lasting(item.attrs)
       \cup IF options.showResource /\ body.signal = "traces" THEN Lasting(item.resource) ELSE {}

NotInJSON(kv) == kv.value.kind = "double" /\ kv.value.val \in {"NaN", "Inf"}

\* "must not kill the stream" (spanJSON): in JSON mode every span's line is an
\* object, and a diagnostic one only if a value that is shown has no JSON form (one
\* that a later value of its key replaces does not count); the line of a log record
\* is empty in that case, and in no other.
StreamStaysJSON ==
  Printed /\ body.signal # "metrics" /\ options.mode = "json" =>
    \A i \in DOMAIN lines :
      lines[i].form =
        CASE ~\E kv \in Shown(Wanted[i]) : NotInJSON(kv) -> "object"
          [] OTHER -> IF body.signal = "traces" THEN "error" ELSE "blank"

\* a span with an end and no start: the comment on DurationNano (model.go) has it last
\* 0, "when timestamps are missing", the code since 1970
NoStart(span) == span.start = 0 /\ span.end > 0

\* Durations survive the text: read back, the duration of a compact line is that of
\* the span rounded down to three digits, in a unit that suits it; nothing that
\* lasted is shown as 0, and nothing that ends before it starts, or has no end,
\* lasts.  Nothing is said of spans with an end and no start.
DurationsReadBack ==
  Printed /\ body.signal = "traces" =>
    \A i \in DOMAIN lines : ~NoStart(Wanted[i]) =>
      LET lasted == Max({0, Wanted[i].end - Wanted[i].start})
      IN  /\ lines[i].form = "compact" => Faithful(lines[i].duration, lasted)
          /\ lines[i].form = "object" => lines[i].duration = lasted

Once(attrs, kv) == Cardinality({i \in DOMAIN attrs : attrs[i].key = kv.key}) = 1

\* Attributes survive flattening (attrsToMap): --no-attrs shows none; otherwise every
\* key is there, once and with the last value given to it, and the service of the line
\* is the service.name of the resource it shows, unless that key is repeated.
AttributesSurvive ==
  Printed /\ body.signal # "metrics" =>
    \A i \in DOMAIN lines : lines[i].form = "object" =>
      LET kept == IF options.hideAttrs THEN << >> ELSE Wanted[i].attrs
      IN  /\ DOMAIN lines[i].attributes = {kept[k].key : k \in DOMAIN kept}
          /\ \A k \in DOMAIN kept :
               \/ \E j \in (k + 1)..Len(kept) : kept[j].key = kept[k].key
               \/ lines[i].attributes[kept[k].key] = Native(kept[k].value)
          /\ body.signal = "traces" /\ ~options.hideAttrs /\ options.showResource =>
               LET res == lines[i].resource
               IN  \A kv \in ToSet(Wanted[i].resource) : Once(Wanted[i].resource, kv) =>
                     /\ res[kv.key] = Native(kv.value)
                     /\ kv.key = "service.name" /\ kv.value.kind = "string" =>
                          lines[i].service = res[kv.key].val
=============================================================================
