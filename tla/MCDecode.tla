------------------------------- MODULE MCDecode -------------------------------
(* Small instances of Decode for TLC: what an exporter may mean, laid out  *)
(* in both encodings in the ways an exporter may lay it out, and printed.  *)
EXTENDS Pipeline

LOCAL INSTANCE Demo

Text(x) == [kind |-> "string", val |-> x]
Attr(k, v) == [key |-> k, value |-> v]

Nested == [kind |-> "array", val |-> <<Text("x"), [kind |-> "kvlist", val |->
             <<Attr("k", [kind |-> "bool", val |-> 1]), Attr("none", Empty)>>]>>]

Bare == ZeroSpan
Full ==
  [trace |-> "aa", id |-> "bb", parent |-> "aa", name |-> "op", kind |-> 2, start |-> 1,
   end |-> 3, attrs |-> <<Attr("a", Text("x")), Attr("b", Nested)>>,
   events |-> <<[time |-> 2, name |-> "ev", attrs |-> <<Attr("e", Text("y"))>>],
                [time |-> 0, name |-> "", attrs |-> << >>]>>,
   links |-> <<[trace |-> "bb", id |-> "aa", attrs |-> <<Attr("l", Text("z"))>>]>>,
   code |-> 2, message |-> "oops"]

BareRecord == ZeroRecord
FullRecord ==
  [time |-> 2, severity |-> 9, text |-> "Info", body |-> Nested,
   attrs |-> <<Attr("a", [kind |-> "bytes", val |-> "b"]), Attr("n", [kind |-> "int", val |-> -1])>>, trace |-> "aa", id |-> "bb"]

\* spans whose values have no JSON form, or keys that repeat, or ends before starts
Real(x) == [kind |-> "double", val |-> x]
OddAttrs(x) == <<Attr("a", Real(x)), Attr("b", Real("1.5")), Attr("a", Real(x))>>
Odd(signal, x) ==
  IF signal = "traces"
  THEN <<[Bare EXCEPT !.id = "aa", !.name = "odd", !.attrs = OddAttrs(x), !.start = 9, !.end = 4],
         [Bare EXCEPT !.id = "bb", !.attrs = <<Attr("a", Real(x)), Attr("a", Nested)>>,
                      !.end = 30, !.code = 2]>>
  ELSE <<[BareRecord EXCEPT !.severity = 14, !.attrs = OddAttrs(x), !.time = MaxTime],
         [BareRecord EXCEPT !.body = Real(x)]>>

\* forty spans of consecutive durations, around every change of digits and unit
Starts == [i \in 0..14 |-> 40 * i] @@ (15 :> 1516) @@ (16 :> 3055) @@ (17 :> 4588)
          @@ (18 :> 6120) @@ (19 :> 8150)
Timed(k) == [i \in 1..40 |-> [Bare EXCEPT !.start = 1, !.end = Starts[k] + i]]

\* times on both sides of 4096, where the spacing of the floats changes
Late(signal) ==
  IF signal = "traces"
  THEN [i \in 1..40 |->
          [Full EXCEPT !.start = 4000 + 4 * i, !.end = 4000 + 5 * i,
                       !.events = <<[time |-> 4001 + 4 * i, name |-> "ev", attrs |-> << >>]>>]]
  ELSE [i \in 1..40 |-> [FullRecord EXCEPT !.time = 4000 + 5 * i]]

\* extra is a set of durations, or 20 for values without a JSON form, 21 for
\* odd ones, 22 for the usual items, 23 for the demo exporter's, 24 for late ones
Items(c) ==
  IF c.extra < 20 THEN Timed(c.extra) ELSE
  IF c.extra = 24 THEN Late(c.signal) ELSE
  IF c.extra < 22 THEN Odd(c.signal, IF c.extra = 20 THEN "NaN" ELSE "0.1") ELSE
  CASE c.signal = "traces" -> <<Full, Bare, [Full EXCEPT !.id = "aa", !.parent = ""]>>
    [] c.signal = "logs" -> <<FullRecord, BareRecord>>
    [] c.signal = "metrics" -> <<"cpu", "mem", "cpu", "">>

Contexts ==
  [service |-> <<Attr("host", Text("h")), Attr("service.name", Text("shop"))>>,
   oddname |-> <<Attr("service.name", [kind |-> "int", val |-> 7])>>,
   twice   |-> <<Attr("service.name", Text("shop")), Attr("service.name", Text("other"))>>,
  none    |-> << >>]

ServiceOf == [service |-> "shop", oddname |-> "", twice |-> "shop", none |-> ""]

Scopes == [both |-> <<"lib", "1">>, version |-> <<"", "1">>, none |-> <<"", "">>]
ScopeOf == [both |-> <<"lib", "1">>, version |-> <<"", "">>, none |-> <<"", "">>]

\* the first item again, from another service and, as a span, lasting longer
Other(c) ==
  IF c.signal = "traces" THEN [Items(c)[1] EXCEPT !.end = @ + 3] ELSE Items(c)[1]

\* two resources; the second one has two scopes, the last of them without items
Tree(c) ==
  <<[attrs |-> Contexts[c.ctx], scopes |-> <<[scope |-> Scopes[c.scope],
                                              items |-> Items(c)]>>],
    [attrs |-> << >>, scopes |-> <<[scope |-> <<"two", "">>, items |-> <<Other(c)>>],
                                   [scope |-> <<"three", "">>, items |-> << >>]>>]>>

Meant(c) ==
  IF c.signal = "metrics"
  THEN [resources |-> 2, count |-> 5, names |-> <<"cpu", "mem">>]
  ELSE [i \in DOMAIN Items(c) |->
          Items(c)[i] @@ [service |-> ServiceOf[c.ctx], resource |-> Contexts[c.ctx],
                                 scope |-> ScopeOf[c.scope]]]
       \o <<Other(c) @@ [service |-> "", resource |-> << >>, scope |-> <<"two", "">>]>>

-----------------------------------------------------------------------------
(* Protobuf.  The fields of a message in groups by number; a layout puts   *)
(* the groups in rising or falling order, with fields that are not known   *)
(* in between, and sends scalars twice.                                    *)

Field(num, wt, val) == [num |-> num, wt |-> wt, readable |-> TRUE, val |-> val]

\* proto3 leaves a field out that has its default value
Scalar(num, wt, val, zero) == IF val = zero THEN << >> ELSE <<Field(num, wt, val)>>
Str(num, val) == Scalar(num, "bytes", val, "")

Unknown == <<Field(99, "varint", 5), Field(1, "fixed32", 5), Field(2, "fixed32", 5)>>

Twice(g, c) ==
  IF c.stale /\ Len(g) = 1 /\ g[1].wt = "fixed64" THEN <<[g[1] EXCEPT !.val = @ + 1]>> \o g ELSE g

Damage ==
  [cut |-> [Field(77, "bytes", << >>) EXCEPT !.readable = FALSE],
   zero |-> Field(0, "varint", 1), group |-> Field(8, "group", 1)]

\* the message at the named level carries the damage, first or last
Message(groups, c, level) ==
  LET laid  == IF c.falling THEN Reverse(groups) ELSE groups
      fixed == FlattenSeq([i \in DOMAIN laid |-> Twice(laid[i], c)])
      sound == IF c.noise THEN <<Unknown[1]>> \o fixed \o Tail(Unknown) ELSE fixed
  IN  CASE c.level # level -> sound
        [] c.level = level /\ c.first -> <<Damage[c.damage]>> \o sound
        [] OTHER -> Append(sound, Damage[c.damage])

Sub(num, messages) == [i \in DOMAIN messages |-> Field(num, "bytes", messages[i])]

RECURSIVE ValueMessage(_, _), AttrMessages(_, _)
ValueMessage(v, c) ==
  Message(<<CASE v.kind = "empty" -> << >>
              [] v.kind = "array" ->
                   <<Field(5, "bytes", Message(<<Sub(1, [i \in DOMAIN v.val |->
                                                  ValueMessage(v.val[i], c)])>>, c, "-"))>>
              [] v.kind = "kvlist" ->
                   <<Field(6, "bytes", Message(<<Sub(1, AttrMessages(v.val, c))>>, c, "list"))>>
              [] v.kind = "string" -> <<Field(1, "bytes", v.val)>>
              [] v.kind = "bool" -> <<Field(2, "varint", v.val)>>
              [] v.kind = "int" ->
                   <<Field(3, "varint", IF v.val < 0 THEN v.val + MaxTime + 1 ELSE v.val)>>
              [] v.kind = "double" -> <<Field(4, "fixed64", v.val)>>
              [] v.kind = "bytes" -> <<Field(7, "bytes", v.val)>>>>, c, "value")
AttrMessages(attrs, c) ==
  [i \in DOMAIN attrs |->
     Message(<<Str(1, attrs[i].key), Sub(2, <<ValueMessage(attrs[i].value, c)>>)>>, c, "attr")]

Enum(num, v, c) ==
  Scalar(num, "varint", IF c.stale /\ v # 0 THEN v + 2 * Half ELSE v, 0)

ItemMessage(item, c) ==
  CASE c.signal = "traces" ->
         Message(<<Str(1, item.trace), Str(2, item.id), Str(4, item.parent),
                   Str(5, item.name), Enum(6, item.kind, c),
                   Scalar(7, "fixed64", item.start, 0), Scalar(8, "fixed64", item.end, 0),
                   Sub(9, AttrMessages(item.attrs, c)),
                   Sub(11, [i \in DOMAIN item.events |->
                     Message(<<Scalar(1, "fixed64", item.events[i].time, 0),
                               Str(2, item.events[i].name),
                               Sub(3, AttrMessages(item.events[i].attrs, c))>>, c, "event")]),
                   Sub(13, [i \in DOMAIN item.links |->
                     Message(<<Str(1, item.links[i].trace), Str(2, item.links[i].id),
                               Sub(4, AttrMessages(item.links[i].attrs, c))>>, c, "link")]),
                   IF item.code = 0 THEN << >>
                   ELSE Sub(15, <<Message(<<Str(2, item.message), Enum(3, item.code, c)>>,
                                          c, "status")>>)>>, c, "item")
    [] c.signal = "logs" ->
         Message(<<CASE ~c.observed -> Scalar(1, "fixed64", item.time, 0)
                     [] c.observed /\ c.noise /\ ~c.falling -> <<Field(1, "fixed64", 0)>>
                     [] OTHER -> << >>,
                   Enum(2, item.severity, c), Str(3, item.text),
                   IF item.body = Empty THEN << >> ELSE Sub(5, <<ValueMessage(item.body, c)>>),
                   Sub(6, AttrMessages(item.attrs, c)),
                   Str(9, item.trace), Str(10, item.id),
                   IF item.time = 0 THEN << >>
                   ELSE <<Field(11, "fixed64", IF c.observed THEN item.time ELSE 7)>>>>,
                 [c EXCEPT !.stale = @ /\ ~c.observed], "item")
    [] c.signal = "metrics" -> Message(<<Str(1, item), <<Field(5, "bytes", << >>)>>>>, c, "item")

Proto(c) ==
  Message(<<Sub(1, [r \in DOMAIN Tree(c) |->
    Message(<<IF c.signal = "metrics" THEN << >>
              ELSE Sub(1, <<Message(<<Sub(1, AttrMessages(Tree(c)[r].attrs, c))>>, c, "resource")>>),
              Sub(2, [s \in DOMAIN Tree(c)[r].scopes |->
                LET sc == Tree(c)[r].scopes[s]
                IN  Message(<<IF c.signal = "metrics" THEN << >>
                              ELSE Sub(1, <<Message(<<Str(1, sc.scope[1]), Str(2, sc.scope[2])>>,
                                                    c, "scopename")>>),
                              Sub(2, [i \in DOMAIN sc.items |-> ItemMessage(sc.items[i], c)])>>,
                            c, "scope")])>>, c, "block")])>>, c, "request")

-----------------------------------------------------------------------------
(* JSON.  The same layouts: falling writes enums as names, stale writes    *)
(* ids in upper case and absent ones as zeros, level breaks a part.        *)

RECURSIVE JSONAttrs(_, _), JSONValue(_, _)
JSONValue(v, c) ==
  CASE v.kind = "empty" -> << >>
    [] v.kind = "array" -> ("array" :> [i \in DOMAIN v.val |-> JSONValue(v.val[i], c)])
    [] v.kind = "kvlist" -> ("kvlist" :> JSONAttrs(v.val, c))
    [] v.kind = "int" -> ("int" :> IF c.level = "list" THEN MaxInt64 + 1 ELSE v.val)
    [] OTHER -> (v.kind :> v.val) @@ (IF c.noise /\ v.kind = "string" THEN "bytes" :> "-" ELSE << >>)
JSONAttrs(attrs, c) ==
  [i \in DOMAIN attrs |->
     [key |-> attrs[i].key,
      value |-> IF c.level = "value" THEN ("bytes" :> "not base64") ELSE JSONValue(attrs[i].value, c)]]

JSONId(s, c) ==
  CASE c.level = "item" -> "zz"
    [] c.level # "item" /\ c.stale /\ s = "" -> "00"
    [] c.level # "item" /\ c.stale /\ s = "aa" -> "AA"
    [] OTHER -> s

\* level "nan" writes the time 2 as "NaN"; falling writes floats, stale leaves zeros out
JSONTime(n, c) ==
  [form |-> CASE c.level = "nan" /\ n = 2 -> "nan"
              [] c.level = "event" /\ c.first /\ n \notin 0..MaxTime -> "junk"
              [] c.stale /\ n = 0 -> "absent"
              [] c.level \notin {"nan", "event"} /\ ~(c.stale /\ n = 0) /\ c.falling -> "float"
              [] OTHER -> "digits",
   n |-> n]

JSONEnum(v, names, c) ==
  CASE c.level = "status" -> [num |-> Half, name |-> ""]
    [] c.level # "status" /\ c.falling /\ v # 0 -> [num |-> 0, name |-> names[v + 1]]
    [] OTHER -> [num |-> v, name |-> ""]

JSONItem(item, c) ==
  CASE c.signal = "traces" ->
         [trace |-> JSONId(item.trace, c), id |-> JSONId(item.id, c),
          parent |-> JSONId(item.parent, c), name |-> item.name,
          kind |-> JSONEnum(item.kind, spanKindNames, c),
          code |-> JSONEnum(item.code, statusCodeNames, c), message |-> item.message,
          start |-> JSONTime(item.start, c), end |-> JSONTime(item.end, c), attrs |-> JSONAttrs(item.attrs, c),
          events |-> [i \in DOMAIN item.events |->
             [time |-> IF c.level = "event" THEN JSONTime(MaxTime + 1, c)
                       ELSE JSONTime(item.events[i].time, c),
              name |-> item.events[i].name, attrs |-> JSONAttrs(item.events[i].attrs, c)]],
          links |-> [i \in DOMAIN item.links |->
             [trace |-> IF c.level = "link" THEN "zz" ELSE JSONId(item.links[i].trace, c),
              id |-> JSONId(item.links[i].id, c), attrs |-> JSONAttrs(item.links[i].attrs, c)]]]
    [] c.signal = "logs" ->
         [time |-> JSONTime(IF c.observed THEN 0 ELSE item.time, c),
          observed |-> JSONTime(CASE c.level = "event" -> -1
                                  [] c.level # "event" /\ item.time = 0 -> 0
                                  [] OTHER -> IF c.observed THEN item.time ELSE 7, c),
          severity |-> CASE c.level = "status" -> [num |-> -Half - 1, name |-> ""]
                         [] c.level # "status" /\ c.falling /\ item.severity = 9 ->
                              [num |-> 0, name |-> "INFO"]
                         [] OTHER -> [num |-> item.severity, name |-> ""],
          text |-> item.text, body |-> JSONValue(item.body, c),
          attrs |-> JSONAttrs(item.attrs, c),
          trace |-> JSONId(item.trace, c), id |-> JSONId(item.id, c)]
    [] c.signal = "metrics" -> item

JSON(c) ==
  [wellFormed |-> c.level # "request",
   doc |-> [r \in DOMAIN Tree(c) |->
     [attrs |-> JSONAttrs(Tree(c)[r].attrs, c),
      scopes |-> [s \in DOMAIN Tree(c)[r].scopes |->
        [scope |-> Tree(c)[r].scopes[s].scope,
         items |-> [i \in DOMAIN Tree(c)[r].scopes[s].items |->
                      JSONItem(Tree(c)[r].scopes[s].items[i], c)]]]]]]

-----------------------------------------------------------------------------
Levels == {"request", "block", "resource", "scope", "scopename", "item", "attr", "value",
           "list", "event", "link", "status"}

\* the levels a request of the signal has.  A metric is not read past its name,
\* so damage after it shows in the metric that has none.
ProtoLevels(c) ==
  CASE c.signal = "traces" -> Levels
    [] c.signal = "logs" -> Levels \ {"event", "link", "status"}
    [] OTHER -> {"request", "block", "scope", "item"}

JSONLevels(c) ==
  IF c.signal = "metrics" THEN {"request"}
  ELSE {"request", "item", "value", "event", "status"}
       \cup (IF c.signal = "traces" THEN {"link"} ELSE {"list"})

\* the demo exporter's bodies: what the JSON one says is what both mean
DemoExport(signal) ==
  [signal |-> signal, proto |-> protoBody(signal), protoOK |-> TRUE,
   json |-> [wellFormed |-> TRUE, doc |-> jsonBody(signal)], jsonOK |-> TRUE,
   jsonExact |-> TRUE,
   meaning |-> (CASE signal = "traces" -> DecodeTracesJSON(jsonBody(signal))
                  [] signal = "logs" -> DecodeLogsJSON(jsonBody(signal))
                  [] signal = "metrics" -> SummarizeMetricsJSON(jsonBody(signal))).v]

Export(c) == IF c.extra = 23 THEN DemoExport(c.signal) ELSE
  [signal |-> c.signal,
   proto |-> Proto(c), protoOK |-> c.level \notin ProtoLevels(c),
   json |-> JSON(c),
   jsonOK |-> c.level \notin JSONLevels(c) /\ c.extra # 20 /\ ~HasNaN(JSON(c).doc, c.signal),
   jsonExact |-> ~Rounds(JSON(c).doc, c.signal),
   meaning |-> Meant(c)]

Layout == [falling : BOOLEAN, noise : BOOLEAN, stale : BOOLEAN, observed : BOOLEAN]

Sound ==
  {[signal |-> s, ctx |-> x, scope |-> sc, level |-> "none", damage |-> "cut", first |-> FALSE,
    extra |-> 22]
     @@ l : s \in {"traces", "logs", "metrics"}, x \in {"service", "oddname", "none"},
            sc \in DOMAIN Scopes, l \in Layout}

Damaged ==
  {[signal |-> s, ctx |-> "service", scope |-> "both", level |-> v, damage |-> d, first |-> f,
    falling |-> o, noise |-> FALSE, stale |-> FALSE, observed |-> FALSE, extra |-> 22] :
     s \in {"traces", "logs", "metrics"}, v \in Levels \cup {"nan"}, d \in DOMAIN Damage,
     f \in BOOLEAN, o \in BOOLEAN}

Special ==
  {[signal |-> s, ctx |-> x, scope |-> "both", level |-> "none", damage |-> "cut",
    first |-> FALSE, falling |-> FALSE, noise |-> FALSE, stale |-> FALSE, observed |-> FALSE,
    extra |-> e] : s \in {"traces", "logs"}, x \in {"service", "twice"}, e \in {20, 21}}
  \cup
  {[signal |-> "traces", ctx |-> "service", scope |-> "none", level |-> "none", damage |-> "cut",
    first |-> FALSE, falling |-> FALSE, noise |-> FALSE, stale |-> FALSE, observed |-> FALSE,
    extra |-> e] : e \in 0..19}
  \cup
  {[signal |-> s, ctx |-> "service", scope |-> "both", level |-> "none", damage |-> "cut",
    first |-> FALSE, falling |-> f, noise |-> FALSE, stale |-> FALSE, observed |-> o,
    extra |-> e] : s \in {"traces", "logs"}, f, o \in BOOLEAN, e \in {21, 24}}
  \cup
  {[signal |-> "traces", ctx |-> "service", scope |-> "none", level |-> "none", damage |-> "cut",
    first |-> FALSE, falling |-> TRUE, noise |-> FALSE, stale |-> FALSE, observed |-> FALSE,
    extra |-> e] : e \in 15..19}
  \cup
  {[signal |-> s, ctx |-> "service", scope |-> "both", level |-> "none", damage |-> "cut",
    first |-> FALSE, falling |-> FALSE, noise |-> FALSE, stale |-> FALSE, observed |-> FALSE,
    extra |-> 23] : s \in {"traces", "logs", "metrics"}}

Exports == Sound \cup Damaged \cup Special

\* the switches in every combination, with and without the filters
Defaults ==
  [output |-> "pretty", color |-> "auto", noAttrs |-> FALSE, noEvents |-> FALSE,
   resource |-> FALSE, service |-> "", minDuration |-> 0, maxBody |-> 64, hostPort |-> TRUE,
   args |-> 0]

Wrong ==
  {[Defaults EXCEPT !.args = 1], [Defaults EXCEPT !.output = "xml"],
   [Defaults EXCEPT !.color = "blue"], [Defaults EXCEPT !.minDuration = -1],
   [Defaults EXCEPT !.maxBody = 0], [Defaults EXCEPT !.hostPort = FALSE]}

CommandLines ==
  Wrong
  \cup
  {[Defaults EXCEPT !.output = o, !.noAttrs = a, !.noEvents = e, !.resource = r] :
     o \in {"pretty", "compact", "json"}, a, e, r \in BOOLEAN}
  \cup
  {[Defaults EXCEPT !.output = o, !.resource = TRUE, !.service = s, !.minDuration = d] :
     o \in {"compact", "json"}, s \in {"", "shop", "nobody"}, d \in {0, 2, 3}}

\* a root span whose exporter sends its eight zero bytes of parent id
ZeroParent(c) ==
  [signal |-> "traces", protoOK |-> TRUE, json |-> [wellFormed |-> TRUE, doc |-> << >>],
   jsonOK |-> TRUE, jsonExact |-> TRUE, meaning |-> << >>,
   proto |-> <<Field(1, "bytes", <<Field(2, "bytes", <<Field(2, "bytes",
               <<Field(2, "bytes", "aa"), Field(4, "bytes", "00")>>)>>)>>)>>]

OneRoot == {"root"}
=============================================================================
