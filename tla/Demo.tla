---------------------------------- MODULE Demo ----------------------------------
(***************************************************************************)
(* What the demo exporter (examples/sendspan) sends: one fixed export of   *)
(* each signal, as a protobuf message in the form of module Decode (fields *)
(* as they stand on the wire) and as a JSON document.  Times are counted   *)
(* from base in tenths of a millisecond, and the order's number is small.  *)
(***************************************************************************)
EXTENDS Integers, Sequences, SequencesExt

base == 100

-----------------------------------------------------------------------------
(* The writer: methods of enc, and what is built from them.                *)

str(num, s) == <<[num |-> num, wt |-> "bytes", readable |-> TRUE, val |-> s]>>
fixed64(num, v) == <<[num |-> num, wt |-> "fixed64", readable |-> TRUE, val |-> v]>>
uvarint(num, v) ==
  IF v = 0 THEN << >> ELSE <<[num |-> num, wt |-> "varint", readable |-> TRUE, val |-> v]>>
msg(num, parts) ==
  <<[num |-> num, wt |-> "bytes", readable |-> TRUE, val |-> FlattenSeq(parts)]>>

strAttr(num, key, val) == msg(num, <<str(1, key), msg(2, <<str(1, val)>>)>>)
intAttr(num, key, val) == msg(num, <<str(1, key), msg(2, <<uvarint(3, val)>>)>>)

checkoutResource ==
  msg(1, <<strAttr(1, "service.name", "checkout"), strAttr(1, "deployment.environment", "dev")>>)

writeSpan(s) ==
  msg(2, <<str(1, "trace"), str(2, s.id), IF s.parent = "" THEN << >> ELSE str(4, s.parent),
           str(5, s.name), uvarint(6, s.kind), fixed64(7, s.start), fixed64(8, s.end), s.fill,
           msg(15, <<IF s.message = "" THEN << >> ELSE str(2, s.message), uvarint(3, s.status)>>)>>)

spanSpec(id, parent, name, kind, start, end, status, message, fill) ==
  [id |-> id, parent |-> parent, name |-> name, kind |-> kind, start |-> base + start,
   end |-> base + end, status |-> status, message |-> message, fill |-> fill]

protoTraces ==
  msg(1, <<checkoutResource,
           msg(2, <<msg(1, <<str(1, "demo-instrumentation"), str(2, "1.0.0")>>),
    writeSpan(spanSpec("root", "", "GET /api/checkout", 2, 0, 1284, 1, "",
                strAttr(9, "http.request.method", "GET") \o strAttr(9, "http.route", "/api/checkout")
                \o intAttr(9, "http.response.status_code", 200))),
    writeSpan(spanSpec("cart", "root", "validate-cart", 1, 12, 133, 1, "",
                intAttr(9, "cart.items", 3))),
    writeSpan(spanSpec("db", "root", "SELECT carts", 3, 140, 227, 0, "",
                strAttr(9, "db.system.name", "postgresql"))),
    writeSpan(spanSpec("pay", "root", "POST /payments", 3, 300, 1189, 2, "card declined",
                strAttr(9, "http.request.method", "POST") \o strAttr(9, "peer.service", "payments")
                \o msg(11, <<fixed64(1, base + 702), str(2, "exception"),
                             strAttr(3, "exception.type", "PaymentDeclined")>>)))>>)>>)

protoLogs ==
  LET rec(t, sev, text, body, span) ==
        msg(2, <<fixed64(1, base + t), uvarint(2, sev), str(3, text), msg(5, <<str(1, body)>>),
                 intAttr(6, "order.id", 812), str(9, "trace"), str(10, span)>>)
  IN  msg(1, <<msg(1, <<strAttr(1, "service.name", "checkout")>>),
               msg(2, <<msg(1, <<str(1, "demo-instrumentation")>>),
                        rec(50, 9, "INFO", "order received", "root"),
                        rec(1190, 17, "ERROR", "payment failed", "pay")>>)>>)

protoMetrics ==
  msg(1, <<msg(1, <<strAttr(1, "service.name", "checkout")>>),
           msg(2, <<msg(2, <<str(1, "http.server.request.duration")>>),
                    msg(2, <<str(1, "cart.items.count")>>)>>)>>)

protoBody(signal) ==
  CASE signal = "traces" -> protoTraces
    [] signal = "logs" -> protoLogs
    [] signal = "metrics" -> protoMetrics

-----------------------------------------------------------------------------
(* The JSON documents, as json.Unmarshal reads them.                       *)

Digits(n) == [form |-> "digits", n |-> n]
Number(n) == [num |-> n, name |-> ""]
StringAttr(key, s) == [key |-> key, value |-> [string |-> s]]
IntAttr(key, n) == [key |-> key, value |-> [int |-> n]]

JSONSpan(id, parent, name, kind, start, end, status, message, attrs, events) ==
  [trace |-> "trace", id |-> id, parent |-> parent, name |-> name, kind |-> Number(kind),
   start |-> Digits(base + start), end |-> Digits(base + end), attrs |-> attrs,
   events |-> events, links |-> << >>, code |-> Number(status), message |-> message]

Document(resource, scope, items) ==
  <<[attrs |-> resource, scopes |-> <<[scope |-> scope, items |-> items]>>]>>

tracesJSON ==
  Document(<<StringAttr("service.name", "checkout"), StringAttr("deployment.environment", "dev")>>,
           <<"demo-instrumentation", "1.0.0">>,
    <<JSONSpan("root", "", "GET /api/checkout", 2, 0, 1284, 1, "",
        <<StringAttr("http.request.method", "GET"), StringAttr("http.route", "/api/checkout"),
          IntAttr("http.response.status_code", 200)>>, << >>),
      JSONSpan("cart", "root", "validate-cart", 1, 12, 133, 1, "",
        <<IntAttr("cart.items", 3)>>, << >>),
      JSONSpan("db", "root", "SELECT carts", 3, 140, 227, 0, "",
        <<StringAttr("db.system.name", "postgresql")>>, << >>),
      JSONSpan("pay", "root", "POST /payments", 3, 300, 1189, 2, "card declined",
        <<StringAttr("http.request.method", "POST"), StringAttr("peer.service", "payments")>>,
        <<[time |-> Digits(base + 702), name |-> "exception",
           attrs |-> <<StringAttr("exception.type", "PaymentDeclined")>>]>>)>>)

logsJSON ==
  LET rec(t, sev, text, body, span) ==
        [time |-> Digits(base + t), observed |-> Digits(0), severity |-> Number(sev),
         text |-> text, body |-> [string |-> body], attrs |-> <<IntAttr("order.id", 812)>>,
         trace |-> "trace", id |-> span]
  IN  Document(<<StringAttr("service.name", "checkout")>>, <<"demo-instrumentation", "">>,
        <<rec(50, 9, "INFO", "order received", "root"),
          rec(1190, 17, "ERROR", "payment failed", "pay")>>)

metricsJSON ==
  Document(<<StringAttr("service.name", "checkout")>>, <<"", "">>,
           <<"http.server.request.duration", "cart.items.count">>)

jsonBody(signal) ==
  CASE signal = "traces" -> tracesJSON
    [] signal = "logs" -> logsJSON
    [] signal = "metrics" -> metricsJSON
=============================================================================
