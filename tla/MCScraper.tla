----------------------------- MODULE MCScraper ------------------------------
(***************************************************************************)
(* Two workers whose answers meet in every way: the same series, other     *)
(* series of the same family, a family only one of them has, buckets that  *)
(* differ, labels that are empty, missing, reserved or have a comma in     *)
(* them, and families without a help text, converted and skipped.          *)
(***************************************************************************)
EXTENDS Scraper

L(name, value) == [name |-> name, value |-> value]
M(label, value) == [label |-> label, value |-> value]
H(label, count, sum, bucket) ==
  [label |-> label, count |-> count, sum |-> sum, bucket |-> bucket]
B(bound, n) == [bound |-> bound, n |-> n]

MCName == {"requests", "busy", "seconds", "sizes", "quantiles"}
MCTypeOf == [n \in MCName |-> CASE n \in {"requests", "sizes"} -> "counter"
                                [] n = "busy"      -> "gauge"
                                [] n = "seconds"   -> "histogram"
                                [] n = "quantiles" -> "other"]
MCHelped == {"requests", "busy", "seconds"}
MCRefused == MCHelped \X {<<"__id">>}

a == L("method", <<"a">>)
b == L("method", <<"b">>)
x == L("host", <<"x">>)

MCAnswer ==
  {("requests" :> <<M(<<a, x>>, 1), M(<<b, x>>, 2)>>) @@
     ("seconds" :> <<H(<<a>>, 5, 7, <<B(1, 2), B(2, 4), B(Inf, 5)>>)>>),
   ("requests" :> <<M(<<x, a>>, 4)>>) @@ ("busy" :> <<M(<<>>, 3)>>) @@
     ("quantiles" :> <<M(<<>>, 1)>>),
   ("busy" :> <<M(<<>>, 1)>>) @@
     ("seconds" :> <<H(<<b>>, 1, 1, <<B(1, 1), B(Inf, 1)>>),
                     H(<<a>>, 3, 2, <<B(2, 3), B(3, 3), B(Inf, 3)>>)>>),
   "busy" :> <<M(<<L("host", Empty)>>, 2)>>,
   "busy" :> <<M(<<L("host", <<"a", "b">>)>>, 2)>>,
   "busy" :> <<M(<<L("__id", <<"a">>)>>, 2)>>,
   "sizes" :> <<M(<<a>>, 1)>>}

MCMetric == UNION {UNION {Range(r[n]) : n \in DOMAIN r} : r \in MCAnswer}
=============================================================================
