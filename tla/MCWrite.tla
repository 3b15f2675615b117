------------------------------ MODULE MCWrite ------------------------------
(* Every type with its documented mislabels, every shape, three ranges,    *)
(* and values of every kind at the landmarks that they can stand for.      *)
EXTENDS WritePath, TLC

CONSTANTS r1, r2

Entered ==
    {Number(n) : n \in JsNumbers} \cup {NotANumber, Null, Object}
        \cup {IntegerText(n) : n \in Whole \ {"1e400"}}
        \cup {DecimalText(n) : n \in {"1", "19.9", "1e39", "1e400"}}
        \cup Yes \cup No \cup Moments \cup {Word("other")}

ArrayItems == {Number("1"), Number("19.9"), IntegerText("2^64-1"), Null}
Arrays == {Array(<<>>)} \cup {Array(<<v>>) : v \in ArrayItems}
              \cup {Array(<<v, w>>) : v, w \in ArrayItems}
Few == {One(v) : v \in ArrayItems \cup {Object}} \cup Arrays

Plain ==
    [array |-> FALSE, length |-> 0, index |-> "none", min |-> Unset, max |-> Unset,
     writable |-> TRUE, knows |-> "metadata"]
Of(named, real, rest) == [label |-> named, wire |-> real] @@ rest

Typed ==
    {Of(l, "unknown", Plain) : l \in Types \cup {"Unknown"}}
        \cup {Of("Unknown", w, Plain) : w \in {"boolean", "int64", "double", "datetime"}}
        \cup {Of("float", "double", Plain), Of("double", "float", Plain)}

Ranged ==
    {Of(l, "unknown", [Plain EXCEPT !.min = lo, !.max = hi, !.knows = k]) :
        l \in {"byte", "int64", "float"}, lo \in {Unset, "19.9"}, hi \in {"1", "255", "2^53"},
        k \in {"metadata", "range"}}

Others ==
    {Of(l, "unknown", [Plain EXCEPT !.array = TRUE, !.length = n, !.index = i]) :
        l \in {"int64", "float", "boolean"}, n \in {0, 2}, i \in {"none", "inside", "beyond"}}
        \cup {Of("float", "unknown", [Plain EXCEPT !.index = "inside"]),
              Of("int32", "unknown", [Plain EXCEPT !.writable = FALSE]),
              Of("int32", "unknown", [Plain EXCEPT !.writable = FALSE, !.knows = "nothing"])}

Near == {"0", "1", "255", "256", "2^53-1", "2^53"}
NearBounds ==
    {One(Number(n)) : n \in Near \cup {"19.9"}} \cup {One(IntegerText(n)) : n \in Near}
        \cup {One(DecimalText("19.9")), One(NotANumber)}

(* Bounds at 2^63, of which a double is nearest to several.                *)
High ==
    {Of(l, "unknown", [Plain EXCEPT !.min = lo, !.max = hi, !.knows = k]) :
        l \in {"uint64", "float"}, lo \in {Unset, "2^63", "2^63-in-JSON"},
        hi \in {Unset, "2^63-1", "2^63", "2^63-in-JSON"}, k \in {"metadata", "range"}}
AtHighBounds ==
    {One(IntegerText(n)) : n \in {"2^53-1", "2^63-1", "2^63", "2^63-in-JSON"}}
        \cup {One(Number(n)) : n \in {"1", "2^63"}}

MCCases ==
    [entry : High, value : AtHighBounds]
        \cup [entry : Typed, value : {One(v) : v \in Entered}]
        \cup [entry : Ranged, value : NearBounds]
        \cup [entry : Others, value : Few]
=============================================================================
