--------------------------- MODULE WriteCoercion ---------------------------
(***************************************************************************)
(* What becomes of a value that an operator enters for a variable, told    *)
(* twice: by the panel, before it sends it (hooks/useWriteVariable.ts and  *)
(* utils/opcuaWriteCoercion.ts), and by the backend, before it writes it   *)
(* (services/write_service.py).                                            *)
(*                                                                         *)
(* Numbers are the names of landmarks on an axis: the limits of the types, *)
(* of the integers that a JavaScript number holds exactly and of the       *)
(* ranges, and a fraction with the float32 next to it.  JavaScript writes  *)
(* a double from 2^53 on with the shortest digits that round to it: those  *)
(* of 2^63 are 9223372036854776000, "2^63-in-JSON", another number.        *)
(***************************************************************************)
EXTENDS Naturals, Sequences, SequencesExt

CONSTANT Unset   \* no bound is configured
ASSUME UnsetAssumption == Unset \notin STRING

Axis == <<"-1e30", "-2^63-in-JSON", "-2^63", "-2^53", "-2^31", "-1", "0", "1",
          "19.9 as float32", "19.9", "255", "256", "2^31-1", "2^31", "2^53-1", "2^53",
          "2^63-1", "2^63", "2^63-in-JSON", "2^64-1", "2^64", "2^64-in-JSON", "1e39", "1e400">>
Numbers == ToSet(Axis)
Rank == [n \in Numbers |-> CHOOSE i \in DOMAIN Axis : Axis[i] = n]
InOrder(m, n) == Rank[m] <= Rank[n]

Whole == Numbers \ {"19.9 as float32", "19.9"}
Safe(n) == InOrder("-2^31", n) /\ InOrder(n, "2^53-1")
Finite(n) == n # "1e400"

(* A JavaScript number and a Python float are doubles.                     *)
Double(n) ==
    CASE n \in {"2^63-1", "2^63-in-JSON"} -> "2^63" [] n \in {"2^64-1", "2^64-in-JSON"} -> "2^64"
      [] n = "-2^63-in-JSON" -> "-2^63" [] OTHER -> n
Float32(n) ==
    CASE n = "19.9" -> "19.9 as float32" [] n = "2^31-1" -> "2^31"
      [] n = "2^53-1" -> "2^53" [] OTHER -> Double(n)

(* A value on its own.  What is entered, sent and written is a sequence of *)
(* them that says whether it is an array.                                  *)
Number(n) == [kind |-> "number", is |-> n]
IntegerText(n) == [kind |-> "integer text", is |-> n]  \* the digits of n
DecimalText(n) == [kind |-> "decimal text", is |-> n]  \* with a point or an exponent
Word(w) == [kind |-> "word", is |-> w]
Boolean(b) == [kind |-> "boolean", is |-> b]
Null == [kind |-> "null", is |-> ""]
Object == [kind |-> "object", is |-> ""]
NotANumber == [kind |-> "number", is |-> "NaN"]
Refused(reason) == [kind |-> "refused", is |-> reason]

One(v) == [array |-> FALSE, items |-> <<v>>]
Array(items) == [array |-> TRUE, items |-> items]
IsText(v) == v.kind \in {"word", "integer text", "decimal text"}
IsNumeric(v) == v.kind \in {"number", "integer text", "decimal text"}

(* What can be entered, alone and together.                                *)
JsNumbers == {n \in Numbers : Double(n) = n}
Scalars ==
    [kind : {"number"}, is : JsNumbers \cup {"NaN"}] \cup {Null, Object}
        \cup [kind : {"integer text"}, is : Whole] \cup [kind : {"decimal text"}, is : Numbers]
        \cup [kind : {"word"}, is : STRING] \cup [kind : {"boolean"}, is : {"true", "false"}]
Payloads == {p \in [array : BOOLEAN, items : Seq(Scalars)] : p.array \/ Len(p.items) = 1}

Yes == {Boolean("true"), Number("1"), IntegerText("1"), Word("true"), Word("on")}
No == {Boolean("false"), Number("0"), IntegerText("0"), Word("false"), Word("off")}
Moments == {Word("2026-01-31T10:00:00Z")}

IntegerTypes == {"byte", "int32", "int64", "uint64"}
Least == [byte |-> "0", int32 |-> "-2^31", int64 |-> "-2^63", uint64 |-> "0"]
Greatest == [byte |-> "255", int32 |-> "2^31-1", int64 |-> "2^63-1", uint64 |-> "2^64-1"]
FloatTypes == {"float", "double", "duration"}
NumericTypes == IntegerTypes \cup FloatTypes
Types == {"boolean", "string", "datetime"} \cup NumericTypes
Fits(n, type) == InOrder(Least[type], n) /\ InOrder(n, Greatest[type])

(* The descriptor of a variable in the registry: the type that a browse    *)
(* found, the one the server has, its shape, the element that the binding  *)
(* names ("none" for the whole), its range and access.  "knows" is what    *)
(* the panel has of it: its metadata, for the field of an element of a     *)
(* struct array only its range, or nothing yet.                            *)
(* Only numbers have a range.  Its bounds are the numbers of their JSON    *)
(* text, which the backend holds whole.                                    *)
Entries ==
    {e \in [label : STRING, wire : STRING, array : BOOLEAN, length : Nat,
            index : {"none", "inside", "beyond"}, min : Numbers \cup {Unset},
            max : Numbers \cup {Unset}, writable : BOOLEAN,
            knows : {"metadata", "range", "nothing"}] :
        e.min # Unset \/ e.max # Unset => e.label \in NumericTypes}

RangeBounds(entry) ==
    IF entry.min # Unset /\ entry.max # Unset /\ ~InOrder(entry.min, entry.max)
    THEN [entry EXCEPT !.min = Unset, !.max = Unset] ELSE entry

InRange(n, entry) ==
    LET bounds == RangeBounds(entry)
    IN  /\ bounds.min = Unset \/ InOrder(bounds.min, n)
        /\ bounds.max = Unset \/ InOrder(n, bounds.max)

Each(items, Convert(_)) == [i \in DOMAIN items |-> Convert(items[i])]
IsRefused(payload) == \E i \in DOMAIN payload.items : payload.items[i].kind = "refused"
FirstRefusal(items) ==
    items[CHOOSE i \in DOMAIN items :
             items[i].kind = "refused" /\ \A j \in 1..(i - 1) : items[j].kind # "refused"]

(* All the items, or the first refusal.                                    *)
Collected(payload, items) ==
    LET all == [payload EXCEPT !.items = items]
    IN  IF IsRefused(all) THEN One(FirstRefusal(items)) ELSE all
Gathered(payload, Convert(_)) == Collected(payload, Each(payload.items, Convert))

(* What both sides make alike of a value that is neither null nor an       *)
(* object.                                                                 *)
AsBoolean(v) ==
    IF v \in Yes THEN Boolean("true")
    ELSE IF v \in No THEN Boolean("false") ELSE Refused("invalid_boolean")

AsFloat(v, type) ==
    IF ~IsNumeric(v) THEN Refused("invalid_float")
    ELSE IF ~Finite(v.is) THEN Refused("non_finite_float")
    ELSE IF type = "float" /\ v.is = "1e39" THEN Refused("float_out_of_range")
    ELSE Number(Double(v.is))

(* The digits that both write of a number: those of its JSON text.         *)
Digits(n) ==
    CASE n = "2^63" -> "2^63-in-JSON" [] n = "2^64" -> "2^64-in-JSON"
      [] n = "-2^63" -> "-2^63-in-JSON" [] OTHER -> n
AsText(v) ==
    IF IsText(v) THEN v
    ELSE IF v.kind = "boolean" THEN Word(v.is)
    ELSE IF v.is \in Whole \ {"-1e30", "1e39"} THEN IntegerText(Digits(v.is))
    ELSE DecimalText(v.is)

AsMoment(v) == IF v \in Moments THEN v ELSE Refused("invalid_temporal")

(* Shape, before any value.                                                *)
Shaped(payload, entry, length) ==
    LET whole == entry.index = "none" /\ entry.array
    IN  IF entry.index # "none" /\ ~entry.array THEN One(Refused("invalid_descriptor"))
        ELSE IF entry.index = "beyond" /\ length > 0
             THEN One(Refused("array_index_out_of_bounds"))
        ELSE IF whole /\ ~payload.array THEN One(Refused("array_required"))
        ELSE IF whole /\ length > 0 /\ Len(payload.items) # length
             THEN One(Refused("array_length_mismatch"))
        ELSE IF ~whole /\ payload.array THEN One(Refused("scalar_required"))
        ELSE payload

-----------------------------------------------------------------------------
(* The panel.                                                              *)

(* integerValue: a number beyond +-(2^53-1) travels as its digits.         *)
PanelInteger(v, type) ==
    IF v.kind \notin {"number", "integer text"} THEN Refused("invalid_integer")
    ELSE IF v.kind = "number" /\ (v.is \notin Whole \/ ~Safe(v.is))
         THEN Refused("lossy_conversion")
    ELSE IF ~Fits(v.is, type) THEN Refused("integer_out_of_range")
    ELSE IF Safe(v.is) THEN Number(v.is) ELSE IntegerText(v.is)

PanelScalar(v, type) ==
    IF v.kind = "null" THEN Refused("null_not_allowed")
    ELSE IF v.kind = "object" THEN Refused("scalar_required")
    ELSE IF type = "boolean" THEN AsBoolean(v)
    ELSE IF type \in IntegerTypes THEN PanelInteger(v, type)
    ELSE IF type \in FloatTypes
         THEN IF v = NotANumber THEN Refused("non_finite_float") ELSE AsFloat(v, type)
    ELSE IF type = "string"
         THEN IF v = NotANumber \/ (v.kind = "number" /\ ~Finite(v.is))
              THEN Refused("invalid_string") ELSE AsText(v)
    ELSE AsMoment(v)

(* coerceOpcuaWrite.  The range is judged before a float32 is rounded.     *)
CoerceOpcuaWrite(payload, entry, type) ==
    LET coerced == Gathered(Shaped(payload, entry, entry.length),
                            LAMBDA v : IF v.kind = "refused" THEN v ELSE PanelScalar(v, type))
        Judged(v) == IF v.kind = "number" \/ (v.kind = "integer text" /\ type # "string")
                     THEN IF InRange(v.is, entry) THEN v ELSE Refused("value_out_of_range")
                     ELSE v
        Rounded(v) == IF type = "float" THEN Number(Float32(v.is)) ELSE v
        judged == IF IsRefused(coerced) THEN coerced ELSE Gathered(coerced, Judged)
    IN  IF IsRefused(judged) THEN judged ELSE Gathered(judged, Rounded)

(* The metadata names simple types, which hide the width: the panel checks *)
(* against the widest (WIDEST_FOR_SIMPLE).                                 *)
SimpleType(label) ==
    CASE label \in IntegerTypes \ {"byte"} -> "integer"
      [] label \in {"float", "double"} -> "float"
      [] label \notin Types -> "string"
      [] OTHER -> label
AsItIs(simple) == IF simple = "integer" THEN "int32" ELSE simple
WidestForSimple(simple) ==
    CASE simple = "integer" -> "int64" [] simple = "float" -> "double" [] OTHER -> simple

(* preflight: an Integer may be a UInt64 too.                              *)
Preflight(payload, entry) ==
    LET type == WidestForSimple(SimpleType(entry.label))
        coerced == CoerceOpcuaWrite(payload, entry, type)
    IN  IF type = "int64" /\ coerced = One(Refused("integer_out_of_range"))
        THEN CoerceOpcuaWrite(payload, entry, "uint64") ELSE coerced

(* What the panel has of the descriptor: in JavaScript every number that   *)
(* comes as JSON is a double, the bounds of the range too.                 *)
AsDouble(bound) == IF bound = Unset THEN Unset ELSE Double(bound)
PanelEntry(entry) ==
    [entry EXCEPT !.min = AsDouble(entry.min), !.max = AsDouble(entry.max)]

(* outOfRange, for a field whose type the panel does not know.             *)
OutOfRange(payload, entry) ==
    LET v == payload.items[1]
    IN  /\ ~payload.array
        /\ \/ v.kind = "number" /\ v # NotANumber
           \/ v.kind = "integer text" /\ ~Safe(v.is)
        /\ ~InRange(v.is, entry)

(* What the writer of useWriteVariable sends, or why it does not.          *)
Sent(payload, entry) ==
    IF entry.knows = "metadata"
    THEN IF entry.writable THEN Preflight(payload, PanelEntry(entry)) ELSE One(Refused("read_only"))
    ELSE IF entry.knows = "range" /\ OutOfRange(payload, PanelEntry(entry))
    THEN One(Refused("value_out_of_range"))
    ELSE payload

(* JSON has no NaN and no infinity.                                        *)
Framed(payload) ==
    Gathered(payload, LAMBDA v : IF v = NotANumber \/ (v.kind = "number" /\ ~Finite(v.is))
                                 THEN Null ELSE v)

-----------------------------------------------------------------------------
(* The backend.                                                            *)

BackendInteger(v, type) ==
    IF v.kind \notin {"number", "integer text"} THEN Refused("invalid_integer")
    ELSE IF v.kind = "number" /\ (v.is \notin Whole \/ ~Safe(v.is))
         THEN Refused("lossy_conversion")
    ELSE IF ~Fits(v.is, type) THEN Refused("integer_out_of_range")
    ELSE Number(v.is)

(* _coerce_scalar.                                                         *)
CoerceScalar(v, type) ==
    IF v.kind = "null" THEN Refused("null_not_allowed")
    ELSE IF v.kind = "object" THEN Refused("scalar_required")
    ELSE IF type = "string" THEN AsText(v)
    ELSE IF type = "datetime" THEN AsMoment(v)
    ELSE IF type = "boolean" THEN AsBoolean(v)
    ELSE IF type \in IntegerTypes THEN BackendInteger(v, type)
    ELSE IF type \in FloatTypes THEN AsFloat(v, type)
    ELSE Refused("unknown_type")

(* The server's own type wins where it contradicts the configured one; a   *)
(* duration travels as a double and refines it (_wire_data_type).          *)
VariantType(type) == IF type = "duration" THEN "double" ELSE type
WireDataType(entry) ==
    IF entry.wire \in Types /\ VariantType(entry.label) # entry.wire
    THEN entry.wire ELSE entry.label

(* coerce_entry_write_value.                                               *)
CoerceEntryWriteValue(payload, entry) ==
    LET type == WireDataType(entry)
        coerced == Gathered(Shaped(payload, entry, entry.length),
                            LAMBDA v : IF v.kind = "refused" THEN v ELSE CoerceScalar(v, type))
        Judged(v) == IF v.kind = "number" /\ ~InRange(v.is, entry)
                     THEN Refused("value_out_of_range") ELSE v
        Stored(v) == IF type = "float" THEN Number(Float32(v.is)) ELSE v
        judged == IF IsRefused(coerced) THEN coerced ELSE Gathered(coerced, Judged)
    IN  IF type \notin Types THEN One(Refused("unknown_type"))
        ELSE IF IsRefused(judged) THEN judged ELSE Gathered(judged, Stored)

(* What write_value makes of the value of a frame.                         *)
Written(payload, entry) ==
    IF entry.writable THEN CoerceEntryWriteValue(payload, entry) ELSE One(Refused("read_only"))
=============================================================================
