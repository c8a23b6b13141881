---------------------------- MODULE MetricText -----------------------------
(***************************************************************************)
(* Metric::value_ is a string.  What is stored for a typed value, what the *)
(* payload makers of MqttTopic print for it, and what the typed readers of *)
(* Metric make of a string, be it stored by a writer or received.          *)
(*                                                                         *)
(* A string is its form and a datum: the number it denotes, 1 or 0 for the *)
(* words true and false, the identity of any other string.  Plain strings  *)
(* do not begin like a number or an affirmative word.  Numbers fit an int  *)
(* of the code, and no negative one is stored for an unsigned type.        *)
(* Floating-point values, which are printed as they are stored, are left   *)
(* out.                                                                    *)
(***************************************************************************)
EXTENDS Integers

Form == {"empty", "number", "word", "plain", "quoted", "star"}

Text(form, datum) == [form |-> form, datum |-> datum]

Empty == Text("empty", 0)
Star == Text("star", 0)
Number(n) == Text("number", n)
Word(b) == Text("word", IF b THEN 1 ELSE 0)

Signed == {"Int8", "Int64"}
Unsigned == {"UInt8", "UInt64"}
Integral == Signed \cup Unsigned

\* The values of a type; 64 bits hold every number.  False is 0, true is 1.
Fits(type, v) ==
  \/ type = "Int8" /\ v \in -128..127
  \/ type = "UInt8" /\ v \in 0..255
  \/ type = "Int64" /\ v \in Int
  \/ type = "UInt64" /\ v \in Nat
  \/ type = "Boolean" /\ v \in {0, 1}

\* Metric::Value(v) of the types: to_string, "1" and "0", the string itself
Stored(type, v) == IF type = "String" THEN Text("plain", v) ELSE Number(v)

-----------------------------------------------------------------------------
(* The typed readers, Metric::Value<T>().                                  *)

\* istringstream >> leaves zero for what is no number; also for unsigned types.
ToInt64(text) == IF text.form = "number" THEN text.datum ELSE 0

\* Mutant: the sign bit is not restored.
ToInt8Unsigned(text) == IF text.form = "number" THEN text.datum % 256 ELSE 0

\* stoi, then static_cast<int8_t>
ToInt8(text) ==
  IF text.form = "number" THEN ((text.datum + 128) % 256) - 128 ELSE 0

\* stoul, then static_cast<uint8_t>
ToUInt8(text) == IF text.form = "number" THEN text.datum % 256 ELSE 0

\* The first character is one of Y y T t 1.
PowersOfTen ==
  {1, 10, 100, 1000, 10000, 100000, 1000000, 10000000, 100000000, 1000000000}

ToBool(text) ==
  \/ text.form = "word" /\ text.datum = 1
  \/ text.form = "number" /\ \E p \in PowersOfTen : text.datum \div p = 1

\* What Value<T>() returns; a string is returned as it is.
Read(type, text) ==
  IF type = "Int8" THEN ToInt8(text)
  ELSE IF type = "UInt8" THEN ToUInt8(text)
  ELSE IF type \in Integral THEN ToInt64(text)
  ELSE IF type = "Boolean" THEN (IF ToBool(text) THEN 1 ELSE 0)
  ELSE text

-----------------------------------------------------------------------------
(* What a message shows of a metric.                                       *)

\* MakeTextBody, for one metric; only plain strings are quoted here.
TextOf(type, text) ==
  IF type \in Integral THEN Number(ToInt64(text))
  ELSE IF type = "Boolean" THEN Word(ToBool(text))
  ELSE Text("quoted", text.datum)

\* A value in a JSON body: its kind, and the string in it
Json(kind, text) == [kind |-> kind, text |-> text]
JsonKind ==
  {"null", "string", "boolean", "number_integer", "number_unsigned", "number_float",
   "structure"}

JsonNumber(n) ==
  Json(IF n < 0 THEN "number_integer" ELSE "number_unsigned", Number(n))

\* MakeJsonBody, for one metric
JsonOf(type, text) ==
  IF type \in Integral THEN JsonNumber(ToInt64(text))
  ELSE IF type = "Boolean" THEN Json("boolean", Word(ToBool(text)))
  ELSE Json("string", text)

JsonNull == Json("null", Empty)

\* How HandleJsonBody types a metric that has no type
TypeOfKind ==
  [string |-> "String", boolean |-> "Boolean",
   number_integer |-> "Int64", number_unsigned |-> "UInt64", number_float |-> "Double"]
=============================================================================
