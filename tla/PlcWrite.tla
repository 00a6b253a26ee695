------------------------------ MODULE PlcWrite ------------------------------
(***************************************************************************)
(* write_variable of the gateway's OPC UA client: the payload is converted *)
(* to the type of the PLC's variable, as far as that can be read, and      *)
(* written; a server that rejects the first form of the write is tried     *)
(* with up to three others.  A bridge rule makes the payload from the text *)
(* of a message.                                                           *)
(*                                                                         *)
(* Numbers are counted in tenths, so that 21.9 is 219.  Int16 stands for   *)
(* the signed types that Python's int is not written as by default, UInt16 *)
(* for the unsigned ones; the widths are scaled down.                      *)
(***************************************************************************)
EXTENDS Integers

CONSTANTS
    Payloads,        \* Python values
    Messages,        \* texts of messages
    MaxInt, MaxUInt  \* the largest Int16 and UInt16

\* Types of variables; Byte stands for those the code does not list
NodeTypes == {"Boolean", "Int16", "Int64", "UInt16", "Float", "Double", "String", "Byte"}
Integral == {"Int16", "Int64", "UInt16"}
\* and of values, which may also be None or a list
Types == NodeTypes \cup {"Null", "Array"}

\* A Python value: a number, a bool (v is 0 or 1), a text that reads as a
\* number, another text (v = 1 for "true", "on" and "yes"), None, a list or a
\* dict.  (nan and the infinities are left out.)
Kinds == {"int", "float", "bool", "digits", "text", "null", "list", "object"}

Num(k, x) == [kind |-> k, v |-> x]
Object == Num("object", 0)

\* _coerce_payload_value: what JSON makes of the text, of an object its first
\* field of three names (also of "Name = {...}"); otherwise the number that
\* Python reads in it, or the text itself
Coerced(m) ==
    CASE m.form = "json" -> m.value
      [] m.form = "plain" ->
           IF m.value.kind = "digits" THEN Num("float", m.value.v) ELSE m.value
      [] m.form = "object" ->
           LET named == DOMAIN m.fields IN
           IF "value" \in named THEN m.fields["value"]
           ELSE IF "temperature" \in named THEN m.fields["temperature"]
           ELSE IF "data" \in named THEN m.fields["data"]
           ELSE Object

ASSUME PayloadAssumption ==
    /\ MaxInt \in Nat /\ MaxUInt \in Nat
    /\ \A p \in Payloads : p.kind \in Kinds /\ p.v \in Int
    /\ \A p \in Payloads : p.kind = "int" => p.v % 10 = 0
    /\ \A p \in Payloads : p.kind \in {"bool", "text"} => p.v \in {0, 10}
    /\ \A p \in Payloads : p.kind \in {"null", "list", "object"} => p.v = 0
    /\ \A m \in Messages : Coerced(m) \in Payloads

VARIABLES
    node,      \* type of the PLC's variable
    valueOnly, \* the server rejects values with a status or time stamps
    stored,    \* history: what the PLC's variable was set to by this call
    payload,   \* value
    typed,     \* typed_value
    variant,   \* the type it is written as
    step,      \* where the call is
    lost       \* history: an answer of the server was lost

writeVars == <<node, valueOnly, stored, payload, typed, variant, step, lost>>

Nothing == [kind |-> "none", v |-> 0]
WriteSteps == {"idle", "convert", "set", "raw", "attribute", "auto", "last", "ok", "error"}

NoWrite ==
    /\ node = "Float" /\ valueOnly = FALSE /\ stored = Nothing /\ payload = Nothing
    /\ typed = Nothing /\ variant = "Float" /\ step = "idle" /\ lost = FALSE

\* Without a connection, or a node of that id, the call ends at once
StartWrite(p) ==
    /\ payload' = p
    /\ node' \in NodeTypes /\ valueOnly' \in BOOLEAN
    /\ stored' = Nothing /\ typed' = Nothing /\ variant' = "Float" /\ lost' = FALSE
    /\ step' \in {"convert", "error"}

EndWrite ==
    /\ node' = "Float" /\ valueOnly' = FALSE /\ stored' = Nothing /\ payload' = Nothing
    /\ typed' = Nothing /\ variant' = "Float" /\ step' = "idle" /\ lost' = FALSE

-----------------------------------------------------------------------------
(* Conversion *)

\* int(x): towards zero
Trunc(x) == IF x >= 0 THEN (x \div 10) * 10 ELSE -(((-x) \div 10) * 10)

\* int(value) and float(value) raise unless it is a number or reads as one
FloatFails(p) == p.kind \in {"text", "null", "list", "object"}
IntFails(p)   == FloatFails(p) \/ (p.kind = "digits" /\ p.v % 10 # 0)

\* Of what is not a number, only some words and "1" are true
Truth(p) == Num("bool", IF p.kind = "digits" THEN IF p.v = 10 THEN 10 ELSE 0
                        ELSE IF p.v # 0 THEN 10 ELSE 0)

ConvertFails(p, t) ==
    \/ t \in Integral /\ IntFails(p)
    \/ t \in {"Float", "Double"} /\ FloatFails(p)
    \/ t = "Byte" /\ p.kind = "null"

Converted(p, t) ==
    CASE t = "Boolean" -> Truth(p)
      [] t \in Integral -> Num("int", Trunc(p.v))
      [] t \in {"Float", "Double"} -> Num("float", p.v)
      [] t = "String" -> Num("text", p.v)
      [] t = "Byte" -> IF p.kind \in {"int", "float", "bool"} THEN Num("float", p.v) ELSE p

\* The type the library gives a value without one
Inferred(x) ==
    CASE x.kind = "bool" -> "Boolean"
      [] x.kind = "int" -> "Int64"
      [] x.kind = "float" -> "Double"
      [] x.kind = "null" -> "Null"
      [] x.kind = "list" -> "Array"
      [] OTHER -> "String"

\* The type is read and the value converted to it; if either fails, to Float,
\* and if that fails the value is written as it is, if it is of any type
Convert ==
    /\ step = "convert"
    /\ \E readable \in BOOLEAN :
         IF readable /\ ~ConvertFails(payload, node)
         THEN typed' = Converted(payload, node) /\ variant' = node /\ step' = "set"
         ELSE IF ~FloatFails(payload)
         THEN typed' = Num("float", payload.v) /\ variant' = "Float" /\ step' = "set"
         ELSE /\ typed' = payload /\ variant' = Inferred(payload)
              /\ step' = IF payload.kind = "object" THEN "error" ELSE "set"
    /\ UNCHANGED <<node, valueOnly, stored, payload, lost>>

-----------------------------------------------------------------------------
(* Writing *)

\* The library encodes a number only if it fits the type
Fits(x, t) ==
    /\ t = "Int16" => -MaxInt <= x.v /\ x.v <= MaxInt
    /\ t = "UInt16" => 0 <= x.v /\ x.v <= MaxUInt
    /\ t # "Byte"

Results == {"good", "applied", "unseen", "notSupported", "mismatch", "fails"}

\* What a write of x as type t may come to.  An answer that is lost was lost
\* on the way to the server ("unseen") or on the way back ("applied").
Answers(x, t, bare) ==
    {a \in Results :
        /\ a = "fails" <=> ~Fits(x, t)
        /\ a = "notSupported" => valueOnly /\ ~bare
        /\ a = "mismatch" => t # node
        /\ a \in {"good", "applied"} => t = node /\ (bare \/ ~valueOnly)}

\* One write, and where the call goes on after its answer
Attempt(x, t, bare, after) ==
    \E a \in Answers(x, t, bare) :
        /\ stored' = IF a \in {"good", "applied"} THEN x ELSE stored
        /\ lost' = (lost \/ a = "applied")
        /\ step' = after[a]
        /\ UNCHANGED <<node, valueOnly, payload, typed, variant>>

OkOr(other) == [a \in Results |-> IF a = "good" THEN "ok" ELSE other]

\* Which error it was decides what is tried next
AfterSet == [OkOr("error") EXCEPT !["notSupported"] = "raw", !["mismatch"] = "auto"]

SetValue == step = "set" /\ Attempt(typed, variant, FALSE, AfterSet)

\* Method 1: the value only
WriteRaw == step = "raw" /\ Attempt(typed, variant, TRUE, OkOr("attribute"))

\* Method 2: a DataValue with nothing but the value in it, which the server
\* may take for the one or for the other
SetAttribute ==
    /\ step = "attribute"
    /\ \E bare \in BOOLEAN : Attempt(typed, variant, bare, OkOr("last"))

\* Mutant: the answer to the last form is not looked at.
SetInferredBlind ==
    /\ step \in {"last", "auto"}
    /\ Attempt(typed, Inferred(typed), FALSE, [a \in Results |-> "ok"])

\* Method 3, and the answer to a type mismatch: the library chooses the type
SetInferred ==
    /\ step \in {"last", "auto"}
    /\ Attempt(typed, Inferred(typed), FALSE, OkOr("error"))

WriteStep == Convert \/ SetValue \/ WriteRaw \/ SetAttribute \/ SetInferred

-----------------------------------------------------------------------------
(* What a write promises *)

\* x says of a variable of type t what the number p says: the same number, cut
\* towards zero for an integral type, and whether it is zero for a Boolean
Carries(x, p, t) ==
    IF t \in Integral
    THEN x.v % 10 = 0 /\ (IF p.v >= 0 THEN p.v - x.v \in 0..9 ELSE x.v - p.v \in 0..9)
    ELSE IF t = "Boolean" THEN x.v # 0 <=> p.v # 0
    ELSE x.v = p.v

\* A call that reports success has set the variable to its payload's number;
\* one that reports an error, none of whose answers was lost, has set nothing
\* (opcua_client_service.py:202-275)
WriteTruthful ==
    /\ step = "ok" => stored # Nothing
    /\ step = "ok" /\ payload.kind \in {"int", "float", "bool"} => Carries(stored, payload, node)
    /\ step = "error" /\ ~lost => stored = Nothing

=============================================================================
