------------------------------ MODULE Messages ------------------------------
(***************************************************************************)
(* Frames, validation and errors: ocpp.messages, ocpp.exceptions and what  *)
(* ocpp.charge_point does to a payload on its way in and out.              *)
(*                                                                         *)
(* A payload is the keys of each object in it, "top" being the payload     *)
(* itself and the others named by their type; one value of an enumeration  *)
(* that it holds, <<object, key, value>>, or NoValue; and one other flaw   *)
(* that validation may find, "none" if there is none.                      *)
(***************************************************************************)
EXTENDS Naturals, Sequences, FiniteSets, Functions, Keys,
        V16Messages, V16Enums, V16Schemas

NoValue == <<>>
Payload(objects, value, flaw) ==
  [objects |-> objects, value |-> value, flaw |-> flaw]

\* exceptions.py: the codes of the subclasses of OCPPError.
OCPPErrors ==
  {"NotImplemented", "NotSupported", "InternalError", "ProtocolError",
   "SecurityError", "FormatViolation", "FormationViolation",
   "PropertyConstraintViolation", "OccurenceConstraintViolation",
   "OccurrenceConstraintViolation", "TypeConstraintViolation", "GenericError"}

-----------------------------------------------------------------------------
(* Unpacking.                                                              *)

MessageType == {"Call", "CallResult", "CallError"}

\* A frame is the message it holds, or what is wrong with it.
UnpackError ==
  [notJson |-> "FormatViolation", notList |-> "ProtocolError",
   empty |-> "ProtocolError", missingElements |-> "ProtocolError",
   unknownType |-> "PropertyConstraintViolation"]
IsMessage(frame) == frame.type \in MessageType
Malformed == [type : DOMAIN UnpackError, id : {0}]

-----------------------------------------------------------------------------
(* Validation.                                                             *)

\* get_validator(): <action>.json or <action>Response.json.
Schema(type) == IF type = "Call" THEN RequestSchema ELSE ResultSchema
Values(type) == IF type = "Call" THEN RequestValues ELSE ResultValues

Object(type, action, o) == IF o = "top" THEN Schema(type)[action]
                                        ELSE ObjectSchema[o]
Enumerated(type, action, o) ==
  IF o = "top"
  THEN IF action \in DOMAIN Values(type) THEN Values(type)[action] ELSE <<>>
  ELSE IF o \in DOMAIN ObjectValues THEN ObjectValues[o] ELSE <<>>

\* The keywords of the schema that a payload violates.
Violations(type, action, p) ==
  LET allowed(s) == s.required \union s.optional
      missing(o) == ~(Object(type, action, o).required \subseteq p.objects[o])
      unknown(o) == /\ ~Object(type, action, o).additional
                    /\ ~(p.objects[o] \subseteq allowed(Object(type, action, o)))
      badValue == /\ p.value # NoValue
                  /\ LET e == Enumerated(type, action, p.value[1])
                     IN  /\ p.value[2] \in DOMAIN e
                         /\ p.value[3] \notin e[p.value[2]]
  IN  (IF \E o \in DOMAIN p.objects : missing(o) THEN {"required"} ELSE {})
      \union
      (IF \E o \in DOMAIN p.objects : unknown(o)
       THEN {"additionalProperties"} ELSE {})
      \union (IF badValue THEN {"enum"} ELSE {})
      \union ({p.flaw} \ {"none"})

ErrorOf(keyword) ==
  CASE keyword \in {"type", "maxLength"} -> "TypeConstraintViolation"
    [] keyword = "required" -> "ProtocolError"
    [] OTHER -> "FormatViolation"

\* validate_payload(): the errors it may raise, "valid" if it raises none.
\* Which of several violations is reported is up to the library.
RequestsOnly(type, action, p) == \* mutant: results are not validated
  IF type = "CallResult" \/ Violations(type, action, p) = {} THEN {"valid"}
  ELSE {ErrorOf(k) : k \in Violations(type, action, p)}
ValidatePayload(type, action, p) ==
  IF action \notin DOMAIN Schema(type) THEN {"NotImplemented"}
  ELSE IF Violations(type, action, p) = {} THEN {"valid"}
  ELSE {ErrorOf(k) : k \in Violations(type, action, p)}

-----------------------------------------------------------------------------
(* Keys of payloads.                                                       *)

\* All keys that occur; the tables save TLC from converting them again.
SchemaKeys ==
  UNION {s.required \union s.optional :
           s \in Range(RequestSchema) \union Range(ResultSchema)
                 \union Range(ObjectSchema)}
FieldNames ==
  UNION {FieldsOf(c) :
           c \in Range(RequestClasses) \union Range(ResultClasses)
                 \union Range(DataTypes)}
OtherKey == "vendorSpecificKey"
UsedKeys == SchemaKeys \union FieldNames \union {OtherKey}
AllKeys == UNION {{k, CamelToSnake(k), SnakeToCamel(k)} : k \in UsedKeys}
SnakeKeys == [k \in AllKeys |-> CamelToSnake(k)]
CamelKeys == [k \in AllKeys |-> SnakeToCamel(k)]

ConvertKeys(p, table) ==
  [p EXCEPT
     !.objects = [o \in DOMAIN p.objects |-> {table[k] : k \in p.objects[o]}],
     !.value = IF @ = NoValue THEN @ ELSE <<@[1], table[@[2]], @[3]>>]
ToSnakeCase(p) == ConvertKeys(p, SnakeKeys)
ToCamelCase(p) == ConvertKeys(p, CamelKeys)

-----------------------------------------------------------------------------
(* Data classes and payloads.                                              *)

\* The fields that are given: those that must be, or all.
Pick(class, extent) ==
  IF extent = "full" THEN class.required \union class.optional
  ELSE class.required

\* The types of the objects under the given keys, and of those in them: no
\* object is nested deeper than there are types.
Carriers(keys, types, extent) ==
  LET direct(ks) == {Carried[k] : k \in {SnakeKeys[key] : key \in ks}
                                        \intersect DOMAIN Carried}
      reach[depth \in 0..Cardinality(DOMAIN types)] ==
        IF depth = 0 THEN direct(keys)
        ELSE LET found == reach[depth - 1]
             IN  found \union UNION {direct(Pick(types[t], extent)) : t \in found}
  IN  reach[Cardinality(DOMAIN types)]

\* serialize_as_dict() and remove_nones(): an instance and all that it holds,
\* down to the fields that are None, which are left out.
AsDict(class, types, extent) ==
  LET top == Pick(class, extent)
  IN  [o \in {"top"} \union Carriers(top, types, extent) |->
         IF o = "top" THEN top ELSE Pick(types[o], extent)]

\* cls(**payload): what the constructor raises, or "constructed".
WithoutAlias == ResultClasses \* mutant: the deprecated classes are removed
ResultTypes == ResultClasses @@ ResultPayloads
Construct(name, p) ==
  IF name \notin DOMAIN ResultTypes THEN "AttributeError"
  ELSE IF /\ ResultTypes[name].required \subseteq p.objects["top"]
          /\ p.objects["top"] \subseteq FieldsOf(ResultTypes[name])
  THEN "constructed" ELSE "TypeError"

\* Call.create_call_error(): any other exception is an internal error.
ErrorCode(exception) ==
  IF exception \in OCPPErrors THEN exception ELSE "InternalError"
\* CallError.to_exception()
ToException(code) ==
  IF code \in OCPPErrors THEN code ELSE "UnknownCallErrorCode"
=============================================================================
