----------------------- MODULE RequestHandlingProofs -----------------------
(* Proofs about Verdict and RequestHandling, for every word size, every set  *)
(* of limits and all sizes of headers and bodies.  What is said of the       *)
(* documented response format takes Unlisted = {}: an answer of each of the   *)
(* other kinds refutes it.                                                   *)
EXTENDS RequestHandling, RequestByteLimitProofs, TLAPS

Final == [action : {"allow", "deny"}, context : Contexts,
          max_tx_bytes : Limits \cup {NoLimit}]

\* A verdict r is as documented.
Agrees(r, documented) ==
    /\ r.action = documented.action
    /\ r.max_tx_bytes = documented.max_tx_bytes
    /\ documented.context \in {r.context, "any"}

-----------------------------------------------------------------------------
(* The parser.                                                             *)

LEMMA StructFields ==
    ASSUME NEW form, NEW allow, NEW message, NEW limits,
           NEW t \in Structs(form, allow, message, limits), "limited" \in allow
    PROVE  /\ t = [form |-> t.form, allow |-> t.allow, bytes |-> t.bytes,
                   message |-> t.message]
           /\ t.form = form /\ t.allow \in allow /\ t.message \in message
           /\ t.allow = "limited" => t.bytes \in limits
  <1>1. CASE \E a \in allow \ {"limited"}, n \in {0}, m \in message :
               t = [form |-> form, allow |-> a, bytes |-> n, message |-> m]
    BY <1>1
  <1>2. CASE \E n \in limits, m \in message :
               t = [form |-> form, allow |-> "limited", bytes |-> n,
                    message |-> m]
    BY <1>2
  <1> QED  BY <1>1, <1>2 DEF Structs

LEMMA TextFields ==
    ASSUME NEW forms, NEW limits, NEW t \in Texts(forms, limits)
    PROVE  /\ t.form \in {"true", "false", "blank", "other"} \cup forms
           /\ t.form \in {"true", "false", "blank", "other"} \ forms
              => t.allow = "absent" /\ t.message = "absent"
           /\ t.allow \in AllowFields /\ t.message \in MessageFields
           /\ t.allow = "limited" => t.bytes \in limits
  <1>1. CASE t \in {Plain(f) : f \in {"true", "false", "blank", "other"}}
    <2>1. PICK f \in {"true", "false", "blank", "other"} :
            t = [form |-> f, allow |-> "absent", bytes |-> 0,
                 message |-> "absent"]
      BY <1>1 DEF Plain
    <2> QED  BY <2>1 DEF AllowFields, MessageFields
  <1>2. ASSUME NEW f \in forms,
               t \in Structs(f, AllowFields, MessageFields, limits)
        PROVE  /\ t.form = f
               /\ t.allow \in AllowFields /\ t.message \in MessageFields
               /\ t.allow = "limited" => t.bytes \in limits
    <2>1. "limited" \in AllowFields  BY DEF AllowFields
    <2> QED  BY <1>2, <2>1, StructFields
  <1>3. \/ t \in {Plain(f) : f \in {"true", "false", "blank", "other"}}
        \/ \E f \in forms : t \in Structs(f, AllowFields, MessageFields, limits)
    BY Zenon DEF Texts
  <1> QED  BY <1>1, <1>2, <1>3

\* What the conversions give, case by case.
LEMMA Conversion ==
    /\ \A r : r.allow = "true" => ToEvaluationResult(r) = Allow(NoLimit)
    /\ \A r : r.allow = "false" => ToEvaluationResult(r) = Deny(r.deny_message)
    /\ \A r : r.allow = "limited" => ToEvaluationResult(r) = Allow(r.bytes)
    /\ \A r : r.allow = "none" /\ r.deny_message = "none"
              => ToEvaluationResult(r) = Allow(NoLimit)
    /\ \A r : r.allow = "none" /\ r.deny_message # "none"
              => ToEvaluationResult(r) = Deny(r.deny_message)
  BY Zenon DEF ToEvaluationResult

LEMMA Parsing ==
    ASSUME NEW t
    PROVE  /\ t.form \in {"true", "false"}
              => FromString(t) = RuleResponse(t.form, 0, "none")
           /\ t.form \notin {"true", "false"} /\ ~Deserializes(t)
              => FromString(t) = RuleResponse("false", 0, "text")
           /\ t.form \notin {"true", "false"} /\ Deserializes(t)
              => FromString(t) =
                   RuleResponse(IF t.allow \in {"absent", "null"} THEN "none"
                                                                  ELSE t.allow,
                                t.bytes,
                                IF t.message = "string" THEN "given"
                                                        ELSE "none")
  BY Zenon DEF FromString, Deserializes, StructForms

LEMMA Stringify ==
    ASSUME NEW form, NEW f
    PROVE  /\ f = "undefined" => Stringified(form, f) \in {"absent", "null"}
           /\ f = "NaN" => Stringified(form, f) = "null"
           /\ f \notin {"undefined", "NaN"} => Stringified(form, f) = f
  <1>1. f = "NaN" => Stringified(form, f) = "null"  BY Zenon DEF Stringified
  <1>2. f \notin {"undefined", "NaN"} => Stringified(form, f) = f
    BY Zenon DEF Stringified
  <1>3. f = "undefined" =>
          Stringified(form, f) = IF form = "array" THEN "null" ELSE "absent"
    BY Zenon DEF Stringified
  <1> QED  BY <1>1, <1>2, <1>3

LEMMA Documents ==
    ASSUME NEW t, t.form = "object"
    PROVE  /\ "invalid" \in {t.allow, t.message}
              => DocumentedText(t) = Deny("text")
           /\ "invalid" \notin {t.allow, t.message} =>
                /\ t.allow = "limited" => DocumentedText(t) = Allow(t.bytes)
                /\ t.allow = "true" => DocumentedText(t) = Allow(NoLimit)
                /\ /\ t.allow \notin {"limited", "true"}
                   /\ ~Unset(t.allow) \/ ~Unset(t.message)
                   => DocumentedText(t) =
                        Deny(IF Unset(t.message) THEN "none" ELSE "given")
  <1>1. "invalid" \in {t.allow, t.message} => DocumentedText(t) = Deny("text")
    BY Zenon DEF DocumentedText
  <1>2. ASSUME "invalid" \notin {t.allow, t.message}
        PROVE  DocumentedText(t) = DocumentedObject(t)
    BY <1>2, Zenon DEF DocumentedText
  <1>0. Unset(t.allow) => t.allow \notin {"limited", "true"}  BY DEF Unset
  <1>3. /\ t.allow = "limited" => DocumentedObject(t) = Allow(t.bytes)
        /\ t.allow = "true" => DocumentedObject(t) = Allow(NoLimit)
        /\ /\ t.allow \notin {"limited", "true"}
           /\ ~Unset(t.allow) \/ ~Unset(t.message)
           => DocumentedObject(t) =
                Deny(IF Unset(t.message) THEN "none" ELSE "given")
    BY <1>0, Zenon DEF DocumentedObject
  <1> QED  BY <1>1, <1>2, <1>3, Zenon

LEMMA Kinds ==
    ASSUME NEW t, TextKind(t) = "listed"
    PROVE  /\ t.form # "array"
           /\ t.form = "object" => ~Unset(t.allow) \/ ~Unset(t.message)
  <1>1. t.form = "array" => TextKind(t) = "array"  BY Zenon DEF TextKind
  <1>2. t.form = "object" /\ Unset(t.allow) /\ Unset(t.message)
        => TextKind(t) = "unset"
    BY Zenon DEF TextKind
  <1> QED  BY <1>1, <1>2

\* An object with a field means what is documented, in whatever way the other
\* is unset.
LEMMA ObjectVerdict ==
    ASSUME NEW t, NEW json,
           t.form = "object", json.form = "object", json.bytes = t.bytes,
           json.allow = Stringified("object", t.allow),
           json.message = Stringified("object", t.message),
           t.allow \in JsFields(AllowFields),
           t.message \in JsFields(MessageFields),
           TextKind(t) = "listed"
    PROVE  ToEvaluationResult(FromString(json)) = DocumentedText(t)
  <1> DEFINE response == FromString(json)
  <1>0. ~Unset(t.allow) \/ ~Unset(t.message)  BY Kinds
  <1>1. /\ t.allow \in {"absent", "null", "undefined", "NaN"} =>
             json.allow \in {"absent", "null"}
        /\ t.allow \in {"true", "false", "limited", "invalid"} =>
             json.allow = t.allow
        /\ t.message \in {"absent", "null", "undefined", "NaN"} =>
             json.message \in {"absent", "null"}
        /\ t.message \in {"string", "invalid"} => json.message = t.message
    BY Stringify
  <1>2. Unset(t.allow) <=> t.allow \in {"absent", "null", "undefined", "NaN"}
    BY DEF Unset
  <1>3. Unset(t.message) <=> t.message \in {"absent", "null", "undefined", "NaN"}
    BY DEF Unset
  <1>4. CASE "invalid" \in {t.allow, t.message}
    <2>1. ~Deserializes(json)  BY <1>1, <1>4 DEF Deserializes
    <2>2. response = RuleResponse("false", 0, "text")  BY <2>1, Parsing
    <2>3. response.allow = "false" /\ response.deny_message = "text"
      BY <2>2 DEF RuleResponse
    <2> HIDE DEF response
    <2>4. ToEvaluationResult(response) = Deny("text")  BY <2>3, Conversion
    <2> QED  BY <1>4, <2>4, Documents DEF response
  <1>5. CASE "invalid" \notin {t.allow, t.message}
    <2>1. Deserializes(json)
      BY <1>1, <1>5
      DEF Deserializes, AllowFields, MessageFields, JsFields, StructForms
    <2>2. response =
            RuleResponse(IF json.allow \in {"absent", "null"} THEN "none"
                                                              ELSE json.allow,
                         json.bytes,
                         IF json.message = "string" THEN "given" ELSE "none")
      BY <2>1, Parsing
    <2>3. /\ response.allow = IF Unset(t.allow) THEN "none" ELSE t.allow
          /\ response.bytes = t.bytes
          /\ response.deny_message = IF Unset(t.message) THEN "none" ELSE "given"
      BY <1>1, <1>2, <1>3, <1>5, <2>2
      DEF RuleResponse, AllowFields, MessageFields, JsFields
    <2> HIDE DEF response
    <2>4. CASE Unset(t.allow)
      <3>1. ~Unset(t.message)  BY <1>0, <2>4
      <3>2. ToEvaluationResult(response) = Deny("given")
        BY <2>3, <2>4, <3>1, Conversion
      <3>3. DocumentedText(t) = Deny("given")
        BY <1>2, <1>5, <2>4, <3>1, Documents
      <3> QED  BY <3>2, <3>3 DEF response
    <2>5. CASE t.allow = "true"
      <3>1. ToEvaluationResult(response) = Allow(NoLimit)
        BY <1>2, <2>3, <2>5, Conversion
      <3>2. DocumentedText(t) = Allow(NoLimit)  BY <1>5, <2>5, Documents
      <3> QED  BY <3>1, <3>2 DEF response
    <2>6. CASE t.allow = "limited"
      <3>1. ToEvaluationResult(response) = Allow(t.bytes)
        BY <1>2, <2>3, <2>6, Conversion
      <3>2. DocumentedText(t) = Allow(t.bytes)  BY <1>5, <2>6, Documents
      <3> QED  BY <3>1, <3>2 DEF response
    <2>7. CASE t.allow = "false"
      <3> DEFINE message == IF Unset(t.message) THEN "none" ELSE "given"
      <3>1. response.allow = "false" /\ response.deny_message = message
        BY <1>2, <2>3, <2>7
      <3>2. ToEvaluationResult(response) = Deny(message)
        BY <3>1, Conversion
      <3>3. DocumentedText(t) = Deny(message)
        BY <1>2, <1>5, <2>7, Documents
      <3> QED  BY <3>2, <3>3 DEF response
    <2> QED
      BY <1>2, <1>5, <2>4, <2>5, <2>6, <2>7
      DEF AllowFields, JsFields, response
  <1> QED  BY <1>4, <1>5

\* So does every text that is listed.
LEMMA TextVerdict ==
    ASSUME NEW limits, NEW t \in Texts(StructForms, limits),
           TextKind(t) = "listed"
    PROVE  ToEvaluationResult(FromString(t)) = DocumentedText(t)
  <1>0. /\ t.form \in {"true", "false", "blank", "other", "object"}
        /\ t.allow \in AllowFields /\ t.message \in MessageFields
    BY TextFields, Kinds DEF StructForms
  <1>1. CASE t.form = "object"
    <2>1. /\ Stringified("object", t.allow) = t.allow
          /\ Stringified("object", t.message) = t.message
      BY <1>0, Stringify DEF AllowFields, MessageFields
    <2>2. t.allow \in JsFields(AllowFields) /\ t.message \in JsFields(MessageFields)
      BY <1>0 DEF JsFields
    <2> QED  BY <1>1, <2>1, <2>2, ObjectVerdict
  <1>2. CASE t.form = "true"
    <2>1. FromString(t) = RuleResponse("true", 0, "none")  BY <1>2, Parsing
    <2>2. RuleResponse("true", 0, "none").allow = "true"  BY DEF RuleResponse
    <2>3. DocumentedText(t) = Allow(NoLimit)  BY <1>2, Zenon DEF DocumentedText
    <2> QED  BY <2>1, <2>2, <2>3, Conversion
  <1>3. CASE t.form = "false"
    <2>1. FromString(t) = RuleResponse("false", 0, "none")  BY <1>3, Parsing
    <2>2. /\ RuleResponse("false", 0, "none").allow = "false"
          /\ RuleResponse("false", 0, "none").deny_message = "none"
      BY DEF RuleResponse
    <2>3. DocumentedText(t) = Deny("none")  BY <1>3, Zenon DEF DocumentedText
    <2> QED  BY <2>1, <2>2, <2>3, Conversion
  <1>4. CASE t.form \in {"blank", "other"}
    <2>0. ~Deserializes(t)  BY <1>4 DEF Deserializes, StructForms
    <2>1. FromString(t) = RuleResponse("false", 0, "text")
      BY <1>4, <2>0, Parsing
    <2>2. /\ RuleResponse("false", 0, "text").allow = "false"
          /\ RuleResponse("false", 0, "text").deny_message = "text"
      BY DEF RuleResponse
    <2>3. DocumentedText(t) = Deny("text")  BY <1>4, Zenon DEF DocumentedText
    <2> QED  BY <2>1, <2>2, <2>3, Conversion
  <1> QED  BY <1>0, <1>1, <1>2, <1>3, <1>4

LEMMA ShellAnswer ==
    ASSUME NEW o \in ShellOutcomes
    PROVE  ShellVerdict(o) = DocumentedVerdict("shell", o)
  <1>1. DocumentedVerdict("shell", o) = DocumentedShell(o)
    BY Zenon DEF DocumentedVerdict
  <1>2. ShellVerdict(o) = DocumentedShell(o)
    BY DEF ShellVerdict, DocumentedShell, ShellOutcomes, AllowWith, Deny
  <1> QED  BY <1>1, <1>2

LEMMA ProcAnswer ==
    ASSUME NEW limits, NEW t \in Texts(StructForms, limits),
           AnswerKind("proc", t) = "listed"
    PROVE  ProcVerdict(t) = DocumentedVerdict("proc", t)
  <1>1. DocumentedVerdict("proc", t) = DocumentedText(t)
    BY Zenon DEF DocumentedVerdict
  <1>2. AnswerKind("proc", t) = TextKind(t)  BY Zenon DEF AnswerKind
  <1> QED  BY <1>1, <1>2, TextVerdict DEF ProcVerdict

JsTypes == {"true", "false", "function", "other", "throws"}
JsObjects(form, limits) ==
    Structs(form, JsFields(AllowFields), JsFields(MessageFields), limits)

LEMMA JsValueFields ==
    ASSUME NEW limits, NEW v \in JsValues(limits)
    PROVE  \/ v.type \in JsTypes
           \/ v.type = "string" /\ v.text \in Texts(StructForms, limits)
           \/ /\ v.type = "object"
              /\ \E f \in StructForms : v.text \in JsObjects(f, limits)
  <1>1. CASE \E t \in JsTypes : v = [type |-> t, text |-> Plain("other")]
    BY <1>1
  <1>2. CASE \E t \in Texts(StructForms, limits) :
               v = [type |-> "string", text |-> t]
    BY <1>2
  <1>3. CASE \E t \in UNION {JsObjects(f, limits) : f \in StructForms} :
               v = [type |-> "object", text |-> t]
    BY <1>3
  <1> QED  BY <1>1, <1>2, <1>3, Zenon DEF JsValues, JsTypes, JsObjects

\* The properties of an object, and of the JSON that is made of it.
LEMMA JsonFields ==
    ASSUME NEW limits, NEW form, NEW t \in JsObjects(form, limits)
    PROVE  LET json == [t EXCEPT !.allow = Stringified(t.form, @),
                                 !.message = Stringified(t.form, @)]
           IN /\ t.form = form /\ json.form = form /\ json.bytes = t.bytes
              /\ t.allow \in JsFields(AllowFields)
              /\ t.message \in JsFields(MessageFields)
              /\ json.allow = Stringified(form, t.allow)
              /\ json.message = Stringified(form, t.message)
              /\ json.allow \in AllowFields
              /\ json.allow = "limited" => json.bytes \in limits
  <1> DEFINE json == [t EXCEPT !.allow = Stringified(t.form, @),
                               !.message = Stringified(t.form, @)]
  <1>1. "limited" \in JsFields(AllowFields)  BY DEF AllowFields, JsFields
  <1>2. /\ t = [form |-> t.form, allow |-> t.allow, bytes |-> t.bytes,
                message |-> t.message]
        /\ t.form = form /\ t.allow \in JsFields(AllowFields)
        /\ t.message \in JsFields(MessageFields)
        /\ t.allow = "limited" => t.bytes \in limits
    BY <1>1, StructFields DEF JsObjects
  <1>3. /\ json.form = form /\ json.bytes = t.bytes
        /\ json.allow = Stringified(form, t.allow)
        /\ json.message = Stringified(form, t.message)
    BY <1>2
  <1> HIDE DEF json
  <1>4. /\ json.allow \in AllowFields
        /\ json.allow = "limited" => json.bytes \in limits
    BY <1>2, <1>3, Stringify DEF AllowFields, JsFields
  <1> QED  BY <1>2, <1>3, <1>4 DEF json

LEMMA PlainVerdict ==
    /\ ToEvaluationResult(FromString(Plain("true"))) = DocumentedText(Plain("true"))
    /\ ToEvaluationResult(FromString(Plain("false"))) = DocumentedText(Plain("false"))
    /\ ToEvaluationResult(FromString(Plain("other"))) = DocumentedText(Plain("other"))
    /\ DocumentedText(Plain("false")) = Deny("none")
    /\ DocumentedText(Plain("other")) = Deny("text")
  <1>1. \A f \in {"true", "false", "other"} : Plain(f) \in Texts(StructForms, {})
    BY Zenon DEF Texts
  <1>2. /\ \A f : Plain(f).form = f
        /\ Plain("false").form = "false" /\ Plain("other").form = "other"
    BY DEF Plain
  <1>3. DocumentedText(Plain("false")) = Deny("none")
    BY <1>2, Zenon DEF DocumentedText
  <1>4. DocumentedText(Plain("other")) = Deny("text")
    BY <1>2, Zenon DEF DocumentedText
  <1>5. ASSUME NEW f \in {"true", "false", "other"}
        PROVE  TextKind(Plain(f)) = "listed"
    <2>1. Plain(f).form \notin {"array", "object"}  BY <1>2
    <2> QED  BY <2>1, Zenon DEF TextKind
  <1>6. \A f \in {"true", "false", "other"} :
          ToEvaluationResult(FromString(Plain(f))) = DocumentedText(Plain(f))
    BY <1>1, <1>5, TextVerdict
  <1> QED  BY <1>3, <1>4, <1>6

LEMMA Agreeing ==
    /\ \A r : Agrees(r, r)
    /\ \A x : Agrees(Deny(x), Deny("any"))
  BY DEF Agrees, Deny

\* A V8 value means what is documented for it; an exception, in the expression
\* or in JSON.stringify, denies.
LEMMA JsAnswer ==
    ASSUME NEW limits, NEW v \in JsValues(limits),
           AnswerKind("js", v) = "listed"
    PROVE  Agrees(JsVerdict(v), DocumentedVerdict("js", v))
  <1>0. DocumentedVerdict("js", v) = DocumentedJs(v)
    BY Zenon DEF DocumentedVerdict
  <1>1. CASE v.type = "throws"
    <2>1. JsVerdict(v) = Deny("generic")  BY <1>1 DEF JsVerdict
    <2>2. DocumentedJs(v) = Deny("any")  BY <1>1, Zenon DEF DocumentedJs
    <2> QED  BY <1>0, <2>1, <2>2, Agreeing
  <1>2. ASSUME v.type # "throws"
        PROVE  JsVerdict(v) =
                 ToEvaluationResult(FromString(ValueToResponseString(v)))
    BY <1>2 DEF JsVerdict
  <1>3. CASE v.type \in {"true", "false"}
    <2>1. ValueToResponseString(v) = Plain(v.type)
      BY <1>3, Zenon DEF ValueToResponseString
    <2>2. DocumentedJs(v) = DocumentedText(Plain(v.type))
      BY <1>3, Zenon DEF DocumentedJs
    <2>3. JsVerdict(v) = DocumentedJs(v)
      BY <1>2, <1>3, <2>1, <2>2, PlainVerdict
    <2> QED  BY <1>0, <2>3, Agreeing
  <1>4. CASE v.type \in {"function", "other"}
    <2>1. /\ v.type = "function" => ValueToResponseString(v) = Plain("other")
          /\ v.type = "other" => ValueToResponseString(v) = Plain("false")
      BY Zenon DEF ValueToResponseString
    <2>2. DocumentedJs(v) = Deny("any")  BY <1>4, Zenon DEF DocumentedJs
    <2>3. JsVerdict(v) = Deny("text") \/ JsVerdict(v) = Deny("none")
      BY <1>2, <1>4, <2>1, PlainVerdict
    <2> QED  BY <1>0, <2>2, <2>3, Agreeing
  <1>5. CASE v.type = "string" /\ v.text \in Texts(StructForms, limits)
    <2>1. ValueToResponseString(v) = v.text
      BY <1>5, Zenon DEF ValueToResponseString
    <2>2. DocumentedJs(v) = Deny("text")  BY <1>5, Zenon DEF DocumentedJs
    <2>3. v.text.form \in {"blank", "other"}
      <3>1. v.text.form \notin {"blank", "other"} => AnswerKind("js", v) = "string"
        BY <1>5, Zenon DEF AnswerKind
      <3> QED  BY <3>1
    <2>4. FromString(v.text) = RuleResponse("false", 0, "text")
      <3>1. ~Deserializes(v.text)  BY <2>3 DEF Deserializes, StructForms
      <3> QED  BY <2>3, <3>1, Parsing
    <2>5. /\ RuleResponse("false", 0, "text").allow = "false"
          /\ RuleResponse("false", 0, "text").deny_message = "text"
      BY DEF RuleResponse
    <2>6. JsVerdict(v) = Deny("text")
      BY <1>2, <1>5, <2>1, <2>4, <2>5, Conversion
    <2> QED  BY <1>0, <2>2, <2>6, Agreeing
  <1>6. ASSUME v.type = "object",
               NEW f \in StructForms, v.text \in JsObjects(f, limits)
        PROVE  Agrees(JsVerdict(v), DocumentedVerdict("js", v))
    <2> DEFINE json == [v.text EXCEPT !.allow = Stringified(v.text.form, @),
                                      !.message = Stringified(v.text.form, @)]
    <2>1. ValueToResponseString(v) = json
      BY <1>6, Zenon DEF ValueToResponseString
    <2>2. DocumentedJs(v) = DocumentedText(v.text)
      BY <1>6, Zenon DEF DocumentedJs
    <2>3. TextKind(v.text) = "listed"
      <3>1. AnswerKind("js", v) = TextKind(v.text)
        BY <1>6, Zenon DEF AnswerKind
      <3> QED  BY <3>1
    <2>4. /\ v.text.form = f /\ json.form = f /\ json.bytes = v.text.bytes
          /\ v.text.allow \in JsFields(AllowFields)
          /\ v.text.message \in JsFields(MessageFields)
          /\ json.allow = Stringified(f, v.text.allow)
          /\ json.message = Stringified(f, v.text.message)
      BY <1>6, JsonFields
    <2> HIDE DEF json
    <2>5. f = "object"  BY <2>3, <2>4, Kinds DEF StructForms
    <2>6. ToEvaluationResult(FromString(json)) = DocumentedText(v.text)
      BY <2>3, <2>4, <2>5, ObjectVerdict
    <2>7. JsVerdict(v) = DocumentedJs(v)
      BY <1>2, <1>6, <2>1, <2>2, <2>6
    <2> QED  BY <1>0, <2>7, Agreeing
  <1> QED  BY <1>1, <1>3, <1>4, <1>5, <1>6, JsValueFields DEF JsTypes

-----------------------------------------------------------------------------
(* The verdicts of the cases.                                              *)

LEMMA Finals ==
    /\ \A n \in Limits \cup {NoLimit} : Allow(n) \in Final
    /\ \A x \in Contexts : AllowWith(x) \in Final /\ Deny(x) \in Final
  BY DEF Final, Contexts, Allow, AllowWith, Deny

LEMMA ResponseType ==
    ASSUME NEW t, t.allow \in AllowFields,
           t.allow = "limited" => t.bytes \in Limits
    PROVE  ToEvaluationResult(FromString(t)) \in Final
  <1> DEFINE r == FromString(t)
  <1>1. /\ r.allow \in {"true", "false", "limited", "none"}
        /\ r.allow = "limited" => r.bytes \in Limits
        /\ r.deny_message \in {"none", "given", "text"}
    <2>1. CASE t.form \in {"true", "false"}
      BY <2>1, Parsing DEF RuleResponse
    <2>2. CASE t.form \notin {"true", "false"} /\ ~Deserializes(t)
      BY <2>2, Parsing DEF RuleResponse
    <2>3. CASE t.form \notin {"true", "false"} /\ Deserializes(t)
      <3>1. t.allow # "invalid"  BY <2>3 DEF Deserializes
      <3> QED  BY <2>3, <3>1, Parsing DEF RuleResponse, AllowFields
    <2> QED  BY <2>1, <2>2, <2>3
  <1> HIDE DEF r
  <1>2. \/ ToEvaluationResult(r) = Allow(NoLimit)
        \/ ToEvaluationResult(r) = Allow(r.bytes) /\ r.bytes \in Limits
        \/ ToEvaluationResult(r) = Deny(r.deny_message)
    BY <1>1, Conversion
  <1>3. r.deny_message \in Contexts  BY <1>1 DEF Contexts
  <1> QED  BY <1>2, <1>3, Finals DEF r

LEMMA CaseFields ==
    ASSUME NEW c \in Cases
    PROVE  /\ c.engine \in {"shell", "js", "proc"}
           /\ c.engine = "shell" => c.answer \in ShellOutcomes
           /\ c.engine = "js" => c.answer \in JsValues(Limits)
           /\ c.engine = "proc" => c.answer \in Texts(StructForms, Limits)
           /\ Unlisted = {} => AnswerKind(c.engine, c.answer) = "listed"
  <1>0. /\ c \in AllCases
        /\ AnswerKind(c.engine, c.answer) \in Unlisted \cup {"listed"}
    BY DEF Cases
  <1>1. CASE c \in [engine : {"shell"}, answer : ShellOutcomes]
    BY <1>0, <1>1
  <1>2. CASE c \in [engine : {"js"}, answer : JsValues(Limits)]
    BY <1>0, <1>2
  <1>3. CASE c \in [engine : {"proc"}, answer : Texts(StructForms, Limits)]
    BY <1>0, <1>3
  <1> QED  BY <1>0, <1>1, <1>2, <1>3 DEF AllCases

LEMMA JsType ==
    ASSUME NEW v \in JsValues(Limits)
    PROVE  JsVerdict(v) \in Final
  <1>1. CASE v.type \in JsTypes
    <2>1. \/ JsVerdict(v) = Deny("generic")
          \/ \E f \in {"true", "false", "other"} :
               JsVerdict(v) = ToEvaluationResult(FromString(Plain(f)))
      <3>1. v.type \in {"true", "false"} => ValueToResponseString(v) = Plain(v.type)
        BY Zenon DEF ValueToResponseString
      <3>2. v.type = "function" => ValueToResponseString(v) = Plain("other")
        BY Zenon DEF ValueToResponseString
      <3>3. v.type = "other" => ValueToResponseString(v) = Plain("false")
        BY Zenon DEF ValueToResponseString
      <3> QED  BY <1>1, <3>1, <3>2, <3>3 DEF JsVerdict, JsTypes
    <2>2. \A f : Plain(f).allow = "absent" /\ "absent" \in AllowFields
      BY DEF Plain, AllowFields
    <2>3. \A f : ToEvaluationResult(FromString(Plain(f))) \in Final
      BY <2>2, ResponseType
    <2>4. Deny("generic") \in Final  BY Finals DEF Contexts
    <2> QED  BY <2>1, <2>3, <2>4
  <1>2. CASE v.type = "string" /\ v.text \in Texts(StructForms, Limits)
    <2>1. ValueToResponseString(v) = v.text
      BY <1>2, Zenon DEF ValueToResponseString
    <2>2. JsVerdict(v) = ToEvaluationResult(FromString(v.text))
      BY <1>2, <2>1 DEF JsVerdict
    <2>3. v.text.allow \in AllowFields
          /\ (v.text.allow = "limited" => v.text.bytes \in Limits)
      BY <1>2, TextFields
    <2> QED  BY <2>2, <2>3, ResponseType
  <1>3. ASSUME v.type = "object",
               NEW f \in StructForms, v.text \in JsObjects(f, Limits)
        PROVE  JsVerdict(v) \in Final
    <2> DEFINE json == [v.text EXCEPT !.allow = Stringified(v.text.form, @),
                                      !.message = Stringified(v.text.form, @)]
    <2>1. ValueToResponseString(v) = json
      BY <1>3, Zenon DEF ValueToResponseString
    <2>2. JsVerdict(v) = ToEvaluationResult(FromString(json))
      BY <1>3, <2>1 DEF JsVerdict
    <2>3. json.allow \in AllowFields
          /\ (json.allow = "limited" => json.bytes \in Limits)
      BY <1>3, JsonFields
    <2> HIDE DEF json
    <2> QED  BY <2>2, <2>3, ResponseType
  <1> QED  BY <1>1, <1>2, <1>3, JsValueFields

LEMMA VerdictType ==
    ASSUME NEW c \in Cases
    PROVE  /\ c.engine = "shell" => ShellVerdict(c.answer) \in Final
           /\ c.engine = "js" => JsVerdict(c.answer) \in Final
           /\ c.engine = "proc" => ProcVerdict(c.answer) \in Final
           /\ Deny("generic") \in Final /\ Deny("detail") \in Final
  <1>1. c.engine = "shell" => ShellVerdict(c.answer) \in Final
    BY Finals DEF ShellVerdict, Contexts
  <1>2. c.engine = "js" => JsVerdict(c.answer) \in Final
    BY CaseFields, JsType
  <1>3. ASSUME c.engine = "proc" PROVE ProcVerdict(c.answer) \in Final
    <2>1. c.answer.allow \in AllowFields
          /\ (c.answer.allow = "limited" => c.answer.bytes \in Limits)
      BY <1>3, CaseFields, TextFields
    <2> QED  BY <2>1, ResponseType DEF ProcVerdict
  <1> QED  BY <1>1, <1>2, <1>3, Finals DEF Contexts

\* Whatever the engine, the verdict on a listed answer is the documented one.
LEMMA VerdictDocumented ==
    ASSUME Unlisted = {}, NEW c \in Cases
    PROVE  LET documented == DocumentedVerdict(c.engine, c.answer)
           IN /\ c.engine = "shell" => Agrees(ShellVerdict(c.answer), documented)
              /\ c.engine = "js" => Agrees(JsVerdict(c.answer), documented)
              /\ c.engine = "proc" => Agrees(ProcVerdict(c.answer), documented)
  <1>1. CASE c.engine = "shell"
    <2>1. ShellVerdict(c.answer) = DocumentedVerdict(c.engine, c.answer)
      BY <1>1, CaseFields, ShellAnswer
    <2> QED  BY <1>1, <2>1, Agreeing
  <1>2. CASE c.engine = "js"
    <2>1. AnswerKind("js", c.answer) = "listed" /\ c.answer \in JsValues(Limits)
      BY <1>2, CaseFields
    <2> QED  BY <1>2, <2>1, JsAnswer
  <1>3. CASE c.engine = "proc"
    <2>1. AnswerKind("proc", c.answer) = "listed"
          /\ c.answer \in Texts(StructForms, Limits)
      BY <1>3, CaseFields
    <2>2. ProcVerdict(c.answer) = DocumentedVerdict(c.engine, c.answer)
      BY <1>3, <2>1, ProcAnswer
    <2> QED  BY <1>3, <2>2, Agreeing
  <1> QED  BY <1>1, <1>2, <1>3, CaseFields

-----------------------------------------------------------------------------
(* The inductive invariant.                                                *)

Evaluating == {"evaluate", "script", "engine"}

LimitTaken ==
    /\ result.action = "allow"
    /\ result.max_tx_bytes # NoLimit
    /\ limit = result.max_tx_bytes

\* There is a verdict exactly from the return of the engine on, and none on a
\* request that has been here before.
Decided ==
    /\ result \in Final \cup {Undecided}
    /\ pc \in Evaluating => result = Undecided
    /\ pc \in {"log", "dispatch", "limit", "upstream"} => result \in Final
    /\ pc = "done" /\ ~loop => result \in Final
    /\ loop => pc \in {"evaluate", "done"} /\ result = Undecided
    /\ pc = "script" => case.engine = "shell"

\* The byte limit is applied to what was allowed under a limit, with that
\* limit, and to all of it.
Limited ==
    /\ pc \in Evaluating \cup {"log", "dispatch", "limit"} => phase = "apply"
    /\ pc = "limit" \/ phase # "apply" => LimitTaken
    /\ phase = "apply" => sent = 0
    /\ pc = "upstream" \/ status = 200 =>
         /\ result.action = "allow"
         /\ phase = "apply" <=> result.max_tx_bytes = NoLimit

\* The answer is the verdict's.
Answered ==
    /\ status # 0 => pc = "done"
    /\ status = 413 => result.action = "allow" /\ result.max_tx_bytes # NoLimit
    /\ status = 403 => \/ loop /\ shown = "loop"
                       \/ result.action = "deny" /\ shown = result.context

\* The log has the line of the verdict as soon as evaluate has returned.
Logged ==
    log = IF logFile = "ok" /\ result # Undecided /\ pc # "log"
          THEN <<result.action>> ELSE <<>>

IInv ==
    /\ HandlingTypeOK
    /\ Decided /\ Limited /\ Answered /\ Logged /\ ScriptEndsWithRequest

LEMMA PendingIsNot == /\ Undecided \notin Final /\ Undecided \in Results
                      /\ Final \subseteq Results
                      /\ Undecided.action = "pending"
  BY DEF Undecided, Final, Results, Contexts, NoLimit

LEMMA InitIInv == HandlingInit => IInv
  <1> SUFFICES ASSUME HandlingInit PROVE IInv  OBVIOUS
  <1>1. HandlingTypeOK
    <2>1. /\ case \in Cases /\ result \in Results
          /\ pc \in Awaiting \cup {"evaluate", "log", "dispatch", "limit",
                                  "done", "dropped"}
          /\ child \in {"none", "running", "exited", "killed"}
          /\ logFile \in {"none", "ok", "failing"}
          /\ shown \in Contexts \cup {"loop"}
          /\ phase \in {"apply", "stream", "rejected", "ended", "failed"}
      BY PendingIsNot DEF HandlingInit, Contexts
    <2>2. /\ status \in {0, 200, 403, 413, 502}
          /\ limit \in Limits \cup {0} /\ header \in HeaderSizes
          /\ length \in Lengths \cup {Chunked}
          /\ max \in U64 /\ transmitted \in U64 /\ received \in Nat /\ sent \in Nat
      BY ConstantsAssumption DEF HandlingInit, U64
    <2>3. loop \in BOOLEAN /\ pipe \in BOOLEAN /\ trailers \in BOOLEAN
      BY DEF HandlingInit
    <2>4. log \in Seq({"allow", "deny"})  BY DEF HandlingInit
    <2> QED  BY <2>1, <2>2, <2>3, <2>4 DEF HandlingTypeOK
  <1>2. Decided /\ Limited /\ Answered /\ Logged /\ ScriptEndsWithRequest
    BY DEF HandlingInit, Decided, Limited, Answered, Logged,
           ScriptEndsWithRequest, Evaluating
  <1> QED  BY <1>1, <1>2 DEF IInv

\* An engine returns r to LoggingRuleEngine.
LEMMA EvaluatedIInv ==
    ASSUME IInv, NEW r \in Final, pc \in Evaluating, ~loop, Evaluated(r),
           child' \in {"none", "exited", "killed"}, pipe' \in BOOLEAN
    PROVE  IInv'
  <1>1. UNCHANGED <<case, loop, logFile, log, status, shown, phase, limit,
                    header, length, max, transmitted, received, sent,
                    trailers>>
        /\ result' = r /\ pc' = "log"
    BY DEF Evaluated, arrival, reply, vars
  <1>2. log = <<>> /\ status = 0 /\ phase = "apply"
    BY DEF IInv, Decided, Logged, Answered, Limited, Evaluating
  <1>3. HandlingTypeOK'
    BY <1>1, PendingIsNot DEF IInv, HandlingTypeOK, Awaiting
  <1>4. Decided' /\ Limited' /\ Answered' /\ Logged' /\ ScriptEndsWithRequest'
    BY <1>1, <1>2
    DEF IInv, Decided, Limited, Answered, Logged, ScriptEndsWithRequest,
        Evaluating, LimitTaken
  <1> QED  BY <1>3, <1>4 DEF IInv

LEMMA EngineIInv == IInv /\ EngineStep => IInv'
  <1> SUFFICES ASSUME IInv, EngineStep PROVE IInv'  OBVIOUS
  <1>0. case \in Cases /\ child \in {"none", "running", "exited", "killed"}
        /\ pipe \in BOOLEAN
    BY DEF IInv, HandlingTypeOK
  <1>1. pc \in Evaluating /\ pc # "script" => child \in {"none", "exited", "killed"}
    BY <1>0 DEF IInv, ScriptEndsWithRequest
  <1>2. /\ Deny("generic") \in Final /\ Deny("detail") \in Final
        /\ pc \in {"script", "engine"} => ~loop
    BY Finals DEF Contexts, IInv, Decided
  <1>3. CASE BadUrl \/ EngineFails
    <2>1. pc \in {"evaluate", "engine"} /\ Evaluated(Deny("generic")) /\ ~loop
          /\ UNCHANGED <<child, pipe>>
      BY <1>2, <1>3 DEF BadUrl, EngineFails, Asked, script
    <2> QED  BY <1>0, <1>1, <1>2, <2>1, EvaluatedIInv DEF Evaluating
  <1>9. CASE SpawnFails
    <2>1. pc = "evaluate" /\ Evaluated(Deny("detail")) /\ ~loop
          /\ UNCHANGED <<child, pipe>>
      BY <1>9 DEF SpawnFails, Asked, script
    <2> QED  BY <1>0, <1>1, <1>2, <2>1, EvaluatedIInv DEF Evaluating
  <1>4. CASE CollectOutput
    <2>1. pc = "script" /\ child = "exited" /\ UNCHANGED <<child, pipe>>
          /\ Evaluated(ShellVerdict(case.answer))
      BY <1>4 DEF CollectOutput, script
    <2>2. ShellVerdict(case.answer) \in Final
      BY Finals DEF ShellVerdict, Contexts
    <2> QED  BY <1>0, <1>2, <2>1, <2>2, EvaluatedIInv DEF Evaluating
  <1>5. CASE ScriptTimeout
    <2>1. pc = "script" /\ child' \in {"none", "exited", "killed"}
          /\ pipe' = pipe /\ Evaluated(Deny("generic"))
      BY <1>0, <1>5 DEF ScriptTimeout, DropChild
    <2> QED  BY <1>0, <1>2, <2>1, EvaluatedIInv DEF Evaluating
  <1>6. CASE JsReturns
    <2>1. pc = "engine" /\ case.engine = "js" /\ UNCHANGED <<child, pipe>>
          /\ Evaluated(JsVerdict(case.answer))
      BY <1>6 DEF JsReturns, script
    <2> QED  BY <1>0, <1>1, <1>2, <2>1, VerdictType, EvaluatedIInv DEF Evaluating
  <1>7. CASE ProcReturns
    <2>1. pc = "engine" /\ case.engine = "proc" /\ UNCHANGED <<child, pipe>>
          /\ Evaluated(ProcVerdict(case.answer))
      BY <1>7 DEF ProcReturns, script
    <2> QED  BY <1>0, <1>1, <1>2, <2>1, VerdictType, EvaluatedIInv DEF Evaluating
  <1>8. CASE SpawnScript \/ CallEngine
    <2>1. /\ pc = "evaluate" /\ pc' \in {"script", "engine"} /\ ~loop
          /\ child' = "running" => pc' = "script" \/ child = "running"
          /\ pc' = "script" => case.engine = "shell"
          /\ child' \in {child, "running"} /\ pipe' = pipe
          /\ UNCHANGED <<case, loop, result, logFile, log, status, shown,
                         phase, limit, header, length, max, transmitted,
                         received, sent, trailers>>
      BY <1>8
      DEF SpawnScript, CallEngine, Asked, Await, arrival, script, reply, vars
    <2>2. HandlingTypeOK'
      BY <1>0, <2>1 DEF IInv, HandlingTypeOK, Awaiting
    <2>3. Decided' /\ Limited' /\ Answered' /\ Logged' /\ ScriptEndsWithRequest'
      BY <1>0, <1>1, <2>1
      DEF IInv, Decided, Limited, Answered, Logged, ScriptEndsWithRequest,
          Evaluating, LimitTaken
    <2> QED  BY <2>2, <2>3 DEF IInv
  <1> QED
    BY <1>3, <1>4, <1>5, <1>6, <1>7, <1>8, <1>9 DEF EngineStep

\* The handler answers: the phase of the byte limit stays, or it rejects.
LEMMA ReplyIInv ==
    ASSUME IInv, NEW code \in {200, 403, 413, 502}, NEW text \in Contexts,
           Reply(code, text), result \in Final,
           pc \in {"dispatch", "limit", "upstream"},
           UNCHANGED <<limit, header, length, max, transmitted, received,
                       sent, trailers>>,
           \/ phase' = phase /\ code # 413
           \/ phase' = "rejected" /\ LimitTaken /\ sent = 0 /\ code = 413,
           code = 200 => pc = "upstream",
           code = 403 => result.action = "deny" /\ text = result.context
    PROVE  IInv'
  <1>1. UNCHANGED <<case, loop, child, pipe, result, logFile, log>>
        /\ status' = code /\ shown' = text /\ pc' = "done"
    BY DEF Reply, arrival, script
  <1>2. HandlingTypeOK'
    BY <1>1 DEF IInv, HandlingTypeOK
  <1>3. Decided' /\ Logged' /\ ScriptEndsWithRequest'
    BY <1>1, PendingIsNot
    DEF IInv, Decided, Logged, ScriptEndsWithRequest, Evaluating
  <1>4. Limited' /\ Answered'
    BY <1>1 DEF IInv, Limited, Answered, Evaluating, LimitTaken
  <1> QED  BY <1>2, <1>3, <1>4 DEF IInv

LEMMA LoopIInv == IInv /\ LoopDetected => IInv'
  <1> SUFFICES ASSUME IInv, LoopDetected PROVE IInv'  OBVIOUS
  <1>1. /\ pc = "evaluate" /\ loop
        /\ status' = 403 /\ shown' = "loop" /\ pc' = "done"
        /\ UNCHANGED <<case, loop, child, pipe, result, logFile, log, phase,
                       limit, header, length, max, transmitted, received,
                       sent, trailers>>
    BY DEF LoopDetected, Reply, arrival, script, vars
  <1>2. HandlingTypeOK'  BY <1>1 DEF IInv, HandlingTypeOK
  <1>3. Decided' /\ Logged' /\ ScriptEndsWithRequest'
    BY <1>1
    DEF IInv, Decided, Logged, ScriptEndsWithRequest, Evaluating
  <1>4. Limited' /\ Answered'
    BY <1>1 DEF IInv, Limited, Answered, Evaluating, LimitTaken
  <1> QED  BY <1>2, <1>3, <1>4 DEF IInv

LEMMA HandlerIInv == IInv /\ HandlerStep => IInv'
  <1> SUFFICES ASSUME IInv, HandlerStep PROVE IInv'  OBVIOUS
  <1>0. pc \in {"log", "dispatch", "limit"} =>
          /\ result \in Final /\ status = 0 /\ phase = "apply" /\ sent = 0
    BY DEF IInv, Decided, Limited, Answered
  <1>1. CASE EngineStep  BY <1>1, EngineIInv
  <1>2. CASE WriteLog
    <2>1. /\ pc = "log" /\ pc' = "dispatch"
          /\ log' = IF logFile = "ok" THEN Append(log, result.action) ELSE log
          /\ UNCHANGED <<case, loop, child, pipe, result, logFile, status,
                         shown, phase, limit, header, length, max,
                         transmitted, received, sent, trailers>>
      BY <1>2 DEF WriteLog, arrival, script, reply, vars
    <2>2. log = <<>>  BY <2>1 DEF IInv, Logged
    <2>3. result \in Final /\ result # Undecided /\ result.action \in {"allow", "deny"}
      BY <1>0, <2>1, PendingIsNot DEF Final
    <2>4. log' = IF logFile = "ok" THEN <<result.action>> ELSE <<>>
      BY <2>1, <2>2
    <2>5. log' \in Seq({"allow", "deny"})
      <3>1. <<result.action>> \in Seq({"allow", "deny"})  BY <2>3
      <3>2. <<>> \in Seq({"allow", "deny"})  OBVIOUS
      <3> QED  BY <2>4, <3>1, <3>2
    <2>6. HandlingTypeOK'  BY <2>1, <2>5 DEF IInv, HandlingTypeOK
    <2>7. Decided' /\ Limited' /\ Answered' /\ Logged' /\ ScriptEndsWithRequest'
      BY <2>1, <2>3, <2>4
      DEF IInv, Decided, Limited, Answered, Logged, ScriptEndsWithRequest,
          Evaluating, LimitTaken
    <2> QED  BY <2>6, <2>7 DEF IInv
  <1>3. CASE Forbid
    <2>1. pc = "dispatch" /\ result.action = "deny" /\ Reply(403, result.context)
          /\ UNCHANGED <<phase, limit, header, length, max, transmitted,
                         received, sent, trailers>>
      BY <1>3 DEF Forbid, vars
    <2>2. result.context \in Contexts  BY <1>0, <2>1 DEF Final
    <2> QED  BY <1>0, <2>1, <2>2, ReplyIInv
  <1>4. CASE BadTarget
    <2>1. pc = "dispatch" /\ Reply(502, "none")
          /\ UNCHANGED <<phase, limit, header, length, max, transmitted,
                         received, sent, trailers>>
      BY <1>4 DEF BadTarget, vars
    <2>2. "none" \in Contexts  BY DEF Contexts
    <2> QED  BY <1>0, <2>1, <2>2, ReplyIInv
  <1>5. CASE ForwardUnlimited
    <2>1. /\ pc = "dispatch" /\ pc' = "upstream" /\ result.action = "allow"
          /\ result.max_tx_bytes = NoLimit
          /\ UNCHANGED <<case, loop, child, pipe, result, logFile, log,
                         status, shown, phase, limit, header, length, max,
                         transmitted, received, sent, trailers>>
      BY <1>5 DEF ForwardUnlimited, arrival, script, reply, vars
    <2>2. HandlingTypeOK'  BY <2>1 DEF IInv, HandlingTypeOK, Awaiting
    <2>3. Decided' /\ Limited' /\ Answered' /\ Logged' /\ ScriptEndsWithRequest'
      BY <1>0, <2>1
      DEF IInv, Decided, Limited, Answered, Logged, ScriptEndsWithRequest,
          Evaluating, LimitTaken
    <2> QED  BY <2>2, <2>3 DEF IInv
  <1>6. CASE CallByteLimit
    <2>1. /\ pc = "dispatch" /\ pc' = "limit" /\ result.action = "allow"
          /\ result.max_tx_bytes # NoLimit /\ limit' = result.max_tx_bytes
          /\ UNCHANGED <<case, loop, child, pipe, result, logFile, log,
                         status, shown, phase, header, length, max,
                         transmitted, received, sent, trailers>>
      BY <1>6 DEF CallByteLimit, arrival, script, reply
    <2>2. result.max_tx_bytes \in Limits  BY <1>0, <2>1 DEF Final
    <2>3. HandlingTypeOK'  BY <2>1, <2>2 DEF IInv, HandlingTypeOK, Awaiting
    <2>4. Decided' /\ Limited' /\ Answered' /\ Logged' /\ ScriptEndsWithRequest'
      BY <1>0, <2>1
      DEF IInv, Decided, Limited, Answered, Logged, ScriptEndsWithRequest,
          Evaluating, LimitTaken
    <2> QED  BY <2>3, <2>4 DEF IInv
  <1>7. CASE RejectOversized
    <2>1. pc = "limit" /\ phase' = "rejected" /\ Reply(413, "none")
          /\ UNCHANGED <<limit, header, length, max, transmitted, received,
                         sent, trailers>>
      BY <1>7 DEF RejectOversized, Reject, request
    <2>2. LimitTaken /\ "none" \in Contexts
      BY <2>1 DEF IInv, Limited, Contexts
    <2> QED  BY <1>0, <2>1, <2>2, ReplyIInv
  <1>8. CASE ForwardLimited
    <2>1. /\ pc = "limit" /\ pc' = "upstream" /\ phase' = "stream"
          /\ max' = SaturatingSub(limit, header)
          /\ UNCHANGED <<case, loop, child, pipe, result, logFile, log,
                         status, shown, limit, header, length, transmitted,
                         received, sent, trailers>>
      BY <1>8 DEF ForwardLimited, WrapBody, request, arrival, script, reply
    <2>2. limit \in 0..(Word - 1) /\ header \in 1..(Word - 1) /\ Word \in Nat
      BY ConstantsAssumption DEF IInv, HandlingTypeOK
    <2>3. max' \in U64  BY <2>1, <2>2 DEF SaturatingSub, U64
    <2>4. HandlingTypeOK'  BY <2>1, <2>3 DEF IInv, HandlingTypeOK, Awaiting
    <2>5. Decided' /\ Limited' /\ Answered' /\ Logged' /\ ScriptEndsWithRequest'
      BY <1>0, <2>1
      DEF IInv, Decided, Limited, Answered, Logged, ScriptEndsWithRequest,
          Evaluating, LimitTaken
    <2> QED  BY <2>4, <2>5 DEF IInv
  <1> QED
    BY <1>1, <1>2, <1>3, <1>4, <1>5, <1>6, <1>7, <1>8, LoopIInv DEF HandlerStep

LEMMA PollIInv == IInv /\ PollBody => IInv'
  <1> SUFFICES ASSUME IInv, PollBody PROVE IInv'  OBVIOUS
  <1>1. /\ UNCHANGED <<case, loop, pc, child, pipe, result, logFile, log,
                       status, shown, limit, header, length, max>>
        /\ phase = "stream" /\ phase' \in {"stream", "ended", "failed"}
    BY DEF PollBody, PollAtLimit, PollPass, PollTruncate, PollTrailers, PollEnd,
           PollError, handler, arrival, script, reply, request
  <1>2. /\ max \in 0..(Word - 1) /\ transmitted \in 0..(Word - 1) /\ Word \in Nat
        /\ received \in Nat /\ sent \in Nat /\ trailers \in BOOLEAN
        /\ BodyBound \in Nat
    BY ConstantsAssumption DEF IInv, HandlingTypeOK, U64, BodyBound, Chunked
  <1>3. /\ transmitted' \in 0..(Word - 1)
        /\ received' \in Nat /\ sent' \in Nat
    <2>1. CASE PollPass  BY <1>2, <2>1 DEF PollPass
    <2>2. CASE PollTruncate  BY <1>2, <2>2 DEF PollTruncate
    <2>3. CASE PollAtLimit \/ PollTrailers \/ PollEnd \/ PollError
      BY <1>2, <2>3 DEF PollAtLimit, PollTrailers, PollEnd, PollError
    <2> QED  BY <2>1, <2>2, <2>3 DEF PollBody
  <1>4. trailers' \in BOOLEAN
    BY <1>2
    DEF PollBody, PollAtLimit, PollPass, PollTruncate, PollTrailers, PollEnd,
        PollError
  <1>5. HandlingTypeOK'
    BY <1>1, <1>3, <1>4 DEF IInv, HandlingTypeOK, U64
  <1>6. Decided' /\ Limited' /\ Answered' /\ Logged' /\ ScriptEndsWithRequest'
    BY <1>1
    DEF IInv, Decided, Limited, Answered, Logged, ScriptEndsWithRequest,
        Evaluating, LimitTaken
  <1> QED  BY <1>5, <1>6 DEF IInv

LEMMA NextIInv == IInv /\ [HandlingNext]_handlingVars => IInv'
  <1> SUFFICES ASSUME IInv, [HandlingNext]_handlingVars PROVE IInv'  OBVIOUS
  <1>1. CASE HandlerStep  BY <1>1, HandlerIInv
  <1>2. CASE PollBody  BY <1>2, PollIInv
  <1>3. CASE UpstreamAnswers \/ UpstreamFails
    <2>1. pc = "upstream" /\ \E code \in {200, 502} : Reply(code, "none")
      BY <1>3 DEF UpstreamAnswers, UpstreamFails
    <2>2. UNCHANGED <<phase, limit, header, length, max, transmitted,
                      received, sent, trailers>>
      BY <1>3 DEF UpstreamAnswers, UpstreamFails, vars
    <2>3. result \in Final /\ "none" \in Contexts
      BY <2>1 DEF IInv, Decided, Contexts
    <2> QED  BY <2>1, <2>2, <2>3, ReplyIInv
  <1>4. CASE ClientLeaves
    <2>1. /\ pc \in Awaiting /\ pc' = "dropped"
          /\ child' = IF child = "running" THEN "killed" ELSE child
          /\ UNCHANGED <<case, loop, pipe, result, logFile, log, status,
                         shown, phase, limit, header, length, max,
                         transmitted, received, sent, trailers>>
      BY <1>4 DEF ClientLeaves, DropChild, arrival, reply, vars
    <2>2. status = 0  BY <2>1 DEF IInv, Answered, Awaiting
    <2>3. HandlingTypeOK'  BY <2>1 DEF IInv, HandlingTypeOK
    <2>4. Decided' /\ Limited' /\ Answered' /\ Logged' /\ ScriptEndsWithRequest'
      BY <2>1, <2>2
      DEF IInv, Decided, Limited, Answered, Logged, ScriptEndsWithRequest,
          Evaluating, LimitTaken, Awaiting
    <2> QED  BY <2>3, <2>4 DEF IInv
  <1>5. CASE ScriptExits \/ PipeCloses \/ UNCHANGED handlingVars
    <2>1. /\ child' \in {child, "exited"} /\ pipe' \in {pipe, TRUE, FALSE}
          /\ UNCHANGED <<case, loop, pc, result, logFile, log, status, shown,
                         phase, limit, header, length, max, transmitted,
                         received, sent, trailers>>
      BY <1>5
      DEF ScriptExits, PipeCloses, handlingVars, handler, arrival, script, reply,
          vars
    <2>2. pipe' \in BOOLEAN  BY <2>1, Zenon DEF IInv, HandlingTypeOK
    <2>3. child' \in {"none", "running", "exited", "killed"}
      BY <2>1 DEF IInv, HandlingTypeOK
    <2>4. HandlingTypeOK'  BY <2>1, <2>2, <2>3 DEF IInv, HandlingTypeOK
    <2>5. Decided' /\ Limited' /\ Answered' /\ Logged' /\ ScriptEndsWithRequest'
      BY <2>1
      DEF IInv, Decided, Limited, Answered, Logged, ScriptEndsWithRequest,
          Evaluating, LimitTaken
    <2> QED  BY <2>4, <2>5 DEF IInv
  <1>6. CASE ScriptWaitFails
    <2>1. child \in {"none", "running", "exited", "killed"} /\ pipe \in BOOLEAN
      BY DEF IInv, HandlingTypeOK
    <2>2. pc = "script" /\ child' \in {"none", "exited", "killed"}
          /\ pipe' = pipe /\ Evaluated(Deny("detail"))
      BY <1>6, <2>1 DEF ScriptWaitFails, DropChild
    <2>3. Deny("detail") \in Final /\ ~loop
      BY <2>2, Finals DEF Contexts, IInv, Decided
    <2> QED  BY <2>1, <2>2, <2>3, EvaluatedIInv DEF Evaluating
  <1> QED  BY <1>1, <1>2, <1>3, <1>4, <1>5, <1>6 DEF HandlingNext

LEMMA Invariance == HandlingSpec => []IInv
  BY InitIInv, NextIInv, PTL DEF HandlingSpec

\* Request, verdict and counters keep their types: a verdict is what
\* EvaluationResult can hold, and no counter of the body leaves its word.
THEOREM TypeCorrect == HandlingSpec => []HandlingTypeOK
  BY Invariance, PTL DEF IInv

\* kill_on_drop: no script runs on behind its request.
THEOREM ScriptsEnd == HandlingSpec => []ScriptEndsWithRequest
  BY Invariance, PTL DEF IInv

LEMMA IInvLogged == IInv => LoggedBeforeActedOn
  <1> SUFFICES ASSUME IInv PROVE LoggedBeforeActedOn  OBVIOUS
  <1>1. Forwarded \/ (status # 0 /\ ~loop) => result # Undecided /\ pc # "log"
    BY PendingIsNot
    DEF IInv, Forwarded, Decided, Limited, Answered, LimitTaken
  <1>2. log # <<>> => log = <<result.action>>  BY DEF IInv, Logged
  <1>3. \A a : <<a>> # <<>>  OBVIOUS
  <1> QED  BY <1>1, <1>2, <1>3 DEF IInv, Logged, LoggedBeforeActedOn

\* LoggingRuleEngine: what a request does upstream, and the answer to a request
\* that was evaluated, come after its one line in the log, which tells the
\* decision that is acted on.
THEOREM LoggedFirst == HandlingSpec => []LoggedBeforeActedOn
  BY Invariance, IInvLogged, PTL

-----------------------------------------------------------------------------
(* The byte limit of a request that is handled.                            *)

LEMMA HandledSizes == IInv => Sizes
  BY ConstantsAssumption DEF IInv, HandlingTypeOK, Sizes

\* To the body a step of the handler is one of RequestByteLimit, none, or the
\* choice of a limit that nothing has been measured with yet.
LEMMA StepOfBody ==
    ASSUME IInv, [HandlingNext]_handlingVars
    PROVE  \/ [Next]_vars
           \/ /\ phase = "apply"
              /\ UNCHANGED <<phase, header, length, max, transmitted,
                             received, sent, trailers>>
  <1>1. CASE CallByteLimit
    <2>1. pc = "dispatch"  BY <1>1 DEF CallByteLimit
    <2>2. phase = "apply"  BY <2>1 DEF IInv, Limited
    <2> QED  BY <1>1, <2>2 DEF CallByteLimit
  <1>2. CASE RejectOversized \/ ForwardLimited \/ PollBody
    BY <1>2 DEF RejectOversized, ForwardLimited, PollBody, Next
  <1>3. CASE EngineStep
    BY <1>3
    DEF EngineStep, BadUrl, SpawnScript, SpawnFails, CollectOutput,
        ScriptTimeout, CallEngine, JsReturns, ProcReturns, EngineFails,
        Evaluated, Await
  <1>4. CASE \/ WriteLog \/ Forbid \/ BadTarget \/ ForwardUnlimited
             \/ LoopDetected \/ ScriptWaitFails
    BY <1>4 DEF WriteLog, Forbid, BadTarget, ForwardUnlimited, LoopDetected,
                ScriptWaitFails, Evaluated
  <1>5. CASE \/ UpstreamAnswers \/ UpstreamFails \/ ClientLeaves \/ ScriptExits
             \/ PipeCloses \/ UNCHANGED handlingVars
    BY <1>5
    DEF UpstreamAnswers, UpstreamFails, ClientLeaves, ScriptExits, PipeCloses,
        handlingVars
  <1> QED
    BY <1>1, <1>2, <1>3, <1>4, <1>5 DEF HandlingNext, HandlerStep

LEMMA InitHandledBooks == HandlingInit => Books
  <1> SUFFICES ASSUME HandlingInit PROVE Books  OBVIOUS
  <1>1. Sizes  BY InitIInv, HandledSizes
  <1>2. Accounting  BY <1>1, Words DEF HandlingInit, Accounting, Chunked
  <1> QED  BY <1>1, <1>2 DEF Books

LEMMA NextHandledBooks ==
    IInv /\ Books /\ [HandlingNext]_handlingVars => Books'
  <1> SUFFICES ASSUME IInv, Books, [HandlingNext]_handlingVars PROVE Books'
    OBVIOUS
  <1>1. CASE [Next]_vars  BY <1>1, NextBooks
  <1>2. CASE /\ phase = "apply"
             /\ UNCHANGED <<phase, header, length, max, transmitted, received,
                            sent, trailers>>
    <2>1. Sizes'
      <3>1. IInv'  BY NextIInv
      <3> QED
        BY <3>1, ConstantsAssumption DEF IInv, HandlingTypeOK, Sizes
    <2>2. Accounting'  BY <1>2 DEF Books, Accounting
    <2> QED  BY <2>1, <2>2 DEF Books
  <1> QED  BY <1>1, <1>2, StepOfBody

LEMMA HandledBookkeeping == HandlingSpec => [](IInv /\ Books)
  BY Invariance, InitHandledBooks, NextHandledBooks, PTL DEF HandlingSpec

\* For the limit that the verdict named, whichever engine gave it: no request
\* is taken past it by its body.
THEOREM HandledBodiesWithinLimit == HandlingSpec => []BodyWithinLimit
  BY HandledBookkeeping, BooksBody, PTL

\* And no byte is held back that this limit has room for.
THEOREM HandledBodiesWhole == HandlingSpec => []NothingWithheld
  BY HandledBookkeeping, BooksWithheld, PTL

\* What hyper is told about a body stays true while the handler goes its way,
\* answers early or is dropped.
THEOREM HandledHintsKept == HandlingSpec => HintsKept
  <1>1. IInv /\ Books /\ [HandlingNext]_handlingVars => [HintStep]_vars
    <2> SUFFICES ASSUME IInv, Books, [HandlingNext]_handlingVars
                 PROVE  [HintStep]_vars
      OBVIOUS
    <2>1. CASE [Next]_vars  BY <2>1, NextHints
    <2>2. CASE phase = "apply" /\ sent' = sent  BY <2>2 DEF HintStep
    <2> QED  BY <2>1, <2>2, StepOfBody
  <1> QED  BY <1>1, HandledBookkeeping, PTL DEF HandlingSpec, HintsKept

\* A request whose Content-Length takes it past the limit of its verdict is not
\* forwarded, unless the sum with the header size wraps.
THEOREM HandledOversizedRejected ==
    ASSUME \A h \in HeaderSizes, l \in Lengths : h + l < Word
    PROVE  HandlingSpec => []OversizedIsRejected
  <1>1. HandlingInit => OversizedIsRejected
    BY DEF HandlingInit, OversizedIsRejected
  <1>2. IInv => NoWrap  BY DEF IInv, HandlingTypeOK, NoWrap
  <1>3. IInv /\ OversizedIsRejected /\ [HandlingNext]_handlingVars
        => OversizedIsRejected'
    <2> SUFFICES ASSUME IInv, OversizedIsRejected, [HandlingNext]_handlingVars
                 PROVE  OversizedIsRejected'
      OBVIOUS
    <2>1. CASE [Next]_vars  BY <1>2, <2>1, HandledSizes, NextOversized
    <2>2. CASE phase = "apply" /\ phase' = phase
      BY <2>2 DEF OversizedIsRejected
    <2> QED  BY <2>1, <2>2, StepOfBody
  <1> QED  BY <1>1, <1>3, Invariance, PTL DEF HandlingSpec

-----------------------------------------------------------------------------
(* The documented response format.                                         *)

\* The denials of an engine that could not ask the rules.
Failures == {Deny("generic"), Deny("detail")}

\* The verdict is the documented one, or the denial of an engine that failed.
AsDocumented == result \in {Undecided} \cup Failures \/ Agrees(result, Documented)

\* A step leaves the request and its verdict, or it is the return of an engine
\* that had not decided yet.
LEMMA StepOfResult ==
    ASSUME Unlisted = {}, IInv, [HandlingNext]_handlingVars
    PROVE  /\ UNCHANGED <<case, loop>>
           /\ \/ result' = result
              \/ /\ result = Undecided
                 /\ result' \in Final
                 /\ result' \in Failures \/ Agrees(result', Documented)
  <1>0. case \in Cases /\ (pc \in Evaluating => result = Undecided)
    BY DEF IInv, HandlingTypeOK, Decided
  <1>1. Failures \subseteq Final  BY Finals DEF Failures, Contexts
  <1>2. CASE EngineStep \/ ScriptWaitFails
    <2>1. CASE \/ BadUrl \/ SpawnFails \/ EngineFails \/ ScriptTimeout
               \/ ScriptWaitFails
      <3>1. pc \in Evaluating /\ result' \in Failures /\ UNCHANGED <<case,
                                                                     loop>>
        BY <2>1
        DEF BadUrl, SpawnFails, EngineFails, ScriptTimeout, ScriptWaitFails,
            Asked, Evaluated, Evaluating, Failures, arrival
      <3> QED  BY <1>0, <1>1, <3>1
    <2>2. CASE CollectOutput
      <3>1. pc = "script" /\ result' = ShellVerdict(case.answer)
            /\ UNCHANGED <<case, loop>>
        BY <2>2 DEF CollectOutput, Evaluated, arrival
      <3>2. case.engine = "shell"
        BY <3>1 DEF IInv, Decided
      <3> QED
        BY <1>0, <3>1, <3>2, VerdictDocumented, VerdictType
        DEF Evaluating, Documented
    <2>3. CASE JsReturns
      <3>1. pc = "engine" /\ result' = JsVerdict(case.answer)
            /\ UNCHANGED <<case, loop>> /\ case.engine = "js"
        BY <2>3 DEF JsReturns, Evaluated, arrival
      <3> QED
        BY <1>0, <3>1, VerdictDocumented, VerdictType DEF Evaluating, Documented
    <2>4. CASE ProcReturns
      <3>1. pc = "engine" /\ result' = ProcVerdict(case.answer)
            /\ UNCHANGED <<case, loop>> /\ case.engine = "proc"
        BY <2>4 DEF ProcReturns, Evaluated, arrival
      <3> QED
        BY <1>0, <3>1, VerdictDocumented, VerdictType DEF Evaluating, Documented
    <2>5. CASE SpawnScript \/ CallEngine
      BY <2>5 DEF SpawnScript, CallEngine, Await, arrival
    <2> QED  BY <1>2, <2>1, <2>2, <2>3, <2>4, <2>5 DEF EngineStep
  <1>3. CASE \/ LoopDetected \/ WriteLog \/ Forbid \/ BadTarget
             \/ ForwardUnlimited \/ CallByteLimit \/ RejectOversized
             \/ ForwardLimited
    BY <1>3
    DEF LoopDetected, WriteLog, Forbid, BadTarget, ForwardUnlimited,
        CallByteLimit, RejectOversized, ForwardLimited, Reply, arrival
  <1>4. CASE \/ PollBody \/ UpstreamAnswers \/ UpstreamFails \/ ClientLeaves
             \/ ScriptExits \/ PipeCloses \/ UNCHANGED handlingVars
    BY <1>4
    DEF PollBody, UpstreamAnswers, UpstreamFails, ClientLeaves, ScriptExits,
        PipeCloses, handlingVars, handler, arrival, Reply
  <1> QED  BY <1>2, <1>3, <1>4 DEF HandlingNext, HandlerStep

LEMMA DocumentedInvariance ==
    ASSUME Unlisted = {}
    PROVE  HandlingSpec => [](IInv /\ AsDocumented)
  <1>1. HandlingInit => AsDocumented
    BY DEF HandlingInit, AsDocumented
  <1>2. ASSUME IInv, AsDocumented, [HandlingNext]_handlingVars
        PROVE  AsDocumented'
    <2>1. /\ case' = case
          /\ \/ result' = result
             \/ result' \in Failures \/ Agrees(result', Documented)
      BY <1>2, StepOfResult
    <2>2. Documented' = Documented  BY <2>1 DEF Documented
    <2>3. Failures' = Failures  BY DEF Failures, Deny
    <2> QED  BY <1>2, <2>1, <2>2, <2>3 DEF AsDocumented, Agrees
  <1> QED  BY <1>1, <1>2, Invariance, PTL DEF HandlingSpec

LEMMA DocumentedFacts ==
    ASSUME IInv, AsDocumented
    PROVE  /\ result.action = "allow" =>
                /\ Documented.action = "allow"
                /\ Documented.max_tx_bytes = result.max_tx_bytes
           /\ result.action = "deny" =>
                \/ result.context \in {"generic", "detail"}
                \/ /\ Documented.action = "deny"
                   /\ Documented.context \in {result.context, "any"}
  <1>1. Undecided.action = "pending"  BY PendingIsNot
  <1>2. \A r \in Failures : r.action = "deny" /\ r.context \in {"generic", "detail"}
    BY DEF Failures, Deny
  <1>3. CASE Agrees(result, Documented)  BY <1>3 DEF Agrees
  <1>4. CASE result \in {Undecided} \cup Failures  BY <1>1, <1>2, <1>4
  <1> QED  BY <1>3, <1>4 DEF AsDocumented

LEMMA AnswersDocumented ==
    ASSUME IInv, AsDocumented
    PROVE  AnsweredAsDocumented
  <1>1. ASSUME Forwarded
        PROVE  /\ result.action = "allow"
               /\ phase = "apply" <=> result.max_tx_bytes = NoLimit
    BY <1>1 DEF IInv, Forwarded, Limited, LimitTaken
  <1>2. Forwarded => /\ Documented.action = "allow"
                     /\ (phase = "apply") = (Documented.max_tx_bytes = NoLimit)
    BY <1>1, DocumentedFacts
  <1>3. status = 413 => Documented.max_tx_bytes # NoLimit
    BY DocumentedFacts DEF IInv, Answered
  <1>4. status = 403 => \/ shown \in {"generic", "detail"}
                        \/ shown = "loop" /\ loop
                        \/ /\ Documented.action = "deny"
                           /\ Documented.context \in {shown, "any"}
    BY DocumentedFacts DEF IInv, Answered
  <1> QED  BY <1>2, <1>3, <1>4 DEF AnsweredAsDocumented

\* What reaches the upstream server was allowed, under the limit that the
\* answer names, by the documented response format; refusals tell the
\* documented message, for all answers of scripts, programs and expressions
\* that the documentation and the code read alike.
THEOREM AnswersAreDocumented ==
    ASSUME Unlisted = {}
    PROVE  HandlingSpec => []AnsweredAsDocumented
  <1>1. IInv /\ AsDocumented => AnsweredAsDocumented  BY AnswersDocumented
  <1> QED  BY <1>1, DocumentedInvariance, PTL

-----------------------------------------------------------------------------
(* The refinements.                                                        *)

TheDecision == [d \in {"allow", "deny"} |->
                  IF d = Documented.action THEN result.action ELSE "pending"]

LEMMA InitDecision == HandlingInit => Engine!Init
  BY PendingIsNot DEF HandlingInit, Engine!Init, Engine!Pending

\* A documented verdict names an action and a limit.
LEMMA DocumentedRange ==
    ASSUME NEW c \in Cases
    PROVE  LET documented == DocumentedVerdict(c.engine, c.answer)
           IN /\ documented.action \in {"allow", "deny"}
              /\ documented.max_tx_bytes \in Limits \cup {NoLimit}
  <1> DEFINE Range(d) == /\ d.action \in {"allow", "deny"}
                         /\ d.max_tx_bytes \in Limits \cup {NoLimit}
  <1>1. /\ \A n \in Limits \cup {NoLimit} : Range(Allow(n))
        /\ \A x : Range(Deny(x))
    BY DEF Allow, Deny
  <1>2. \A o : Range(DocumentedShell(o))  BY DEF DocumentedShell
  <1> HIDE DEF Range
  <1>3. ASSUME NEW t, t.allow = "limited" => t.bytes \in Limits
        PROVE  Range(DocumentedText(t))
    <2>1. Range(DocumentedObject(t))
      <3>1. Unset(t.allow) => t.allow \notin {"limited", "true"}  BY DEF Unset
      <3>2. /\ t.allow = "limited" => DocumentedObject(t) = Allow(t.bytes)
            /\ t.allow = "true" => DocumentedObject(t) = Allow(NoLimit)
            /\ t.allow \notin {"limited", "true"} =>
                 \/ DocumentedObject(t) = Deny("any")
                 \/ DocumentedObject(t) =
                      Deny(IF Unset(t.message) THEN "none" ELSE "given")
        BY <3>1, Zenon DEF DocumentedObject
      <3> QED  BY <1>1, <1>3, <3>2
    <2>2. \/ DocumentedText(t) = Allow(NoLimit)
          \/ DocumentedText(t) = DocumentedObject(t)
          \/ \E x : DocumentedText(t) = Deny(x)
      BY Zenon DEF DocumentedText
    <2> QED  BY <1>1, <2>1, <2>2
  <1>4. CASE c.engine = "shell"
    <2>1. DocumentedVerdict(c.engine, c.answer) = DocumentedShell(c.answer)
      BY <1>4, Zenon DEF DocumentedVerdict
    <2> QED  BY <1>2, <2>1 DEF Range
  <1>5. CASE c.engine = "proc"
    <2>1. DocumentedVerdict(c.engine, c.answer) = DocumentedText(c.answer)
      BY <1>5, Zenon DEF DocumentedVerdict
    <2>2. c.answer.allow = "limited" => c.answer.bytes \in Limits
      BY <1>5, CaseFields, TextFields
    <2> QED  BY <1>3, <2>1, <2>2 DEF Range
  <1>6. CASE c.engine = "js"
    <2>1. DocumentedVerdict(c.engine, c.answer) = DocumentedJs(c.answer)
      BY <1>6, Zenon DEF DocumentedVerdict
    <2>2. \/ \E f : DocumentedJs(c.answer) = DocumentedText(Plain(f))
          \/ /\ c.answer.type = "object"
             /\ DocumentedJs(c.answer) = DocumentedText(c.answer.text)
          \/ \E x : DocumentedJs(c.answer) = Deny(x)
      BY Zenon DEF DocumentedJs
    <2>3. \A f : Plain(f).allow # "limited"  BY DEF Plain
    <2>4. c.answer.type = "object" =>
            (c.answer.text.allow = "limited" => c.answer.text.bytes \in Limits)
      <3> SUFFICES ASSUME c.answer.type = "object"
                   PROVE  c.answer.text.allow = "limited" =>
                            c.answer.text.bytes \in Limits
        OBVIOUS
      <3>1. PICK f \in StructForms : c.answer.text \in JsObjects(f, Limits)
        BY <1>6, CaseFields, JsValueFields DEF JsTypes
      <3>2. "limited" \in JsFields(AllowFields)  BY DEF AllowFields, JsFields
      <3> QED  BY <3>1, <3>2, StructFields DEF JsObjects
    <2>5. \A f : Range(DocumentedText(Plain(f)))  BY <1>3, <2>3
    <2> QED  BY <1>1, <1>3, <2>1, <2>2, <2>4, <2>5 DEF Range
  <1> QED  BY <1>4, <1>5, <1>6, CaseFields

LEMMA StepDecides ==
    ASSUME Unlisted = {}, IInv, [HandlingNext]_handlingVars
    PROVE  [Engine!Next]_TheDecision
  <1>1. /\ case' = case
        /\ \/ result' = result
           \/ /\ result = Undecided
              /\ result' \in Failures \/ Agrees(result', Documented)
    BY StepOfResult
  <1>2. Documented' = Documented  BY <1>1 DEF Documented
  <1>3. CASE result' = result  BY <1>2, <1>3 DEF TheDecision
  <1>4. CASE /\ result = Undecided
             /\ result' \in Failures \/ Agrees(result', Documented)
    <2>1. PICK r \in {"allow", "deny"} : r = Documented.action
      BY DocumentedRange DEF IInv, HandlingTypeOK, Documented
    <2>2. result.action = "pending" /\ result'.action \in {r, "deny"}
      BY <1>4, <2>1, PendingIsNot DEF Failures, Agrees, Deny
    <2>3. TheDecision' = [TheDecision EXCEPT ![r] = result'.action]
      BY <1>2, <2>1, <2>2 DEF TheDecision
    <2>4. TheDecision[r] = "pending"  BY <2>1, <2>2 DEF TheDecision
    <2>5. [d \in {"allow", "deny"} |-> d][r] = r  BY <2>1
    <2>6. Engine!Decide(r)
      BY <2>1, <2>2, <2>3, <2>4, <2>5 DEF Engine!Decide, Engine!Pending, TheDecision
    <2>7. Engine!Next  BY <2>6 DEF Engine!Next
    <2> QED  BY <2>7
  <1> QED  BY <1>1, <1>3, <1>4

\* evaluate, behind whatever engine and whatever befalls it, decides a request
\* once, as documented for the answer of the rules, or denies it: so no request
\* is allowed that an answer of the listed kinds does not allow explicitly.
THEOREM HandlingImplementsRuleEngine ==
    ASSUME Unlisted = {}
    PROVE  HandlingSpec => ImplementsRuleEngine
  <1>1. IInv /\ [HandlingNext]_handlingVars => [Engine!Next]_TheDecision
    BY StepDecides
  <1> QED
    BY <1>1, InitDecision, Invariance, PTL
    DEF HandlingSpec, ImplementsRuleEngine, Engine!Spec, TheDecision

\* The limit that is documented for an answer, and the one that the handler
\* takes over from the verdict.
LEMMA LimitFacts ==
    ASSUME IInv, AsDocumented
    PROVE  /\ DocumentedLimit \in Limits \cup {0}
           /\ pc = "limit" => limit = DocumentedLimit
  <1>1. Documented.max_tx_bytes \in Limits \cup {NoLimit}
    BY DocumentedRange DEF IInv, HandlingTypeOK, Documented
  <1>2. pc = "limit" => /\ result.action = "allow"
                        /\ result.max_tx_bytes # NoLimit
                        /\ limit = result.max_tx_bytes
    BY DEF IInv, Limited, LimitTaken
  <1>3. pc = "limit" => /\ Documented.max_tx_bytes # NoLimit
                        /\ limit = Documented.max_tx_bytes
    BY <1>2, DocumentedFacts
  <1> QED  BY <1>1, <1>3 DEF DocumentedLimit

LEMMA InitLimit ==
    ASSUME Unlisted = {}
    PROVE  HandlingInit => ByteLimit!Init
  <1> SUFFICES ASSUME HandlingInit PROVE ByteLimit!Init  OBVIOUS
  <1>1. IInv /\ AsDocumented  BY InitIInv DEF HandlingInit, AsDocumented
  <1>2. DocumentedLimit \in Limits \cup {0}  BY <1>1, LimitFacts
  <1> QED  BY <1>2 DEF HandlingInit, ByteLimit!Init, ByteLimit!Chunked, Chunked

LEMMA StepLimits ==
    ASSUME Unlisted = {}, IInv, AsDocumented, [HandlingNext]_handlingVars
    PROVE  [ByteLimit!Next]_ByteLimit!vars
  <1>1. case' = case  BY StepOfResult
  <1>2. DocumentedLimit' = DocumentedLimit
    BY <1>1 DEF DocumentedLimit, Documented
  <1>3. ASSUME UNCHANGED <<phase, header, length, max, transmitted, received,
                           sent, trailers>>
        PROVE  UNCHANGED ByteLimit!vars
    BY <1>2, <1>3 DEF ByteLimit!vars
  <1>4. CASE EngineStep
    BY <1>3, <1>4
    DEF EngineStep, BadUrl, SpawnScript, SpawnFails, CollectOutput,
        ScriptTimeout, CallEngine, JsReturns, ProcReturns, EngineFails,
        Evaluated, Await, vars
  <1>5. CASE \/ LoopDetected \/ ScriptWaitFails \/ WriteLog \/ Forbid
             \/ BadTarget \/ ForwardUnlimited \/ CallByteLimit
             \/ UpstreamAnswers \/ UpstreamFails \/ ClientLeaves
             \/ ScriptExits \/ PipeCloses \/ UNCHANGED handlingVars
    BY <1>3, <1>5
    DEF LoopDetected, ScriptWaitFails, Evaluated, WriteLog, Forbid, BadTarget,
        ForwardUnlimited, CallByteLimit, UpstreamAnswers, UpstreamFails,
        ClientLeaves, ScriptExits, PipeCloses, handlingVars, vars
  <1>6. CASE RejectOversized
    <2>1. limit = DocumentedLimit /\ Reject
      BY <1>6, LimitFacts DEF RejectOversized
    <2>2. ByteLimit!Reject
      BY <1>2, <2>1
      DEF Reject, TotalSize, Chunked, request, ByteLimit!Reject,
          ByteLimit!TotalSize, ByteLimit!Chunked, ByteLimit!request
    <2> QED  BY <2>2 DEF ByteLimit!Next
  <1>7. CASE ForwardLimited
    <2>1. limit = DocumentedLimit /\ WrapBody
      BY <1>7, LimitFacts DEF ForwardLimited
    <2>2. ByteLimit!WrapBody
      BY <1>2, <2>1
      DEF WrapBody, SaturatingSub, TotalSize, Chunked, request,
          ByteLimit!WrapBody, ByteLimit!SaturatingSub, ByteLimit!TotalSize,
          ByteLimit!Chunked, ByteLimit!request
    <2> QED  BY <2>2 DEF ByteLimit!Next
  <1>8. CASE PollBody
    <2>1. CASE PollAtLimit
      BY <1>2, <2>1
      DEF PollAtLimit, request, ByteLimit!PollAtLimit, ByteLimit!request,
          ByteLimit!Next
    <2>2. CASE PollPass
      BY <1>2, <2>2
      DEF PollPass, BodyBound, Chunked, request, ByteLimit!PollPass,
          ByteLimit!BodyBound, ByteLimit!Chunked, ByteLimit!request,
          ByteLimit!Next
    <2>3. CASE PollTruncate
      BY <1>2, <2>3
      DEF PollTruncate, BodyBound, Chunked, request, ByteLimit!PollTruncate,
          ByteLimit!BodyBound, ByteLimit!Chunked, ByteLimit!request,
          ByteLimit!Next
    <2>4. CASE PollTrailers
      BY <1>2, <2>4
      DEF PollTrailers, Chunked, request, ByteLimit!PollTrailers,
          ByteLimit!Chunked, ByteLimit!request, ByteLimit!Next
    <2>5. CASE PollEnd
      BY <1>2, <2>5
      DEF PollEnd, Chunked, request, ByteLimit!PollEnd, ByteLimit!Chunked,
          ByteLimit!request, ByteLimit!Next
    <2>6. CASE PollError
      BY <1>2, <2>6
      DEF PollError, request, ByteLimit!PollError, ByteLimit!request,
          ByteLimit!Next
    <2> QED  BY <1>8, <2>1, <2>2, <2>3, <2>4, <2>5, <2>6 DEF PollBody
  <1> QED
    BY <1>4, <1>5, <1>6, <1>7, <1>8 DEF HandlingNext, HandlerStep

\* The handler treats the body of a request as apply_request_byte_limit and
\* LimitedBody do for the limit that is documented for the answer of the
\* rules, for all limits, header sizes and lengths.
THEOREM HandlingImplementsByteLimit ==
    ASSUME Unlisted = {}
    PROVE  HandlingSpec => ImplementsByteLimit
  <1>1. IInv /\ AsDocumented /\ [HandlingNext]_handlingVars
        => [ByteLimit!Next]_ByteLimit!vars
    BY StepLimits
  <1> QED
    BY <1>1, InitLimit, DocumentedInvariance, PTL
    DEF HandlingSpec, ImplementsByteLimit, ByteLimit!Spec
=============================================================================
