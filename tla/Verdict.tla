------------------------------ MODULE Verdict ------------------------------
(***************************************************************************)
(* How the answer of the user's rules becomes an EvaluationResult:         *)
(* RuleResponse (rules/common.rs), the conversion of V8 values             *)
(* (rules/v8_js.rs), the exit status of a script (rules/shell.rs).  A text *)
(* is what trim leaves of it, told apart as far as the parser does: a      *)
(* word, a JSON struct with its two fields, or something else.             *)
(***************************************************************************)
EXTENDS Integers

NoLimit == -1    \* max_tx_bytes is None

\* The JSON values of the two fields.  "limited" is an object with a u64
\* under max_tx_bytes; "invalid" is what the deserializer refuses: a number,
\* a string, an object without max_tx_bytes or with a negative or fractional
\* one; for deny_message, whatever is no string.
AllowFields == {"absent", "null", "true", "false", "limited", "invalid"}
MessageFields == {"absent", "null", "string", "invalid"}

Plain(form) == [form |-> form, allow |-> "absent", bytes |-> 0,
               message |-> "absent"]

\* serde reads a struct from an object, or from an array of its fields.
StructForms == {"object", "array"}

Structs(form, allow, message, limits) ==
    {[form |-> form, allow |-> a, bytes |-> n, message |-> m] :
        a \in allow \ {"limited"}, n \in {0}, m \in message}
    \cup
    {[form |-> form, allow |-> "limited", bytes |-> n, message |-> m] :
        n \in limits, m \in message}

\* A property of a V8 object may be more than JSON can write.
JsFields(fields) == fields \cup {"undefined", "NaN"}

Texts(forms, limits) ==
    {Plain(f) : f \in {"true", "false", "blank", "other"}}
    \cup UNION {Structs(f, AllowFields, MessageFields, limits) : f \in forms}

-----------------------------------------------------------------------------
(* rules/common.rs                                                         *)

RuleResponse(allow, bytes, message) ==
    [allow |-> allow, bytes |-> bytes, deny_message |-> message]

\* Option fields may be missing from an object, not from an array.
Deserializes(text) ==
    /\ text.form \in StructForms
    /\ text.allow # "invalid" /\ text.message # "invalid"
    /\ text.form = "array" => "absent" \notin {text.allow, text.message}

\* Mutant: the text that is no verdict is not kept.
FromStringSilent(text) ==
    CASE text.form \in {"true", "false"} -> RuleResponse(text.form, 0, "none")
      [] Deserializes(text) ->
           RuleResponse(IF text.allow \in {"absent", "null"} THEN "none"
                                                             ELSE text.allow,
                        text.bytes,
                        IF text.message = "string" THEN "given" ELSE "none")
      [] OTHER -> RuleResponse("false", 0, "none")

\* from_string
FromString(text) ==
    CASE text.form \in {"true", "false"} -> RuleResponse(text.form, 0, "none")
      [] Deserializes(text) ->
           RuleResponse(IF text.allow \in {"absent", "null"} THEN "none"
                                                             ELSE text.allow,
                        text.bytes,
                        IF text.message = "string" THEN "given" ELSE "none")
      [] OTHER -> RuleResponse("false", 0, "text")

Allow(bytes) == [action |-> "allow", context |-> "none", max_tx_bytes |-> bytes]
AllowWith(context) ==
    [action |-> "allow", context |-> context, max_tx_bytes |-> NoLimit]
Deny(context) ==
    [action |-> "deny", context |-> context, max_tx_bytes |-> NoLimit]

\* Mutant: a missing allow is an allow, whatever else there is.
ToEvaluationResultLenient(response) ==
    CASE response.allow = "limited" -> Allow(response.bytes)
      [] response.allow = "false" -> Deny(response.deny_message)
      [] OTHER -> Allow(NoLimit)

\* to_evaluation_result, and what each engine builds of it.
ToEvaluationResult(response) ==
    CASE response.allow = "true" -> Allow(NoLimit)
      [] response.allow = "false" -> Deny(response.deny_message)
      [] response.allow = "limited" -> Allow(response.bytes)
      [] OTHER -> IF response.deny_message = "none"
                  THEN Allow(NoLimit)
                  ELSE Deny(response.deny_message)

-----------------------------------------------------------------------------
(* rules/v8_js.rs                                                          *)

\* A value of the expression: a boolean, a string with its text, an object
\* or an array with its properties (without a toJSON of its own), a function,
\* null or undefined or a number ("other"), or an exception, which
\* JSON.stringify may throw too.
JsValues(limits) ==
    {[type |-> t, text |-> Plain("other")] :
        t \in {"true", "false", "function", "other", "throws"}}
    \cup {[type |-> "string", text |-> t] : t \in Texts(StructForms, limits)}
    \cup {[type |-> "object", text |-> t] :
            t \in UNION {Structs(f, JsFields(AllowFields),
                                 JsFields(MessageFields), limits) :
                            f \in StructForms}}

\* JSON.stringify writes NaN as null, and leaves undefined out of an object;
\* in an array it writes that as null too.
Stringified(form, field) ==
    CASE field = "NaN" -> "null"
      [] field = "undefined" -> IF form = "array" THEN "null" ELSE "absent"
      [] OTHER -> field

\* value_to_response_string; the JSON of a function is undefined, whose text
\* is no verdict.
ValueToResponseString(value) ==
    CASE value.type = "object" ->
           [value.text EXCEPT !.allow = Stringified(value.text.form, @),
                              !.message = Stringified(value.text.form, @)]
      [] value.type = "function" -> Plain("other")
      [] value.type \in {"true", "false"} -> Plain(value.type)
      [] value.type = "string" -> value.text
      [] OTHER -> Plain("false")

\* execute_with_isolate, and execute_js_blocking's answer to its errors.
JsVerdict(value) ==
    IF value.type = "throws"
    THEN Deny("generic")
    ELSE ToEvaluationResult(FromString(ValueToResponseString(value)))

-----------------------------------------------------------------------------
(* rules/shell.rs and rules/proc.rs                                        *)

ShellOutcomes == [status : {"success", "failure"}, form : {"blank", "other"}]

\* The exit status decides; what the script printed becomes the context.
ShellVerdict(outcome) ==
    LET context == IF outcome.form = "blank" THEN "none" ELSE "text"
    IN IF outcome.status = "success" THEN AllowWith(context) ELSE Deny(context)

\* A line of the program that is not blank.
ProcVerdict(text) == ToEvaluationResult(FromString(text))

-----------------------------------------------------------------------------
(* What the documentation says.  docs/includes/response-format-table.md    *)
(* lists the answers; of every other line of a program line-processor.md    *)
(* says "Treated as deny with that text as the message", of every other     *)
(* answer introduction.md says "Requests are blocked unless explicitly      *)
(* allowed".  The context "any" stands for a message that is not            *)
(* documented.                                                             *)

Unset(field) == field \in {"absent", "null", "undefined", "NaN"}

DocumentedObject(text) ==
    CASE text.allow = "limited" -> Allow(text.bytes)
      [] text.allow = "true" -> Allow(NoLimit)
      [] Unset(text.allow) /\ Unset(text.message) -> Deny("any")
      [] OTHER -> Deny(IF Unset(text.message) THEN "none" ELSE "given")

DocumentedText(text) ==
    CASE text.form = "true" -> Allow(NoLimit)
      [] text.form = "false" -> Deny("none")
      [] text.form = "object" /\ "invalid" \notin {text.allow, text.message} ->
           DocumentedObject(text)
      [] OTHER -> Deny("text")

\* docs/guide/rule-engines/shell.md
DocumentedShell(outcome) ==
    [action |-> IF outcome.status = "success" THEN "allow" ELSE "deny",
     context |-> IF outcome.form = "blank" THEN "none" ELSE "text",
     max_tx_bytes |-> NoLimit]

\* Of strings the comment at rules/v8_js.rs:153 says "will be treated as deny
\* message".
DocumentedJs(value) ==
    CASE value.type \in {"true", "false"} -> DocumentedText(Plain(value.type))
      [] value.type = "object" -> DocumentedText(value.text)
      [] value.type = "string" -> Deny("text")
      [] OTHER -> Deny("any")

DocumentedVerdict(engine, answer) ==
    CASE engine = "shell" -> DocumentedShell(answer)
      [] engine = "proc" -> DocumentedText(answer)
      [] OTHER -> DocumentedJs(answer)

\* The answers that the code takes otherwise than documented: a JSON array, an
\* object with neither field, a JavaScript string that holds a verdict.
TextKind(text) ==
    CASE text.form = "array" -> "array"
      [] text.form = "object" /\ Unset(text.allow) /\ Unset(text.message)
           -> "unset"
      [] OTHER -> "listed"

AnswerKind(engine, answer) ==
    CASE engine = "proc" -> TextKind(answer)
      [] engine = "js" /\ answer.type = "object" -> TextKind(answer.text)
      [] engine = "js" /\ answer.type = "string"
           /\ answer.text.form \notin {"blank", "other"} -> "string"
      [] OTHER -> "listed"
=============================================================================
