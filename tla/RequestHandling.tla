-------------------------- MODULE RequestHandling --------------------------
(***************************************************************************)
(* One request from its arrival to its answer: handle_http_request and     *)
(* handle_decrypted_https_request call the rule engine, a script of its    *)
(* own, V8 in a blocking task or the shared program, write the request     *)
(* log, and answer 403, answer 413, or forward the request under the byte  *)
(* limit of the verdict (RequestByteLimit, whose variables and actions     *)
(* this module takes over).  hyper drops the handler at an await when the  *)
(* client leaves.  Requests share nothing here: what they share of the     *)
(* engines is in ProcRuleEngine and JsRuleReload.                          *)
(***************************************************************************)
EXTENDS RequestByteLimit, Sequences, Verdict

CONSTANT
    Unlisted    \* the kinds of answers not as documented that rules give

ASSUME UnlistedAssumption == Unlisted \subseteq {"array", "unset", "string"}

\* A request is told by the engine that judges it and the answer the user's
\* rules have for it.
AllCases ==
    [engine : {"shell"}, answer : ShellOutcomes]
    \cup [engine : {"js"}, answer : JsValues(Limits)]
    \cup [engine : {"proc"}, answer : Texts(StructForms, Limits)]

Cases == {c \in AllCases :
            AnswerKind(c.engine, c.answer) \in Unlisted \cup {"listed"}}

VARIABLES
    case,     \* this request
    loop,     \* it came in as plain HTTP and carries this instance's nonce
    pc,       \* where its handler stands
    child,    \* the script: "none", "running", "exited", "killed"
    pipe,     \* a descendant of the script holds its stdout open
    result,   \* the EvaluationResult
    logFile,  \* --request-log: "none", "ok", or "failing"
    log,      \* the lines of this request in it
    status,   \* the status of the answer, 0 before there is one
    shown     \* what the answer tells of the verdict

script == <<child, pipe>>
reply == <<status, shown>>
arrival == <<case, loop, logFile>>
handler == <<arrival, pc, script, result, log, reply>>
handlingVars == <<handler, vars>>

Undecided == [action |-> "pending", context |-> "none", max_tx_bytes |-> NoLimit]

\* What a verdict says: nothing, the rules' deny_message, their text, the
\* engine's own words, or those with the error of the operating system.
Contexts == {"none", "given", "text", "generic", "detail"}
Results == [action : {"pending", "allow", "deny"}, context : Contexts,
            max_tx_bytes : Limits \cup {NoLimit}]

\* The awaits.
Awaiting == {"script", "engine", "upstream"}

HandlingTypeOK ==
    /\ case \in Cases /\ loop \in BOOLEAN
    /\ pc \in Awaiting \cup {"evaluate", "log", "dispatch", "limit", "done",
                             "dropped"}
    /\ child \in {"none", "running", "exited", "killed"} /\ pipe \in BOOLEAN
    /\ result \in Results
    /\ logFile \in {"none", "ok", "failing"}
    /\ log \in Seq({"allow", "deny"})
    /\ status \in {0, 200, 403, 413, 502}
    /\ shown \in Contexts \cup {"loop"}
    /\ phase \in {"apply", "stream", "rejected", "ended", "failed"}
    /\ limit \in Limits \cup {0} /\ header \in HeaderSizes
    /\ length \in Lengths \cup {Chunked}
    /\ max \in U64 /\ transmitted \in U64
    /\ received \in Nat /\ sent \in Nat
    /\ trailers \in BOOLEAN

HandlingInit ==
    /\ case \in Cases /\ loop \in BOOLEAN
    /\ pc = "evaluate"
    /\ child = "none" /\ pipe = FALSE
    /\ result = Undecided
    /\ logFile \in {"none", "ok", "failing"}
    /\ log = <<>>
    /\ status = 0 /\ shown = "none"
    /\ phase = "apply" /\ limit = 0 /\ header \in HeaderSizes
    /\ length \in Lengths \cup {Chunked}
    /\ max = 0 /\ transmitted = 0 /\ received = 0 /\ sent = 0
    /\ trailers = FALSE

-----------------------------------------------------------------------------
(* The engines.                                                            *)

\* The engine's evaluate returns r to LoggingRuleEngine.
Evaluated(r) ==
    /\ result' = r
    /\ pc' = "log"
    /\ UNCHANGED <<arrival, log, reply, vars>>

Await(where) ==
    /\ pc' = where
    /\ UNCHANGED <<arrival, result, log, reply, vars>>

\* evaluate_with_context_and_ip is called: no loop was detected.
Asked(engines) == pc = "evaluate" /\ ~loop /\ case.engine \in engines

\* The URL does not parse: the engine says so and does not ask.
BadUrl ==
    /\ Asked({"shell", "proc"})
    /\ Evaluated(Deny("generic"))
    /\ UNCHANGED script

SpawnScript ==
    /\ Asked({"shell"})
    /\ child' = "running"
    /\ Await("script")
    /\ UNCHANGED pipe

\* The error of the operating system goes into the verdict.
SpawnFails ==
    /\ Asked({"shell"})
    /\ Evaluated(Deny("detail"))
    /\ UNCHANGED script

\* wait_with_output: the script has exited and nobody holds its pipes.
CollectOutput ==
    /\ pc = "script" /\ child = "exited" /\ ~pipe
    /\ Evaluated(ShellVerdict(case.answer))
    /\ UNCHANGED script

\* kill_on_drop: the future that owns the child goes.
DropChild ==
    /\ child' = IF child = "running" THEN "killed" ELSE child
    /\ UNCHANGED pipe

\* Mutant: without kill_on_drop.
ScriptTimeoutKeepsChild ==
    /\ pc = "script"
    /\ UNCHANGED script
    /\ Evaluated(Deny("generic"))

\* Mutant: the timeout covers the script, not what holds its pipes.
ScriptTimeoutOfChild ==
    /\ pc = "script" /\ child = "running"
    /\ DropChild
    /\ Evaluated(Deny("generic"))

\* Thirty seconds.
ScriptTimeout ==
    /\ pc = "script"
    /\ DropChild
    /\ Evaluated(Deny("generic"))

\* wait_with_output returns an error.
ScriptWaitFails ==
    /\ pc = "script"
    /\ DropChild
    /\ Evaluated(Deny("detail"))

\* V8 in a blocking task, or a line to the program.
CallEngine ==
    /\ Asked({"js", "proc"})
    /\ Await("engine")
    /\ UNCHANGED script

JsReturns ==
    /\ pc = "engine" /\ case.engine = "js"
    /\ Evaluated(JsVerdict(case.answer))
    /\ UNCHANGED script

ProcReturns ==
    /\ pc = "engine" /\ case.engine = "proc" /\ case.answer.form # "blank"
    /\ Evaluated(ProcVerdict(case.answer))
    /\ UNCHANGED script

\* The blocking task panics or cannot parse the URL; both attempts with the
\* program fail, which a blank line makes them do.
EngineFails ==
    /\ pc = "engine"
    /\ Evaluated(Deny("generic"))
    /\ UNCHANGED script

-----------------------------------------------------------------------------
(* LoggingRuleEngine and the handler.                                      *)

\* Mutant: only what is refused is logged.
WriteLogOfDenials ==
    /\ pc = "log"
    /\ log' = IF logFile = "ok" /\ result.action = "deny"
              THEN Append(log, result.action) ELSE log
    /\ pc' = "dispatch"
    /\ UNCHANGED <<arrival, script, result, reply, vars>>

\* A line that cannot be written is given up.
WriteLog ==
    /\ pc = "log"
    /\ log' = IF logFile = "ok" THEN Append(log, result.action) ELSE log
    /\ pc' = "dispatch"
    /\ UNCHANGED <<arrival, script, result, reply, vars>>

Reply(code, text) ==
    /\ status' = code /\ shown' = text
    /\ pc' = "done"
    /\ UNCHANGED <<arrival, script, result, log>>

\* handle_http_request finds our nonce: it answers before the rules are asked.
LoopDetected ==
    /\ pc = "evaluate" /\ loop
    /\ Reply(403, "loop")
    /\ UNCHANGED vars

\* create_forbidden_response
Forbid ==
    /\ pc = "dispatch" /\ result.action = "deny"
    /\ Reply(403, result.context)
    /\ UNCHANGED vars

\* The judged URL is no URI for hyper.
BadTarget ==
    /\ pc = "dispatch" /\ result.action = "allow"
    /\ Reply(502, "none")
    /\ UNCHANGED vars

\* Mutant: a limit of zero counts as no limit.
ForwardUnlimitedZero ==
    /\ pc = "dispatch" /\ result.action = "allow"
    /\ result.max_tx_bytes \in {NoLimit, 0}
    /\ pc' = "upstream"
    /\ UNCHANGED <<arrival, script, result, log, reply, vars>>

\* No limit: the body goes upstream as it comes.
ForwardUnlimited ==
    /\ pc = "dispatch" /\ result.action = "allow"
    /\ result.max_tx_bytes = NoLimit
    /\ pc' = "upstream"
    /\ UNCHANGED <<arrival, script, result, log, reply, vars>>

\* Mutant: the limit is applied whether there is one or not.
CallByteLimitAlways ==
    /\ pc = "dispatch" /\ result.action = "allow"
    /\ limit' = result.max_tx_bytes
    /\ pc' = "limit"
    /\ UNCHANGED <<arrival, script, result, log, reply, phase, header,
                   length, max, transmitted, received, sent, trailers>>

\* Mutant: the limit loses its last byte.
CallByteLimitShort ==
    /\ pc = "dispatch" /\ result.action = "allow"
    /\ result.max_tx_bytes # NoLimit
    /\ limit' = SaturatingSub(result.max_tx_bytes, 1)
    /\ pc' = "limit"
    /\ UNCHANGED <<arrival, script, result, log, reply, phase, header,
                   length, max, transmitted, received, sent, trailers>>

CallByteLimit ==
    /\ pc = "dispatch" /\ result.action = "allow"
    /\ result.max_tx_bytes # NoLimit
    /\ limit' = result.max_tx_bytes
    /\ pc' = "limit"
    /\ UNCHANGED <<arrival, script, result, log, reply, phase, header,
                   length, max, transmitted, received, sent, trailers>>

\* ExceedsLimit: the client is answered at once.
RejectOversized == pc = "limit" /\ Reject /\ Reply(413, "none")

ForwardLimited ==
    /\ pc = "limit" /\ WrapBody
    /\ pc' = "upstream"
    /\ UNCHANGED <<arrival, script, result, log, reply>>

\* The upstream connection polls the body, also after an early answer.
PollBody ==
    /\ pc # "dropped"
    /\ PollAtLimit \/ PollPass \/ PollTruncate \/ PollTrailers
       \/ PollEnd \/ PollError
    /\ UNCHANGED handler

UpstreamAnswers == pc = "upstream" /\ Reply(200, "none") /\ UNCHANGED vars

UpstreamFails == pc = "upstream" /\ Reply(502, "none") /\ UNCHANGED vars

-----------------------------------------------------------------------------
(* The environment.                                                        *)

\* The client leaves: the handler is dropped at its await.
ClientLeaves ==
    /\ pc \in Awaiting
    /\ pc' = "dropped"
    /\ DropChild
    /\ UNCHANGED <<arrival, result, log, reply, vars>>

\* The script exits, and may leave something behind that holds its stdout.
ScriptExits ==
    /\ child = "running"
    /\ child' = "exited"
    /\ pipe' \in BOOLEAN
    /\ UNCHANGED <<arrival, pc, result, log, reply, vars>>

PipeCloses ==
    /\ pipe
    /\ pipe' = FALSE
    /\ UNCHANGED <<arrival, pc, child, result, log, reply, vars>>

-----------------------------------------------------------------------------
EngineStep ==
    \/ BadUrl \/ SpawnScript \/ SpawnFails \/ CollectOutput \/ ScriptTimeout
    \/ CallEngine \/ JsReturns \/ ProcReturns \/ EngineFails

HandlerStep ==
    \/ LoopDetected \/ EngineStep \/ WriteLog \/ Forbid \/ BadTarget
    \/ ForwardUnlimited \/ CallByteLimit \/ RejectOversized \/ ForwardLimited

HandlingNext ==
    \/ HandlerStep \/ PollBody \/ UpstreamAnswers \/ UpstreamFails
    \/ ScriptWaitFails \/ ClientLeaves \/ ScriptExits \/ PipeCloses

HandlingSpec == HandlingInit /\ [][HandlingNext]_handlingVars

\* The runtime polls what can make progress and its timers fire; expressions
\* end, and ProcRuleEngine decides every request.  Scripts, clients and
\* upstream servers owe nothing.
HandlingFairSpec == HandlingSpec /\ WF_handlingVars(HandlerStep)

-----------------------------------------------------------------------------
(* Properties.                                                             *)

Documented == DocumentedVerdict(case.engine, case.answer)

\* For the abstract engine a request is no more than the action that is
\* documented for it.
Engine == INSTANCE RuleEngine WITH
    Requests <- {"allow", "deny"},
    Policy <- [d \in {"allow", "deny"} |-> d],
    decision <- [d \in {"allow", "deny"} |->
                    IF d = Documented.action THEN result.action ELSE "pending"]

\* Whatever the user's rules answer, and whatever becomes of the script, the
\* program or the isolate that they run in, a request is decided once, as the
\* documentation of the response format says, or denied.
ImplementsRuleEngine == Engine!Spec

DocumentedLimit ==
    IF Documented.max_tx_bytes = NoLimit THEN 0 ELSE Documented.max_tx_bytes

ByteLimit == INSTANCE RequestByteLimit WITH
    Limits <- Limits \cup {0}, limit <- DocumentedLimit

\* A request goes upstream as RequestByteLimit has it for the limit that is
\* documented for the rules' answer, not only for the one the engine computed.
ImplementsByteLimit == ByteLimit!Spec

Forwarded == pc = "upstream" \/ status = 200 \/ sent > 0

\* A request that reaches the upstream server was allowed by the documented
\* meaning of the answer and had the limit wrapped around its body that the
\* answer names; a 413 is given for such a limit only; a 403 tells the
\* message that is documented for the answer, that the engine could not ask
\* (NoErrorDetails is about how), or that the request has been here before.
AnsweredAsDocumented ==
    /\ Forwarded => /\ Documented.action = "allow"
                    /\ (phase = "apply") = (Documented.max_tx_bytes = NoLimit)
    /\ status = 413 => Documented.max_tx_bytes # NoLimit
    /\ status = 403 => \/ shown \in {"generic", "detail"}
                       \/ shown = "loop" /\ loop
                       \/ /\ Documented.action = "deny"
                          /\ Documented.context \in {shown, "any"}

\* docs/introduction.md:28, "Requests are blocked unless explicitly allowed":
\* what reaches the upstream server was allowed by an answer that says so.
ExplicitlyAllowed == Forwarded => Documented.action = "allow"

\* rules/v8_js.rs:153, "will be treated as deny message": a request for which
\* the expression gave a string is not forwarded.
StringsDeny ==
    case.engine = "js" /\ case.answer.type = "string" => ~Forwarded

\* docs/guide/rule-engines/line-processor.md:36, "Any other text: Treated as
\* deny with that text as the message": a line that is neither a word nor an
\* object is what its 403 tells.
OtherTextDenies ==
    case.engine = "proc" /\ case.answer.form \in {"other", "array"} =>
        /\ ~Forwarded
        /\ status = 403 => shown \notin {"none", "given"}

\* rules.rs:58, "MUST NOT expose detailed error information in denial
\* messages": no 403 tells the jailed program the operating system's error.
NoErrorDetails == shown # "detail"

\* The script runs only while its request waits for it: neither a timeout
\* nor a client that leaves leaves it behind.
ScriptEndsWithRequest == child = "running" => pc = "script"

\* Everything a request does upstream, and every answer to a request that the
\* rules were asked about, comes after its line in the log, if the log can be
\* written; the line is the only one and tells the decision that was acted on.
LoggedBeforeActedOn ==
    /\ log # <<>> => log = <<result.action>>
    /\ logFile = "ok" /\ (Forwarded \/ (status # 0 /\ ~loop)) => log # <<>>

\* docs/guide/request-logging.md:3, "Log all HTTP/HTTPS requests to a file":
\* every request that is answered has its line.
AllRequestsLogged == logFile = "ok" /\ status # 0 => log # <<>>

\* An evaluation ends, with a verdict or because the client has left, also
\* when a script hangs or a descendant of it keeps its pipe.
EvaluationEnds ==
    pc = "evaluate" /\ ~loop ~> result.action # "pending" \/ pc = "dropped"
=============================================================================
