---- MODULE AgentThread ----
(* What a thread says to its model: the transcript the agent loop keeps (packages/agent-core/src/agent.ts) and the      *)
(* requests the gateway makes of it for either provider (packages/model-gateway/src/anthropic.ts, openai.ts).  The      *)
(* provider may be switched between two turns of the thread; a turn may be stopped at any time.  A text is one value;   *)
(* a tool call's arguments are an object, JSON but no object, or no JSON.                                               *)
EXTENDS Naturals, Sequences

CONSTANTS
    Replies,        \* what an Anthropic model answers: blocks, the ids of tool_use numbered from 1
    Calls,          \* what an OpenAI-compatible model asks for: the arguments of each call
    maxSteps,       \* model calls in a turn
    MaxTurns        \* bound: turns of the thread

\* The ids of the blocks of a type, in their order.
IdsOf(blocks, type) ==
    LET of[n \in 0 .. Len(blocks)] ==
            IF n = 0 THEN <<>> ELSE IF blocks[n].type = type THEN Append(of[n - 1], blocks[n].id) ELSE of[n - 1]
    IN  of[Len(blocks)]

Providers == {"anthropic", "openai-compatible"}
NoId == 0
text == "text"

VARIABLES
    provider,   \* of the settings, read at the start of a turn
    thread,     \* run.messages: the transcript a reply continues
    messages,   \* the transcript of the turn
    phase,      \* "idle", "asking", "waiting" for the model, "tools"
    step,       \* model calls made in this turn
    at,         \* the tool call that is next
    aborted,    \* Stop has been pressed
    ended,      \* how the last turn ended: "", "done", "aborted", "max_steps", "failed"
    turns,      \* used up to its bound
    ids,        \* ids given to tool calls
    spoken      \* the contents Anthropic has answered with, by the id of their first call

vars == <<provider, thread, messages, phase, step, at, aborted, ended, turns, ids, spoken>>

Message(role, content) == [role |-> role, content |-> content, toolCalls |-> <<>>, toolCallId |-> NoId]
Assistant(content, calls) == [Message("assistant", content) EXCEPT !.toolCalls = calls]
ToolMessage(call, content) == [Message("tool", content) EXCEPT !.toolCallId = call.id]

Init ==
    /\ provider \in Providers /\ thread = <<>> /\ messages = <<>> /\ phase = "idle" /\ step = 0 /\ at = 1
    /\ aborted = FALSE /\ ended = "" /\ turns = 0 /\ ids = 0 /\ spoken = <<>>

----
(* anthropic.ts *)

Block(type, id) == [type |-> type, id |-> id]

\* A turn on the wire: its blocks, or none for a plain text.
Turn(role, blocks) == [role |-> role, content |-> blocks]

\* The turn a message with calls becomes: what was received, verbatim, or else rebuilt from the calls.
toolUse(m) ==
    IF m.toolCalls[1].rawContent # <<>> THEN m.toolCalls[1].rawContent
    ELSE (IF m.content = "" THEN <<>> ELSE <<Block("text", NoId)>>) \o [i \in DOMAIN m.toolCalls |-> Block("tool_use", m.toolCalls[i].id)]

\* One message after the turns so far: consecutive results share a user turn.
add(turnsSoFar, m) ==
    CASE m.role = "system" -> turnsSoFar
      [] m.role = "tool" ->
           LET result == Block("tool_result", m.toolCallId)
               n == Len(turnsSoFar)
           IN  IF n > 0 /\ turnsSoFar[n].role = "user" /\ turnsSoFar[n].content # <<>> THEN [turnsSoFar EXCEPT ![n] = Turn("user", Append(turnsSoFar[n].content, result))]
               ELSE Append(turnsSoFar, Turn("user", <<result>>))
      [] OTHER -> Append(turnsSoFar, Turn(m.role, IF m.toolCalls = <<>> THEN <<>> ELSE toolUse(m)))

split(ms) ==
    LET of[n \in 0 .. Len(ms)] == IF n = 0 THEN <<>> ELSE add(of[n - 1], ms[n])
    IN  of[Len(ms)]

Rebuilt(ms) == {i \in DOMAIN ms : ms[i].toolCalls # <<>> /\ ms[i].toolCalls[1].rawContent = <<>>}

\* parseArguments throws for a rebuilt call whose arguments are no JSON.
Unparsable(ms) == \E i \in Rebuilt(ms) : \E k \in DOMAIN ms[i].toolCalls : ms[i].toolCalls[k].arguments = "broken"

\* The content as received goes with the first call.
captured(calls, content) == [i \in DOMAIN calls |-> [calls[i] EXCEPT !.rawContent = IF i = 1 THEN content ELSE <<>>]]

\* The answer's blocks with fresh ids.
Fresh(blocks) == [i \in DOMAIN blocks |-> IF blocks[i].type = "tool_use" THEN Block("tool_use", blocks[i].id + ids) ELSE blocks[i]]

anthropicChat(blocks) ==
    LET content == Fresh(blocks)
        uses == IdsOf(content, "tool_use")
        calls == [i \in DOMAIN uses |-> [id |-> uses[i], arguments |-> "object", rawContent |-> <<>>]]
    IN  [content |-> IF \E i \in DOMAIN content : content[i].type = "text" THEN text ELSE "",
         toolCalls |-> captured(calls, content), received |-> content]

----
(* openai.ts *)

toWireMessage(m) == [role |-> m.role, tool_calls |-> [k \in DOMAIN m.toolCalls |-> m.toolCalls[k].id], tool_call_id |-> m.toolCallId]

openaiChat(content, calls) ==
    [content |-> content, toolCalls |-> [i \in DOMAIN calls |-> [id |-> ids + i, arguments |-> calls[i], rawContent |-> <<>>]], received |-> <<>>]

----
(* agent.ts *)

\* The turn's transcript becomes the thread's, unless the turn has thrown.
ends(how, ms) ==
    /\ phase' = "idle" /\ ended' = how /\ messages' = <<>>
    /\ thread' = IF how = "failed" THEN thread ELSE ms

Reply ==
    /\ phase = "idle" /\ turns < MaxTurns /\ turns' = turns + 1
    /\ messages' = (IF thread = <<>> THEN <<Message("system", text)>> ELSE thread) \o <<Message("user", text)>>
    /\ phase' = "asking" /\ step' = 0 /\ aborted' = FALSE /\ ended' = ""
    /\ UNCHANGED <<provider, thread, at, ids, spoken>>

\* Between two turns the user may pick the other provider.
Switch ==
    /\ phase = "idle" /\ turns \in 1 .. MaxTurns - 1 /\ provider' \in Providers \ {provider}
    /\ UNCHANGED <<thread, messages, phase, step, at, aborted, ended, turns, ids, spoken>>

Stop ==
    /\ phase # "idle" /\ ~aborted /\ aborted' = TRUE
    /\ UNCHANGED <<provider, thread, messages, phase, step, at, ended, turns, ids, spoken>>

\* The checkpoint before a model call, its last step behind or a request that cannot be made.
Ask ==
    /\ phase = "asking"
    /\ IF step = maxSteps THEN ends("max_steps", messages) /\ UNCHANGED step
       ELSE IF aborted THEN ends("aborted", messages) /\ UNCHANGED step
       ELSE IF provider = "anthropic" /\ Unparsable(messages) THEN ends("failed", messages) /\ UNCHANGED step
       ELSE phase' = "waiting" /\ step' = step + 1 /\ UNCHANGED <<thread, messages, ended>>
    /\ UNCHANGED <<provider, at, aborted, turns, ids, spoken>>

\* The request fails; a stop makes it fail too.
Fails ==
    /\ phase = "waiting" /\ ends(IF aborted THEN "aborted" ELSE "failed", messages)
    /\ UNCHANGED <<provider, step, at, aborted, turns, ids, spoken>>

\* An answer without a call is the last one.
Takes(r) ==
    LET calls == r.toolCalls IN
    /\ ids' = ids + Len(calls)
    /\ spoken' = IF calls = <<>> \/ r.received = <<>> THEN spoken ELSE [i \in DOMAIN spoken \cup {calls[1].id} |-> IF i = calls[1].id THEN r.received ELSE spoken[i]]
    /\ IF calls = <<>> THEN ends("done", Append(messages, Assistant(r.content, <<>>))) /\ UNCHANGED at
       ELSE messages' = Append(messages, Assistant(r.content, calls)) /\ phase' = "tools" /\ at' = 1 /\ UNCHANGED <<thread, ended>>
    /\ UNCHANGED <<provider, step, aborted, turns>>

\* A truncated or refused answer throws: Fails.
AnthropicAnswers ==
    /\ phase = "waiting" /\ provider = "anthropic"
    /\ \E blocks \in Replies : Takes(anthropicChat(blocks))

\* Why the answer has ended is not looked at: one that was cut short is a last answer.
OpenaiAnswers ==
    /\ phase = "waiting" /\ provider = "openai-compatible"
    /\ \/ \E calls \in Calls, content \in {"", text} : Takes(openaiChat(content, calls))
       \/ Takes(openaiChat(text, <<>>))

Current == messages[CHOOSE i \in DOMAIN messages : messages[i].toolCalls # <<>> /\ \A j \in i + 1 .. Len(messages) : messages[j].toolCalls = <<>>].toolCalls

\* mutant: the calls a stop skips are not answered.
answeredNot(call) == IF aborted THEN messages ELSE Append(messages, ToolMessage(call, "output"))

\* Every call gets its message: skipped, an error for arguments that are no object, or what the tool or the user says.
answered(call) == Append(messages, ToolMessage(call, IF aborted THEN "skipped" ELSE IF call.arguments # "object" THEN "error" ELSE "output"))

NextCall ==
    /\ phase = "tools" /\ at <= Len(Current) /\ messages' = answered(Current[at]) /\ at' = at + 1
    /\ UNCHANGED <<provider, thread, phase, step, aborted, ended, turns, ids, spoken>>

CallsDone ==
    /\ phase = "tools" /\ at > Len(Current)
    /\ IF aborted THEN ends("aborted", messages) ELSE phase' = "asking" /\ UNCHANGED <<thread, messages, ended>>
    /\ UNCHANGED <<provider, step, at, aborted, turns, ids, spoken>>

Next == Reply \/ Switch \/ Stop \/ Ask \/ Fails \/ AnthropicAnswers \/ OpenaiAnswers \/ NextCall \/ CallsDone

Spec == Init /\ [][Next]_vars

----
\* Whatever was stopped, skipped, denied or sent to the other provider before: in a request to Anthropic every turn
\* that uses tools is followed by one user turn with exactly their results in their order, and no result is elsewhere;
\* in one to an OpenAI-compatible endpoint the tool messages of a turn come right after it, each once.
WireValid ==
    phase = "waiting" =>
        IF provider = "anthropic" THEN
            LET wire == split(messages) IN
            \A i \in 1 .. Len(wire) :
                /\ IdsOf(wire[i].content, "tool_use") # <<>> => i < Len(wire) /\ wire[i + 1] = Turn("user", [k \in DOMAIN IdsOf(wire[i].content, "tool_use") |-> Block("tool_result", IdsOf(wire[i].content, "tool_use")[k])])
                /\ IdsOf(wire[i].content, "tool_result") # <<>> => i > 1 /\ IdsOf(wire[i - 1].content, "tool_use") # <<>>
        ELSE
            LET wire == [i \in DOMAIN messages |-> toWireMessage(messages[i])]
                asked == UNION {{<<i, k>> : k \in DOMAIN wire[i].tool_calls} : i \in DOMAIN wire}
            IN  /\ \A e \in asked : /\ e[1] + e[2] <= Len(wire) /\ wire[e[1] + e[2]].role = "tool" /\ wire[e[1] + e[2]].tool_call_id = wire[e[1]].tool_calls[e[2]]
                /\ {i \in DOMAIN wire : wire[i].role = "tool"} = {e[1] + e[2] : e \in asked}

\* A turn in which Anthropic used tools goes back to it block for block, its thinking included, after any number of
\* turns, and though the other provider was asked in between.
ThinkingEchoed ==
    phase = "waiting" /\ provider = "anthropic" =>
        LET wire == split(messages) IN
        \A i \in DOMAIN wire :
            LET uses == IdsOf(wire[i].content, "tool_use") IN
            uses # <<>> /\ uses[1] \in DOMAIN spoken => wire[i].content = spoken[uses[1]]
====
