------------------------------ MODULE Adapter ------------------------------
(***************************************************************************)
(* The conversions of pkg/llm/adapter.go between the requests, responses   *)
(* and usage reports of the OpenAI and the Anthropic protocol, as pure     *)
(* operators.  Texts, images and tool calls are atoms; a joined text is    *)
(* the sequence of the atoms that it was joined from, so that the empty    *)
(* text is <<>>.  What the properties do not tell apart (model, sampling   *)
(* parameters, tool schemas, cache hints) is left out.                     *)
(*                                                                         *)
(* An OpenAI message is [role, content, calls, answers]: content is a      *)
(* sequence of parts [type, val], calls are the tool calls it makes,       *)
(* answers the call whose result it carries, or None.  An Anthropic        *)
(* message is [role, plain, blocks]: plain when content is a string, else  *)
(* a sequence of blocks [type, val].                                       *)
(*                                                                         *)
(* The subsequence at some places, and what is folded step by step, are    *)
(* recursive functions: unlike SelectSeq they can be reasoned about.       *)
(***************************************************************************)
EXTENDS Integers, SequencesExt

CONSTANT None

Pick(s, places) == FlattenSeq([i \in DOMAIN s |-> IF i \in places THEN <<s[i]>> ELSE <<>>])
Those(s, Test(_)) == Pick(s, {i \in DOMAIN s : Test(s[i])})

OfType(blocks, type) == Those(blocks, LAMBDA b : b.type = type)
Texts(parts) == OfType(parts, "text")
Vals(parts) == [i \in DOMAIN parts |-> parts[i].val]
Retyped(parts, type) == [i \in DOMAIN parts |-> [type |-> type, val |-> parts[i].val]]

-----------------------------------------------------------------------------
(* Requests, OpenAI to Anthropic.                                          *)

(* An image given by a URL that is neither data nor http is dropped.       *)
imageURLToAnthropicBlock(part) ==
    IF part.type \in {"image_data", "image_http"} THEN <<part>> ELSE <<>>

convertContentPartsToAnthropic(parts) ==
    FlattenSeq([i \in DOMAIN parts |->
        IF parts[i].type = "text" THEN <<parts[i]>> ELSE imageURLToAnthropicBlock(parts[i])])

ToolResult(msg) == [type |-> "tool_result", val |-> msg.answers]

FromOpenAIMessage(msg) ==
    CASE msg.role = "user" ->
             [role |-> "user", plain |-> msg.plain,
              blocks |-> convertContentPartsToAnthropic(msg.content)]
      [] msg.role = "assistant" ->
             [role |-> "assistant", plain |-> msg.plain /\ msg.calls = <<>>,
              blocks |-> Texts(msg.content)
                         \o [i \in DOMAIN msg.calls |-> [type |-> "tool_use", val |-> msg.calls[i]]]]
      [] OTHER ->
             [role |-> "user", plain |-> TRUE, blocks |-> Texts(msg.content)]

(* Consecutive tool messages become one user message.                      *)
IsSystem(msg) == msg.role \in {"system", "developer"}
AddMessage(done, messages, i) ==
    LET msg == messages[i]
        follows == i > 1 /\ messages[i - 1].role = "tool"
    IN CASE IsSystem(msg) -> done
         [] msg.role = "tool" /\ follows ->
                [done EXCEPT ![Len(done)].blocks = Append(@, ToolResult(msg))]
         [] msg.role = "tool" /\ ~follows ->
                Append(done, [role |-> "user", plain |-> FALSE, blocks |-> <<ToolResult(msg)>>])
         [] OTHER -> Append(done, FromOpenAIMessage(msg))

AddMessages(messages) ==
    LET done[i \in 0 .. Len(messages)] ==
            IF i = 0 THEN <<>> ELSE AddMessage(done[i - 1], messages, i)
    IN done[Len(messages)]

OpenAIToAnthropic(req) ==
    LET messages == AddMessages(req.messages)
        system == Those(req.messages, IsSystem)
    IN [ok |-> messages # <<>>,         \* else errEmptyMessages
        system |-> FlattenSeq([i \in DOMAIN system |-> Texts(system[i].content)]),
        messages |-> messages]

-----------------------------------------------------------------------------
(* Requests, Anthropic to OpenAI.                                          *)

OpenAIMessage(role, plain, content) ==
    [role |-> role, plain |-> plain, content |-> content, calls |-> <<>>, answers |-> None]

FromAssistant(blocks) ==
    LET texts == Texts(blocks)
        calls == Vals(OfType(blocks, "tool_use"))
    IN IF texts = <<>> /\ calls = <<>>
       THEN <<>>                        \* only thinking
       ELSE <<[OpenAIMessage("assistant", TRUE, texts) EXCEPT !.calls = calls]>>

(* Seeded fault: a message with results has nothing else.                   *)
FromUserResults(blocks) ==
    LET results == OfType(blocks, "tool_result")
    IN IF results = <<>> THEN <<OpenAIMessage("user", FALSE, Texts(blocks) \o OfType(blocks, "image_data"))>>
       ELSE [i \in DOMAIN results |->
                [OpenAIMessage("tool", TRUE, <<>>) EXCEPT !.answers = results[i].val]]

(* Seeded fault: what the user says comes before the results.               *)
FromUserTextFirst(blocks) ==
    LET results == OfType(blocks, "tool_result")
        images == OfType(blocks, "image_data")
        content == Texts(blocks) \o images
    IN (IF content = <<>> THEN <<>> ELSE <<OpenAIMessage("user", images = <<>>, content)>>)
       \o [i \in DOMAIN results |->
              [OpenAIMessage("tool", TRUE, <<>>) EXCEPT !.answers = results[i].val]]

FromUser(blocks) ==
    LET results == OfType(blocks, "tool_result")
        images == OfType(blocks, "image_data")      \* image_http has no data: dropped
        content == Texts(blocks) \o images
    IN [i \in DOMAIN results |->
            [OpenAIMessage("tool", TRUE, <<>>) EXCEPT !.answers = results[i].val]]
       \o (IF content = <<>> THEN <<>> ELSE <<OpenAIMessage("user", images = <<>>, content)>>)

(* Blocks of any role but assistant are taken for those of a user.         *)
convertAnthropicMessageToOpenAI(msg) ==
    CASE msg.plain -> <<OpenAIMessage(msg.role, TRUE, msg.blocks)>>
      [] ~msg.plain /\ msg.role = "assistant" -> FromAssistant(msg.blocks)
      [] OTHER -> FromUser(msg.blocks)

InHead(m) == m.role = "system" /\ m.plain
collapseSystemMessagesToHead(messages) ==
    LET head == Those(messages, InHead)
        text == FlattenSeq([i \in DOMAIN head |-> head[i].content])
    IN (IF text = <<>> THEN <<>> ELSE <<OpenAIMessage("system", TRUE, text)>>)
       \o Those(messages, LAMBDA m : ~InHead(m))

AnthropicToOpenAI(req) ==
    collapseSystemMessagesToHead(
        (IF req.system = <<>> THEN <<>> ELSE <<OpenAIMessage("system", TRUE, req.system)>>)
        \o FlattenSeq([i \in DOMAIN req.messages |->
                          convertAnthropicMessageToOpenAI(req.messages[i])]))

-----------------------------------------------------------------------------
(* Usage reports.  The detail fields of an OpenAI report come in two       *)
(* styles: creation and read (Anthropic's), cached and created (OpenAI's,  *)
(* vLLM's).                                                                *)

CacheReadTokens(u) == IF u.read > 0 THEN u.read ELSE u.cached
CacheCreationTokens(u) == IF u.creation > 0 THEN u.creation ELSE u.created

ToUsage(a) ==
    [prompt |-> a.input + a.creation + a.read,
     completion |-> a.output,
     total |-> a.input + a.creation + a.read + a.output,
     creation |-> a.creation, read |-> a.read,
     cached |-> a.creation + a.read, created |-> 0]

ResponsesToUsage(r) ==
    [prompt |-> r.input, completion |-> r.output, total |-> r.input + r.output,
     creation |-> 0, read |-> 0, cached |-> r.cached, created |-> 0]

(* Seeded fault: cached tokens are counted as input, too.                   *)
openAIUsageToAnthropicWhole(u) ==
    [input |-> u.prompt, output |-> u.completion,
     creation |-> CacheCreationTokens(u), read |-> CacheReadTokens(u)]

openAIUsageToAnthropic(u) ==
    LET rest == u.prompt - CacheReadTokens(u) - CacheCreationTokens(u) IN
    [input |-> IF rest < 0 THEN 0 ELSE rest, output |-> u.completion,
     creation |-> CacheCreationTokens(u), read |-> CacheReadTokens(u)]

mergeAnthropicUsage(dst, src) ==
    IF dst = None THEN src
    ELSE [f \in DOMAIN dst |-> IF src[f] > 0 THEN src[f] ELSE dst[f]]

-----------------------------------------------------------------------------
(* Stop reasons and whole responses.  A response is [text, calls, stop];   *)
(* calls are [id, name, args].                                             *)

mapOpenAIStopReasonToAnthropic(reason) ==
    CASE reason = "length" -> "max_tokens"
      [] reason \in {"tool_calls", "function_call"} -> "tool_use"
      [] OTHER -> "end_turn"

mapAnthropicStopReasonToOpenAI(reason) ==
    CASE reason = "max_tokens" -> "length"
      [] reason = "tool_use" -> "tool_calls"
      [] OTHER -> "stop"

OpenAIResponseToAnthropic(resp) ==
    [content |-> (IF resp.text = <<>> THEN <<>> ELSE <<[type |-> "text", val |-> resp.text]>>)
                 \o [i \in DOMAIN resp.calls |-> [type |-> "tool_use", val |-> resp.calls[i]]],
     stop |-> IF resp.stop = None THEN None ELSE mapOpenAIStopReasonToAnthropic(resp.stop)]

AnthropicResponseToOpenAI(resp) ==
    [text |-> FlattenSeq(Vals(Texts(resp.content))),
     calls |-> Vals(OfType(resp.content, "tool_use")),
     stop |-> IF resp.stop = None THEN None ELSE mapAnthropicStopReasonToOpenAI(resp.stop)]
=============================================================================
