--------------------------- MODULE StreamAdapter ---------------------------
(***************************************************************************)
(* One call of an LLM endpoint whose client and upstream may speak         *)
(* different protocols: the request is converted (Adapter), and the pipes  *)
(* of internal/handler/llm_proxy.go read the upstream's stream item by     *)
(* item, write what pkg/llm/adapter.go makes of it and collect what is     *)
(* recorded.  The client reads what was written one event at a time.       *)
(*                                                                         *)
(* The atom that an item carries is its place in the stream; the           *)
(* identifier and the name of an OpenAI tool call are its index.           *)
(***************************************************************************)
EXTENDS StreamConversion

CONSTANTS
    Value,              \* texts, images and calls
    AnthropicRequests,  \* requests of clients of the Anthropic protocol: [system, messages]
    OpenAIRequests,     \* requests of clients of the OpenAI protocol: [messages]
    Shapes,             \* of chunks: [choice, text, tools, finish, usage], see Chunk
    Reports,            \* token details of an OpenAI report: [creation, read, cached, created]
    InputReports,       \* what message_start reports: [input, creation, read], or None
    Prompt,             \* prompt tokens of a call to an OpenAI upstream
    MaxItems,           \* bound: chunks of a stream before its finish reason
    MaxEvents,          \* bound: events of a stream up to its last delta
    MaxBlocks           \* bound: blocks of a message

(* A request has the parts that its protocol has for the role, and a       *)
(* result follows its call: in the next message that is not a notice, or   *)
(* after other results only.                                               *)
Parts(types) == Seq([type : types, val : Value])
AnthropicMessages ==
    [role : {"user", "system"}, plain : BOOLEAN,
     blocks : Parts({"text", "tool_result", "image_data", "image_http"})]
    \cup [role : {"assistant"}, plain : BOOLEAN, blocks : Parts({"text", "tool_use", "thinking"})]
OpenAIMessages ==
    [role : {"system", "developer"}, plain : {TRUE}, content : Parts({"text"}),
     calls : {<<>>}, answers : {None}]
    \cup [role : {"user"}, plain : BOOLEAN,
          content : Parts({"text", "image_data", "image_http", "image_other"}),
          calls : {<<>>}, answers : {None}]
    \cup [role : {"assistant"}, plain : {TRUE}, content : Parts({"text"}),
          calls : Seq(Value), answers : {None}]
    \cup [role : {"tool"}, plain : {TRUE}, content : {<<>>}, calls : {<<>>}, answers : Value]

UsesOf(m) == {m.blocks[i].val : i \in {j \in DOMAIN m.blocks : m.blocks[j].type = "tool_use"}}
ResultsOf(m) == {m.blocks[i].val : i \in {j \in DOMAIN m.blocks : m.blocks[j].type = "tool_result"}}
LegalAnthropic(messages) ==
    \A i \in DOMAIN messages :
        \A r \in ResultsOf(messages[i]) :
            \E j \in 1 .. i - 1 :
                /\ messages[j].role = "assistant"
                /\ r \in UsesOf(messages[j])
                /\ \A k \in j + 1 .. i - 1 : InHead(messages[k])
LegalOpenAI(messages) ==
    \A i \in DOMAIN messages :
        messages[i].answers # None =>
            \E j \in 1 .. i - 1 :
                /\ messages[i].answers \in ToSet(messages[j].calls)
                /\ \A k \in j + 1 .. i - 1 : messages[k].role = "tool"

ASSUME RequestsAssumption ==
    /\ None \notin Value
    /\ \A r \in AnthropicRequests :
          /\ r.system \in Parts({"text"}) /\ r.messages \in Seq(AnthropicMessages)
          /\ \A i \in DOMAIN r.messages :
                r.messages[i].plain => r.messages[i].blocks \in Parts({"text"})
          /\ LegalAnthropic(r.messages)
    /\ \A r \in OpenAIRequests :
          r.messages \in Seq(OpenAIMessages) /\ LegalOpenAI(r.messages)

(* What an upstream reports has the cached tokens among its prompt tokens. *)
ASSUME ReportsAssumption ==
    /\ Prompt \in Nat
    /\ None \notin Nat
    /\ None \notin [input : Nat, output : Nat, creation : Nat, read : Nat]
    /\ None \notin [prompt : Nat, completion : Nat, total : Nat,
                    creation : Nat, read : Nat, cached : Nat, created : Nat]
    /\ Reports \subseteq [creation : Nat, read : Nat, cached : Nat, created : Nat]
    /\ \A d \in Reports : CacheReadTokens(d) + CacheCreationTokens(d) <= Prompt
    /\ InputReports \subseteq [input : Nat, creation : Nat, read : Nat] \cup {None}

(* A chunk without a choice is a report, and a tool delta has something.   *)
Finishes == {"stop", "length", "tool_calls", "function_call", "content_filter"}
ASSUME ShapesAssumption ==
    /\ None \notin Finishes
    /\ \A s \in Shapes :
          /\ s \in [choice : BOOLEAN, text : BOOLEAN,
                    tools : Seq([index : Nat, id : BOOLEAN, name : BOOLEAN, args : BOOLEAN]),
                    finish : Finishes \cup {None}, usage : Reports \cup {None}]
          /\ \A i \in DOMAIN s.tools : s.tools[i].id \/ s.tools[i].name \/ s.tools[i].args
          /\ ~s.choice => ~s.text /\ s.tools = <<>> /\ s.finish = None

ASSUME BoundsAssumption ==
    MaxItems \in Nat \ {0} /\ MaxEvents \in Nat /\ MaxBlocks \in Nat \ {0}

(* The pipes; between different protocols they are named for the client's. *)
Pipes == {"openai", "anthropic", "to_openai", "to_anthropic", "responses"}

VARIABLES
    pipe,        \* which pipe serves the call
    phase,       \* "asked", "sent", "streaming", "done", "broken", "refused"
    request,     \* the client's request, then None
    converted,   \* what the upstream was sent, until it answers
    received,    \* the items read from the upstream
    conv,        \* OpenAIToAnthropicState or AnthropicToOpenAIState
    written,     \* what was written to the client
    delivered,   \* how much of it the client has read
    seen,        \* the message that a client of pipe to_anthropic has assembled
    result       \* StreamResult: content, finish, usage

vars == <<pipe, phase, request, converted, received, conv, written, delivered, seen, result>>

Atom == Len(received) + 1

-----------------------------------------------------------------------------
(* The upstream (external).  It sends items of its protocol in their order *)
(* and may stop anywhere.                                                  *)

Chunk(shape, n) ==
    LET If(b, v) == IF b THEN v ELSE None
    IN [type |-> "chunk", choice |-> shape.choice, text |-> If(shape.text, n),
        tools |-> [i \in DOMAIN shape.tools |->
                      LET d == shape.tools[i] IN
                      [index |-> d.index, id |-> If(d.id, d.index),
                       name |-> If(d.name, d.index), args |-> If(d.args, n)]],
        finish |-> shape.finish,
        usage |-> IF shape.usage = None THEN None
                  ELSE [prompt |-> Prompt, completion |-> n, total |-> Prompt + n,
                        creation |-> shape.usage.creation, read |-> shape.usage.read,
                        cached |-> shape.usage.cached, created |-> shape.usage.created]]

(* Tools are numbered in the order of their first deltas, identifier and   *)
(* name come once, nothing but a report follows the finish reason, and     *)
(* reports keep to one style.                                              *)
SendsChunk(c) ==
    LET said == AssembleChunks(received)
        finished == \E i \in DOMAIN received : received[i].finish # None
        reports == {i \in DOMAIN received : received[i].usage # None}
        Detail(u) == <<u.creation, u.read, u.cached, u.created>>
    IN /\ c.choice = ~finished
       /\ c.choice /\ c.finish = None => Atom <= MaxItems
       /\ ~c.choice => reports = {}
       /\ \A i \in DOMAIN c.tools :
             LET d == c.tools[i] IN
             /\ d.index <= Len(said.calls)
             /\ d.index < Len(said.calls) =>
                   LET call == said.calls[d.index + 1] IN
                   (call.id = None \/ d.id = None) /\ (call.name = None \/ d.name = None)
       /\ c.usage # None => \A i \in reports : Detail(received[i].usage) = Detail(c.usage)
SentChunks == {c \in {Chunk(shape, Atom) : shape \in Shapes} : SendsChunk(c)}

(* Blocks follow one another, the last report counts the output only.      *)
OutputReport(n) == [input |-> 0, output |-> n, creation |-> 0, read |-> 0]
SentEvents ==
    LET said == Assemble(received)
        next == Cardinality(DOMAIN said.blocks)
        open == {i \in DOMAIN said.blocks : said.blocks[i].open}
        call == [id |-> next, name |-> next]
        room == Atom <= MaxEvents
    IN CASE said.stage = "idle" ->
               {MessageStart(IF u = None THEN None
                             ELSE [input |-> u.input, output |-> 1, creation |-> u.creation, read |-> u.read])
                : u \in InputReports}
         [] said.stage = "content" /\ open # {} ->
               UNION {{BlockStop(i)} \cup {Delta(i, said.blocks[i].kind, <<a>>) : a \in {Atom} \cap 1 .. MaxEvents}
                      : i \in open}
         [] said.stage = "content" /\ open = {} ->
               {MessageDelta(stop, OutputReport(Atom)) : stop \in {"end_turn", "tool_use"}}
               \cup {BlockStart(next, kind, IF kind = "tool_use" THEN call ELSE None) :
                        kind \in IF room /\ next < MaxBlocks THEN {"text", "tool_use", "thinking"} ELSE {}}
         [] said.stage = "ended" -> {MessageStop}
         [] said.stage = "stopped" -> {}

(* A Responses stream: text, then response.completed with its report.      *)
SentResponses ==
    IF \E i \in DOMAIN received : received[i].type = "completed" THEN {}
    ELSE {[type |-> "completed", input |-> Prompt, output |-> Atom, cached |-> 1]}
         \cup {[type |-> type, val |-> a] : type \in {"text_delta", "other"}, a \in {Atom} \cap 1 .. MaxItems}

-----------------------------------------------------------------------------
(* The request.                                                            *)

Init ==
    /\ pipe \in Pipes
    /\ request \in CASE pipe = "to_anthropic" -> AnthropicRequests
                     [] pipe = "to_openai" -> OpenAIRequests
                     [] OTHER -> {None}
    /\ phase = "asked"
    /\ converted = None
    /\ received = <<>> /\ written = <<>> /\ delivered = 0 /\ seen = Unread
    /\ conv = None
    /\ result = [content |-> <<>>, finish |-> None, usage |-> None]

(* AnthropicMessagesStreamRaw of an OpenAI provider, ChatCompletionStream  *)
(* of an Anthropic one; a request of the upstream's protocol goes as it is.*)
Send ==
    /\ phase = "asked"
    /\ converted' = CASE pipe = "to_anthropic" -> AnthropicToOpenAI(request)
                      [] pipe = "to_openai" -> OpenAIToAnthropic(request)
                      [] OTHER -> request
    /\ phase' = IF pipe = "to_openai" /\ ~converted'.ok THEN "refused" ELSE "sent"
    /\ UNCHANGED <<pipe, request, received, conv, written, delivered, seen, result>>

Open ==
    /\ phase = "sent"
    /\ phase' = "streaming"
    /\ request' = None /\ converted' = None
    /\ conv' = CASE pipe = "to_anthropic" -> FreshToAnthropic
                 [] pipe = "to_openai" -> FreshToOpenAI
                 [] OTHER -> None
    /\ UNCHANGED <<pipe, received, written, delivered, seen, result>>

-----------------------------------------------------------------------------
(* The pipes.  Each item is written and flushed before the next is read.   *)

Reads(item) ==
    /\ phase = "streaming"
    /\ delivered = Len(written)
    /\ received' = Append(received, item)
    /\ UNCHANGED <<pipe, phase, request, converted, delivered, seen>>

CollectChunk(c) ==
    [content |-> IF c.choice /\ c.text # None THEN Append(result.content, c.text) ELSE result.content,
     finish |-> IF c.choice /\ c.finish # None THEN c.finish ELSE result.finish,
     usage |-> IF c.usage # None THEN c.usage ELSE result.usage]

pipeOpenAIStream ==
    /\ pipe = "openai"
    /\ \E c \in SentChunks :
          /\ Reads(c)
          /\ written' = Append(written, c)
          /\ result' = CollectChunk(c)
    /\ UNCHANGED conv

pipeOpenAIStreamToAnthropic ==
    /\ pipe = "to_anthropic"
    /\ \E c \in SentChunks :
          LET next == OpenAIChunkToAnthropicEvents(c, conv) IN
          /\ Reads(c)
          /\ written' = written \o next.out
          /\ conv' = [next EXCEPT !.out = <<>>]
          /\ result' = CollectChunk(c)

CollectEvent(e, usageAtStart, usageAtEnd) ==
    CASE e.type = "message_start" -> [result EXCEPT !.usage = IF usageAtStart /\ e.usage # None
                                                             THEN ToUsage(e.usage) ELSE @]
      [] e.type = "block_delta" /\ e.kind = "text" -> [result EXCEPT !.content = @ \o e.val]
      [] e.type = "message_delta" -> [result EXCEPT !.finish = IF e.stop = None THEN @ ELSE e.stop,
                                                    !.usage = IF e.usage = None THEN @ ELSE usageAtEnd]
      [] OTHER -> result

pipeAnthropicStream ==
    /\ pipe = "anthropic"
    /\ \E e \in SentEvents :
          /\ Reads(e)
          /\ written' = Append(written, e)
          /\ result' = CollectEvent(e, FALSE, ToUsage(e.usage))
    /\ UNCHANGED conv

Counted(u) ==
    IF result.usage = None THEN ToUsage(u)
    ELSE IF u.output > 0
         THEN [result.usage EXCEPT !.completion = u.output, !.total = result.usage.prompt + u.output]
         ELSE result.usage

pipeAnthropicStreamToOpenAI ==
    /\ pipe = "to_openai"
    /\ \E e \in SentEvents :
          LET next == AnthropicEventToOpenAIChunk(e, conv) IN
          /\ Reads(e)
          /\ written' = written \o next.out
          /\ conv' = [next EXCEPT !.out = <<>>]
          /\ result' = CollectEvent(e, TRUE, Counted(e.usage))

pipeResponsesStream ==
    /\ pipe = "responses"
    /\ \E e \in SentResponses :
          /\ Reads(e)
          /\ written' = Append(written, e)
          /\ result' = CASE e.type = "text_delta" -> [result EXCEPT !.content = Append(@, e.val)]
                         [] e.type = "completed" ->
                                [result EXCEPT !.finish = "stop", !.usage = ResponsesToUsage(e)]
                         [] OTHER -> result
    /\ UNCHANGED conv

(* [DONE], or the end of the body.  An upstream that ends before its first *)
(* item is left out: the adapter then ends a message that has not begun.   *)
EndOfStream ==
    /\ phase = "streaming"
    /\ delivered = Len(written)
    /\ received # <<>>
    /\ phase' = "done"
    /\ LET final == OpenAIStreamFinalize(conv) IN
       CASE pipe = "to_anthropic" ->
                /\ written' = written \o final.out
                /\ conv' = [final EXCEPT !.out = <<>>]
                /\ result' = [result EXCEPT !.usage = IF conv.usage = None THEN @ ELSE ToUsage(conv.usage)]
         [] pipe \in {"openai", "to_openai"} ->
                written' = Append(written, Done) /\ UNCHANGED <<conv, result>>
         [] OTHER -> UNCHANGED <<written, conv, result>>
    /\ UNCHANGED <<pipe, request, converted, received, delivered, seen>>

(* A read error ends the pipe without a word to the client.                *)
ReadFails ==
    /\ phase = "streaming"
    /\ delivered = Len(written)
    /\ phase' = "broken"
    /\ UNCHANGED <<pipe, request, converted, received, conv, written, delivered, seen, result>>

ClientReads ==
    /\ delivered < Len(written)
    /\ delivered' = delivered + 1
    /\ seen' = IF pipe = "to_anthropic" THEN Read(seen, written[delivered + 1]) ELSE seen
    /\ UNCHANGED <<pipe, phase, request, converted, received, conv, written, result>>

Next ==
    \/ Send \/ Open \/ ClientReads \/ EndOfStream \/ ReadFails
    \/ pipeOpenAIStream \/ pipeOpenAIStreamToAnthropic
    \/ pipeAnthropicStream \/ pipeAnthropicStreamToOpenAI \/ pipeResponsesStream

Spec == Init /\ [][Next]_vars

-----------------------------------------------------------------------------
(* Properties.                                                             *)

Grammar == INSTANCE MessageStream WITH
    Kind <- {"text", "tool_use"},
    stage <- seen.stage,
    blocks <- [i \in DOMAIN seen.blocks |->
                  [kind |-> seen.blocks[i].kind, content |-> seen.blocks[i].content,
                   open |-> seen.blocks[i].open]]

(* What OpenAIChunkToAnthropicEvents and OpenAIStreamFinalize write,       *)
(* whatever the order of text, tool deltas, identifiers and finish reason, *)
(* is read by the client as a legal message stream.                        *)
WritesMessageStream == Grammar!MessageSpec

(* The message as a whole response.                                        *)
Reply(m) ==
    LET ids == Ascending(DOMAIN m.blocks)
        Block(b) == [type |-> b.kind,
                     val |-> IF b.kind = "tool_use"
                             THEN [id |-> b.val.id, name |-> b.val.name, args |-> b.content]
                             ELSE b.content]
    IN [content |-> [n \in DOMAIN ids |-> Block(m.blocks[ids[n]])], stop |-> m.stop]

(* A reply that is converted while it streams is the reply that the        *)
(* conversion of the whole response gives (OpenAIResponseToAnthropic,      *)
(* AnthropicResponseToOpenAI): the same text, the same tool calls in the   *)
(* same order with the same arguments, the same stop reason.  Identifiers  *)
(* and names that the upstream never sent are made up by the stream only.  *)
StreamAgreesWithResponse ==
    phase = "done" /\ delivered = Len(written) =>
        /\ pipe = "to_openai" =>
               AssembleChunks(written) = AnthropicResponseToOpenAI(Reply(Assemble(received)))
        /\ pipe = "to_anthropic" =>
               LET whole == OpenAIResponseToAnthropic(AssembleChunks(received))
                   streamed == Reply(seen)
                   calls == Vals(OfType(whole.content, "tool_use"))
                   streamedCalls == Vals(OfType(streamed.content, "tool_use"))
               IN /\ FlattenSeq(Vals(Texts(streamed.content))) = FlattenSeq(Vals(Texts(whole.content)))
                  /\ whole.stop # None => streamed.stop = whole.stop
                  /\ Len(calls) = Len(streamedCalls)
                  /\ \A n \in DOMAIN calls :
                        /\ streamedCalls[n].args = calls[n].args
                        /\ calls[n].id # None => streamedCalls[n].id = calls[n].id
                        /\ calls[n].name # None => streamedCalls[n].name = calls[n].name

(* What the upstream has reported of its tokens: [prompt, output].         *)
LastUsage(Test(_)) ==
    received[SelectLastInSeq(received, LAMBDA r : Test(r) /\ r.usage # None)].usage
Reported ==
    CASE pipe \in {"openai", "to_anthropic"} ->
             [prompt |-> Prompt, output |-> LastUsage(LAMBDA r : TRUE).completion]
      [] pipe \in {"anthropic", "to_openai"} ->
             LET AtStart(r) == r.type = "message_start"
                 AtEnd(r) == r.type = "message_delta"
                 in == LastUsage(AtStart)
             IN [prompt |-> IF \E i \in DOMAIN received : AtStart(received[i]) /\ received[i].usage # None
                            THEN in.input + in.creation + in.read ELSE 0,
                 output |-> LastUsage(AtEnd).output]
      [] OTHER -> [prompt |-> Last(received).input, output |-> Last(received).output]

Complete == result.finish # None /\ result.usage # None /\ phase = "done"

(* The tokens that RecordUsage is called with are those that the upstream  *)
(* reported, through every pipe and conversion.  Anthropic to Anthropic is *)
(* the exception: that pipe reads message_delta only, which need not       *)
(* repeat the prompt of message_start.                                     *)
TokensAreKept ==
    Complete =>
        /\ result.usage.completion = Reported.output
        /\ pipe # "anthropic" =>
               /\ result.usage.prompt = Reported.prompt
               /\ result.usage.total = Reported.prompt + Reported.output

-----------------------------------------------------------------------------
(* A conversation stays legal when it is converted, also when system       *)
(* messages stand between a call and its result, and an OpenAI upstream    *)
(* finds a system message only at the head: "System message must be at the *)
(* beginning." (adapter.go:238).                                           *)
ConversationStaysLegal ==
    phase = "sent" =>
        /\ pipe = "to_anthropic" =>
               /\ LegalOpenAI(converted)
               /\ \A i \in DOMAIN converted : converted[i].role = "system" => i = 1
        /\ pipe = "to_openai" => LegalAnthropic(converted.messages)

PartsOf(messages, field) ==
    UNION {ToSet(messages[i][field]) : i \in DOMAIN messages}
CarriedBy(m) ==
    ToSet(m.content)
    \cup {[type |-> "tool_use", val |-> c] : c \in ToSet(m.calls)}
    \cup {[type |-> "tool_result", val |-> a] : a \in {m.answers} \ {None}}

(* Nothing that was said is lost in the conversion of a conversation but   *)
(* what the other protocol cannot carry: thinking, and images by URL.      *)
NothingIsLost ==
    phase = "sent" =>
        /\ pipe = "to_anthropic" =>
               {p \in PartsOf(request.messages, "blocks") : p.type \notin {"thinking", "image_http"}}
                   \cup ToSet(request.system)
               = UNION {CarriedBy(converted[i]) : i \in DOMAIN converted}
        /\ pipe = "to_openai" =>
               LET sent == PartsOf(converted.messages, "blocks") \cup ToSet(converted.system) IN
               \A i \in DOMAIN request.messages :
                  LET m == request.messages[i] IN
                  /\ {p \in ToSet(m.content) : p.type # "image_other"} \subseteq sent
                  /\ \A c \in ToSet(m.calls) : [type |-> "tool_use", val |-> c] \in sent
                  /\ m.answers # None => [type |-> "tool_result", val |-> m.answers] \in sent
=============================================================================
