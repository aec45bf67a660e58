-------------------------- MODULE StreamConversion --------------------------
(***************************************************************************)
(* The streaming half of pkg/llm/adapter.go: chunks of an OpenAI stream to *)
(* events of an Anthropic one and back, as operators on the state that the *)
(* code keeps between two items; "out" holds what one item gives.          *)
(*                                                                         *)
(* A delta carries a sequence of atoms.  The identifier and the name of a  *)
(* tool call are None while unknown.  Pings, and lines that do not parse,  *)
(* are left out.                                                           *)
(***************************************************************************)
EXTENDS Adapter, FiniteSets

(* The elements of a finite set of natural numbers, the least one first.   *)
Ascending(S) ==
    LET n == IF S = {} THEN 0 ELSE Max(S) + 1
    IN Pick([i \in 1 .. n |-> i - 1], {i \in 1 .. n : i - 1 \in S})

-----------------------------------------------------------------------------
(* Events of the Anthropic protocol, and the [DONE] of the OpenAI one.     *)

Done == [type |-> "done"]
MessageStart(usage) == [type |-> "message_start", usage |-> usage]
BlockStart(i, kind, val) == [type |-> "block_start", index |-> i, kind |-> kind, val |-> val]
Delta(i, kind, f) == [type |-> "block_delta", index |-> i, kind |-> kind, val |-> f]
BlockStop(i) == [type |-> "block_stop", index |-> i]
MessageDelta(stop, usage) == [type |-> "message_delta", stop |-> stop, usage |-> usage]
MessageStop == [type |-> "message_stop"]

(* What a reader of the events has assembled.                              *)
Unread == [stage |-> "idle", blocks |-> <<>>, stop |-> None]
Read(m, e) ==
    CASE e.type \in {"block_delta", "block_stop"} /\ e.index \notin DOMAIN m.blocks ->
             [m EXCEPT !.stage = "error"]
      [] e.type = "message_start" -> [m EXCEPT !.stage = "content"]
      [] e.type = "block_start" ->
             [m EXCEPT !.blocks =
                 [i \in DOMAIN @ \cup {e.index} |->
                     IF i = e.index
                     THEN [kind |-> e.kind, val |-> e.val, content |-> <<>>, open |-> TRUE]
                     ELSE @[i]]]
      [] e.type = "block_delta" /\ e.index \in DOMAIN m.blocks ->
             [m EXCEPT !.blocks[e.index].content = @ \o e.val]
      [] e.type = "block_stop" /\ e.index \in DOMAIN m.blocks ->
             [m EXCEPT !.blocks[e.index].open = FALSE]
      [] e.type = "message_delta" -> [m EXCEPT !.stage = "ended", !.stop = e.stop]
      [] e.type = "message_stop" -> [m EXCEPT !.stage = "stopped"]
Assemble(events) ==
    LET m[i \in 0 .. Len(events)] == IF i = 0 THEN Unread ELSE Read(m[i - 1], events[i])
    IN m[Len(events)]

(* ... and what a reader of OpenAI chunks has.                             *)
Present(v) == v # None
LastPresent(values) ==
    LET i == SelectLastInSeq(values, Present) IN IF i = 0 THEN None ELSE values[i]
AssembleChunks(items) ==
    LET chunks == Those(items, LAMBDA c : c.type = "chunk")
        deltas == FlattenSeq([i \in DOMAIN chunks |-> chunks[i].tools])
        tools == Ascending({deltas[i].index : i \in DOMAIN deltas})
        Call(t) ==
            LET own == Those(deltas, LAMBDA tc : tc.index = t)
            IN [id |-> LastPresent([i \in DOMAIN own |-> own[i].id]),
                name |-> LastPresent([i \in DOMAIN own |-> own[i].name]),
                args |-> Those([i \in DOMAIN own |-> own[i].args], Present)]
    IN [text |-> Those([i \in DOMAIN chunks |-> chunks[i].text], Present),
        calls |-> [n \in DOMAIN tools |-> Call(tools[n])],
        stop |-> LastPresent([i \in DOMAIN chunks |-> chunks[i].finish])]

-----------------------------------------------------------------------------
(* OpenAIChunkToAnthropicEvents and OpenAIStreamFinalize: operators on the *)
(* state of the conversion, whose "out" collects the events.               *)

FreshToAnthropic ==
    [started |-> FALSE, next |-> 0, text |-> None, tools |-> <<>>,
     stop |-> None, usage |-> None, ended |-> FALSE, out |-> <<>>]

Put(s, event) == [s EXCEPT !.out = Append(@, event)]

writeMessageStart(s) == Put([s EXCEPT !.started = TRUE], MessageStart(s.usage))

TextDelta(s, f) ==
    LET o == IF s.text # None THEN s
             ELSE Put([s EXCEPT !.text = s.next, !.next = @ + 1], BlockStart(s.next, "text", None))
    IN Put(o, Delta(o.text, "text", <<f>>))

closeOpenTextBlock(s) ==
    IF s.text = None THEN s ELSE Put([s EXCEPT !.text = None], BlockStop(s.text))

getOrCreateToolBlock(s, t) ==
    IF t \in DOMAIN s.tools THEN s
    ELSE LET block == [index |-> s.next, id |-> None, name |-> None,
                       pending |-> <<>>, started |-> FALSE, open |-> FALSE]
         IN [s EXCEPT !.next = @ + 1,
                      !.tools = [u \in DOMAIN @ \cup {t} |-> IF u = t THEN block ELSE @[u]]]

(* Seeded fault: what was held back is forgotten.                           *)
startToolBlockBare(s, t) ==
    LET block == s.tools[t]
    IN Put([s EXCEPT !.tools[t] = [block EXCEPT !.started = TRUE, !.open = TRUE, !.pending = <<>>]],
           BlockStart(block.index, "tool_use", [id |-> block.id, name |-> block.name]))

startToolBlock(s, t) ==
    LET block == s.tools[t]
        o == Put([s EXCEPT !.tools[t] = [block EXCEPT !.started = TRUE, !.open = TRUE,
                                                      !.pending = <<>>]],
                 BlockStart(block.index, "tool_use", [id |-> block.id, name |-> block.name]))
    IN IF block.pending = <<>> THEN o ELSE Put(o, Delta(block.index, "tool_use", block.pending))

(* Seeded fault: arguments are written before the block is started.        *)
ToolDeltaUnbuffered(s, tc) ==
    LET t == tc.index
        a == getOrCreateToolBlock(s, t)
        b == [a EXCEPT !.tools[t].id = IF tc.id # None THEN tc.id ELSE @,
                       !.tools[t].name = IF tc.name # None THEN tc.name ELSE @]
        ready == ~b.tools[t].started /\ b.tools[t].id # None /\ b.tools[t].name # None
        c == IF ready THEN startToolBlock(b, t) ELSE b
    IN IF tc.args = None THEN c ELSE Put(c, Delta(c.tools[t].index, "tool_use", <<tc.args>>))

ToolDelta(s, tc) ==
    LET t == tc.index
        a == getOrCreateToolBlock(s, t)
        b == [a EXCEPT !.tools[t].id = IF tc.id # None THEN tc.id ELSE @,
                       !.tools[t].name = IF tc.name # None THEN tc.name ELSE @]
        ready == ~b.tools[t].started /\ b.tools[t].id # None /\ b.tools[t].name # None
        c == IF ready THEN startToolBlock(b, t) ELSE b
    IN IF tc.args = None THEN c
       ELSE IF c.tools[t].started THEN Put(c, Delta(c.tools[t].index, "tool_use", <<tc.args>>))
       ELSE [c EXCEPT !.tools[t].pending = Append(@, tc.args)]

processOpenAIToolCallDeltas(s, deltas) ==
    LET o[i \in 0 .. Len(deltas)] ==
            IF i = 0 THEN closeOpenTextBlock(s) ELSE ToolDelta(o[i - 1], deltas[i])
    IN o[Len(deltas)]

(* A tool of which nothing is known is not started, its index is lost.     *)
lateStart(s, i) ==
    LET t == CHOOSE u \in DOMAIN s.tools : s.tools[u].index = i
        named == [s EXCEPT !.tools[t].id = IF @ = None THEN "toolu" ELSE @,
                           !.tools[t].name = IF @ = None THEN "unknown_tool" ELSE @]
    IN startToolBlock(named, t)

lateStartPendingToolBlocks(s) ==
    LET late == {t \in DOMAIN s.tools :
                    /\ ~s.tools[t].started
                    /\ \/ s.tools[t].pending # <<>>
                       \/ s.tools[t].id # None
                       \/ s.tools[t].name # None}
        indices == Ascending({s.tools[t].index : t \in late})
        o[n \in 0 .. Len(indices)] == IF n = 0 THEN s ELSE lateStart(o[n - 1], indices[n])
    IN o[Len(indices)]

closeOpenToolBlocks(s) ==
    LET open == {t \in DOMAIN s.tools : s.tools[t].open}
        indices == Ascending({s.tools[t].index : t \in open})
    IN [s EXCEPT !.tools = [t \in DOMAIN @ |-> [@[t] EXCEPT !.open = FALSE]],
                 !.out = @ \o [n \in DOMAIN indices |-> BlockStop(indices[n])]]

closeBlocks(s) == closeOpenToolBlocks(lateStartPendingToolBlocks(closeOpenTextBlock(s)))

OpenAIChunkToAnthropicEvents(c, s) ==
    LET usage == IF c.usage = None THEN s.usage
                 ELSE mergeAnthropicUsage(s.usage, openAIUsageToAnthropic(c.usage))
        counted == [s EXCEPT !.usage = usage, !.out = <<>>]
        begun == IF s.started THEN counted ELSE writeMessageStart(counted)
        text == IF c.text = None THEN begun ELSE TextDelta(begun, c.text)
        tools == IF c.tools = <<>> THEN text ELSE processOpenAIToolCallDeltas(text, c.tools)
    IN IF ~c.choice THEN begun
       ELSE IF c.finish = None \/ tools.stop # None THEN tools
       ELSE [closeBlocks(tools) EXCEPT !.stop = mapOpenAIStopReasonToAnthropic(c.finish)]

OpenAIStreamFinalize(s) ==
    LET closed == closeBlocks([s EXCEPT !.out = <<>>])
        zero == [input |-> 0, output |-> 0, creation |-> 0, read |-> 0]
        end == MessageDelta(IF s.stop = None THEN "end_turn" ELSE s.stop,
                            IF s.usage = None THEN zero ELSE s.usage)
    IN IF s.ended THEN [s EXCEPT !.out = <<>>]
       ELSE [Put(Put(closed, end), MessageStop) EXCEPT !.ended = TRUE]

-----------------------------------------------------------------------------
(* AnthropicEventToOpenAIChunk.                                            *)

FreshToOpenAI == [block |-> None, tool |-> 0, out |-> <<>>]

EmptyChunk == [type |-> "chunk", choice |-> TRUE, text |-> None, tools |-> <<>>,
               finish |-> None, usage |-> None]

AnthropicEventToOpenAIChunk(e, s) ==
    LET Out(o, chunks) == [o EXCEPT !.out = chunks]
        Tool(id, name, args) == [EmptyChunk EXCEPT !.tools =
            <<[index |-> s.tool, id |-> id, name |-> name, args |-> args]>>]
    IN CASE e.type = "message_start" -> Out(s, <<EmptyChunk>>)
         [] e.type = "block_start" ->
                Out([s EXCEPT !.block = e.kind],
                    IF e.kind = "tool_use" THEN <<Tool(e.val.id, e.val.name, None)>> ELSE <<>>)
         [] e.type = "block_delta" ->
                Out(s, CASE e.kind = "text" -> <<[EmptyChunk EXCEPT !.text = Head(e.val)]>>
                         [] e.kind = "tool_use" -> <<Tool(None, None, Head(e.val))>>
                         [] OTHER -> <<>>)
         [] e.type = "block_stop" ->
                Out([s EXCEPT !.block = None,
                              !.tool = IF s.block = "tool_use" THEN @ + 1 ELSE @], <<>>)
         [] e.type = "message_delta" ->
                Out(s, IF e.stop = None THEN <<>>
                       ELSE <<[EmptyChunk EXCEPT !.finish = mapAnthropicStopReasonToOpenAI(e.stop),
                                                 !.usage = IF e.usage = None THEN None
                                                           ELSE ToUsage(e.usage)]>>)
         [] e.type = "message_stop" -> Out(s, <<Done>>)
=============================================================================
