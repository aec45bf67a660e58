-------------------------- MODULE MCStreamAdapter --------------------------
(* An instance of StreamAdapter for TLC.                                   *)
EXTENDS StreamAdapter

MCValue == {"hello", "notice", "fine", "hm", "look", "c1", "c2", "c3", "and", "plot", "photo",
            "rules", "more", "see", "x"}

Text(t) == [type |-> "text", val |-> t]
Block(type, v) == [type |-> type, val |-> v]
Plain(role, t) == [role |-> role, plain |-> TRUE, blocks |-> <<Text(t)>>]
Of(role, blocks) == [role |-> role, plain |-> FALSE, blocks |-> blocks]

(* A call of two tools with thinking, its results with an image and a      *)
(* remark, a call without text, its result, thinking alone, ...            *)
MCSaid ==
    {Plain("user", "hello"), Plain("system", "notice"), Plain("assistant", "fine"),
     Of("assistant", <<Block("thinking", "hm"), Text("look"),
                       Block("tool_use", "c1"), Block("tool_use", "c2")>>),
     Of("user", <<Block("tool_result", "c1"), Text("and"), Block("tool_result", "c2"),
                  Block("image_data", "plot")>>),
     Of("assistant", <<Block("tool_use", "c3")>>),
     Of("user", <<Block("tool_result", "c3")>>),
     Of("assistant", <<Block("thinking", "hm")>>),
     Of("user", <<Block("image_http", "photo")>>)}

MCAnthropicRequests ==
    {r \in [system : {<<>>, <<Text("rules")>>}, messages : UNION {[1 .. n -> MCSaid] : n \in 1 .. 4}] :
        LegalAnthropic(r.messages)}

Turn(role, content) == OpenAIMessage(role, TRUE, content)
MCTurns ==
    {Turn("system", <<Text("rules")>>), Turn("developer", <<Text("more")>>), Turn("user", <<Text("hello")>>),
     OpenAIMessage("user", FALSE, <<Text("see"), Block("image_http", "photo"), Block("image_other", "x")>>),
     Turn("assistant", <<Text("fine")>>),
     [Turn("assistant", <<Text("look")>>) EXCEPT !.calls = <<"c1", "c2">>],
     [Turn("assistant", <<>>) EXCEPT !.calls = <<"c3">>]}
    \cup {[Turn("tool", <<>>) EXCEPT !.answers = c] : c \in {"c1", "c2", "c3"}}
MCOpenAIRequests ==
    {[messages |-> ms] : ms \in {m \in UNION {[1 .. n -> MCTurns] : n \in 1 .. 4} : LegalOpenAI(m)}}

(* Tool deltas: whole, in pieces in either order, of two tools at once.    *)
Td(i, id, name, args) == [index |-> i, id |-> id, name |-> name, args |-> args]
Shape(text, tools, finish, usage) ==
    [choice |-> TRUE, text |-> text, tools |-> tools, finish |-> finish, usage |-> usage]
Openai == [creation |-> 0, read |-> 0, cached |-> 2, created |-> 1]
MCReports == {Openai, [creation |-> 1, read |-> 2, cached |-> 0, created |-> 0]}
MCShapes ==
    {Shape(TRUE, <<>>, None, None), Shape(TRUE, <<>>, None, Openai),
     Shape(TRUE, <<Td(0, FALSE, TRUE, TRUE)>>, None, None),
     Shape(FALSE, <<Td(0, TRUE, TRUE, TRUE), Td(1, TRUE, TRUE, TRUE)>>, None, None)}
    \cup {Shape(FALSE, <<Td(i, TRUE, TRUE, FALSE)>>, None, None) : i \in {0, 1}}
    \cup {Shape(FALSE, <<Td(i, TRUE, FALSE, FALSE)>>, None, None) : i \in {0, 1}}
    \cup {Shape(FALSE, <<Td(i, FALSE, TRUE, TRUE)>>, None, None) : i \in {0, 1}}
    \cup {Shape(FALSE, <<Td(i, FALSE, FALSE, TRUE)>>, None, None) : i \in {0, 1}}
    \cup {Shape(FALSE, <<>>, finish, None) : finish \in {"stop", "tool_calls"}}
    \cup {[Shape(FALSE, <<>>, None, u) EXCEPT !.choice = FALSE] : u \in MCReports}

MCInputReports == {None, [input |-> 3, creation |-> 2, read |-> 0], [input |-> 1, creation |-> 1, read |-> 2]}
=============================================================================
