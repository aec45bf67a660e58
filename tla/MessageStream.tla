--------------------------- MODULE MessageStream ---------------------------
(***************************************************************************)
(* What a client of the Anthropic protocol may read from a message stream, *)
(* one event after the other: the abstract specification of the events     *)
(* that pkg/llm/adapter.go makes out of an OpenAI stream.  A message is    *)
(* started, its blocks are started, filled and stopped, each under an      *)
(* index of its own, and it ends when every block has been stopped and no  *)
(* index was left out.  Blocks may be open at the same time, since a model *)
(* calls tools in parallel.                                                *)
(***************************************************************************)
EXTENDS Integers, FiniteSets, SequencesExt

CONSTANT Kind         \* what a block holds: text, a tool call, ...

VARIABLES stage,      \* "idle", "content", "ended", "stopped"
          blocks      \* index -> the block as far as the client has read it

messageVars == <<stage, blocks>>

StartMessage ==
    /\ stage = "idle"
    /\ stage' = "content"
    /\ UNCHANGED blocks

StartBlock(i, kind) ==
    /\ stage = "content"
    /\ i \in Nat
    /\ i \notin DOMAIN blocks
    /\ blocks' = [j \in DOMAIN blocks \cup {i} |->
                     IF j = i THEN [kind |-> kind, content |-> <<>>, open |-> TRUE]
                              ELSE blocks[j]]
    /\ UNCHANGED stage

(* A delta adds to the end of a block, and never nothing.                  *)
Fill(i) ==
    /\ stage = "content"
    /\ i \in DOMAIN blocks
    /\ blocks[i].open
    /\ IsStrictPrefix(blocks[i].content, blocks'[i].content)
    /\ blocks' = [blocks EXCEPT ![i].content = blocks'[i].content]
    /\ UNCHANGED stage

StopBlock(i) ==
    /\ stage = "content"
    /\ i \in DOMAIN blocks
    /\ blocks[i].open
    /\ blocks' = [blocks EXCEPT ![i].open = FALSE]
    /\ UNCHANGED stage

EndMessage ==
    /\ stage = "content"
    /\ \A i \in DOMAIN blocks : ~blocks[i].open
    /\ DOMAIN blocks = 0 .. Cardinality(DOMAIN blocks) - 1
    /\ stage' = "ended"
    /\ UNCHANGED blocks

StopMessage ==
    /\ stage = "ended"
    /\ stage' = "stopped"
    /\ UNCHANGED blocks

MessageInit == stage = "idle" /\ blocks = <<>>

MessageNext ==
    \/ StartMessage \/ EndMessage \/ StopMessage
    \/ \E i \in DOMAIN blocks' :
          \/ StopBlock(i) \/ Fill(i)
          \/ \E kind \in Kind : StartBlock(i, kind)

MessageSpec == MessageInit /\ [][MessageNext]_messageVars
=============================================================================
