------------------------------ MODULE LlmReply ------------------------------
(***************************************************************************)
(* OpenAILLMStrategy::prompt as an operator on the JSON object of a reply  *)
(* (include/nano_graphrag/llm/openai.hpp:46-89).  A reply has the fields   *)
(* output_text, output (a sequence of items, each known by its content: a  *)
(* sequence of entries known by their text) and choices (known by the      *)
(* content of the message of each).                                        *)
(***************************************************************************)
EXTENDS Sequences, FiniteSetsExt

CONSTANTS
  Missing,  \* a field that is not there
  Null      \* a value that is there and of no use: null, or not of the type asked for

\* The first of some fields that is there.
First(fields) ==
  LET there == {i \in DOMAIN fields : fields[i] # Missing}
  IN  IF there = {} THEN Missing ELSE fields[Min(there)]

\* The head of an array field, which may not be there, be unusable or be empty.
HeadOf(array) == IF array \in {Missing, Null} THEN array
                 ELSE IF array = <<>> THEN Missing ELSE Head(array)

\* The first text in the content of the first item of the output.
OutputText(reply) ==
  LET content == HeadOf(reply.output)
  IN  IF content \in {Missing, Null} THEN content ELSE First(content)

\* Mutant of Prompt: an item without text ends the search.
PromptItemOnly(reply) ==
  LET found == First(<<reply.output_text, OutputText(reply)>>)
  IN  IF found = Missing THEN "" ELSE found

\* prompt() once the reply is there: "" when no field has a text; Null stands for
\* the exception that Poco throws at an unusable value.
Prompt(reply) ==
  LET found == First(<<reply.output_text, OutputText(reply), HeadOf(reply.choices)>>)
  IN  IF found = Missing THEN "" ELSE found
=============================================================================
