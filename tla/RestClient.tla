----------------------------- MODULE RestClient -----------------------------
(***************************************************************************)
(* The calls of prompt() and embed() that a process makes, each with a     *)
(* RestClient of its own whose post_json does one request on a session of  *)
(* its own (include/nano_graphrag/interfaces/restapi.hpp:51-130,           *)
(* llm/openai.hpp, embedding/openai.hpp), and a service that may lose a    *)
(* request, answer late, badly, in pieces or never.                        *)
(***************************************************************************)
EXTENDS LlmReply, Embedding

CONSTANTS
  Batches,    \* the batches of texts that embed() is called with
  Objects,    \* the JSON objects with which the service answers a prompt
  MaxCalls,   \* bound on the requests
  MaxPieces   \* the most pieces in which the service sends a body

ASSUME ClientAssumption ==
  Missing # Null /\ MaxCalls \in Nat /\ MaxPieces \in Nat \ {0}

\* Batches and JSON arrays are sequences.
IsArray(s) == Len(s) \in Nat /\ DOMAIN s = 1..Len(s) /\ (Len(s) = 0 => s = <<>>)
ASSUME ArraysAssumption ==
  /\ \A texts \in Batches : IsArray(texts)
  /\ \A o \in Objects : o.output \notin {Missing, Null} => IsArray(o.output)
  /\ \A o \in Objects : HeadOf(o.output) \notin {Missing, Null} => IsArray(HeadOf(o.output))

VARIABLES
  key,      \* is OPENAI_API_KEY set
  call,     \* the call in progress or the last one
  reply,    \* what the service answered to the request of that call
  pending,  \* the requests, by number, that the service has yet to carry out
  served    \* how often it carried out each one so far

vars == <<key, call, reply, pending, served>>

Kinds == {"prompt", "embed"}
NoReply == [head |-> "none", object |-> Null]

\* The head is of status 200 and names neither of the two stream types nor chunked
\* transfer, or is one of those that post_json refuses; the body is a JSON object
\* or, as Null, no text that parses to one.
Replies200(kind, texts) ==
  [head : {"ok"}, object : {Null} \cup IF kind = "prompt" THEN Objects ELSE Replies(texts)]
AllReplies(kind, texts) ==
  Replies200(kind, texts) \cup [head : {"status", "stream", "chunked"}, object : {Null}]

Idle == [pc |-> "idle", kind |-> "prompt", texts |-> <<>>, left |-> 0, result |-> Null]

TypeOK ==
  /\ key \in BOOLEAN
  /\ call.pc \in {"idle", "sending", "waiting", "reading", "returned", "thrown"}
  /\ call.kind \in Kinds /\ call.texts \in Batches \cup {<<>>} /\ call.left \in 0..MaxPieces
  /\ reply = NoReply \/ reply \in AllReplies(call.kind, call.texts)
  /\ pending \subseteq DOMAIN served
  /\ served \in Seq(Nat) /\ Len(served) <= MaxCalls

Init ==
  /\ key \in BOOLEAN
  /\ call = Idle /\ reply = NoReply /\ pending = {} /\ served = <<>>
-----------------------------------------------------------------------------
InCall == call.pc \in {"sending", "waiting", "reading"}

Throws == /\ call' = [call EXCEPT !.pc = "thrown", !.result = Null]
          /\ UNCHANGED <<key, reply, pending, served>>

\* Mutant of Begin: the reply of the call before is still there.
BeginAgain(kind, texts) ==
  /\ ~InCall /\ Len(served) < MaxCalls /\ key
  /\ call' = [Idle EXCEPT !.kind = kind, !.texts = texts, !.pc = "sending"]
  /\ served' = Append(served, 0)
  /\ UNCHANGED <<key, reply, pending>>

\* embed() of no text returns at once; without a key both calls throw before they
\* send anything; otherwise there is a session and a request.
Begin(kind, texts) ==
  /\ ~InCall /\ Len(served) < MaxCalls
  /\ reply' = NoReply
  /\ LET begun == [Idle EXCEPT !.kind = kind, !.texts = texts]
     IN  IF kind = "embed" /\ texts = <<>>
         THEN call' = [begun EXCEPT !.pc = "returned", !.result = <<>>] /\ UNCHANGED served
         ELSE IF ~key THEN call' = [begun EXCEPT !.pc = "thrown"] /\ UNCHANGED served
         ELSE call' = [begun EXCEPT !.pc = "sending"] /\ served' = Append(served, 0)
  /\ UNCHANGED <<key, pending>>

\* sendRequest() throws, which is rethrown; or the request is on its way, and may
\* be lost.
SendFails == call.pc = "sending" /\ Throws

Send ==
  /\ call.pc = "sending"
  /\ call' = [call EXCEPT !.pc = "waiting"]
  /\ pending' \in {pending, pending \cup {Len(served)}}
  /\ UNCHANGED <<key, reply, served>>

\* The service carries out a request.  When the client has given up on it, the
\* answer goes to a session that is gone.
Serve(no) ==
  /\ no \in pending
  /\ pending' = pending \ {no}
  /\ served' = [served EXCEPT ![no] = @ + 1]
  /\ IF no = Len(served) /\ call.pc = "waiting"
     THEN reply' \in AllReplies(call.kind, call.texts)
     ELSE UNCHANGED reply
  /\ UNCHANGED <<key, call>>

\* Mutants of TimeOut: the session has no timeout while nothing has come; a
\* request whose answer did not come, or not to its end, is sent again.
TimeOutReading == call.pc = "reading" /\ Throws
TimeOutRetries ==
  /\ call.pc \in {"waiting", "reading"}
  /\ call' = [call EXCEPT !.pc = "waiting"]
  /\ reply' = NoReply /\ pending' = pending \cup {Len(served)}
  /\ UNCHANGED <<key, served>>

\* Nothing comes for 60 seconds, or the connection is reset.
TimeOut == call.pc \in {"waiting", "reading"} /\ Throws

\* receiveResponse() returned a head with another status, a stream, or chunked
\* transfer encoding.
HeadRefused ==
  /\ call.pc = "waiting" /\ reply.head \in {"status", "stream", "chunked"}
  /\ Throws

Receive ==
  /\ call.pc = "waiting" /\ reply.head = "ok"
  /\ \E left \in 1..MaxPieces : call' = [call EXCEPT !.pc = "reading", !.left = left]
  /\ UNCHANGED <<key, reply, pending, served>>

\* The parser reads on.
Piece ==
  /\ call.pc = "reading" /\ call.left > 1
  /\ call' = [call EXCEPT !.left = @ - 1]
  /\ UNCHANGED <<key, reply, pending, served>>

\* What the caller makes of the object, Null being an exception.
Result == IF reply.object = Null THEN Null
          ELSE IF call.kind = "prompt" THEN Prompt(reply.object)
          ELSE IF EmbedThrows(call.texts, reply.object) THEN Null
          ELSE Embed(call.texts, reply.object)

\* The body is complete: parse() and extract() throw, or the caller goes on.
Finish ==
  /\ call.pc = "reading" /\ call.left = 1
  /\ call' = [call EXCEPT !.result = Result,
                          !.pc = IF Result = Null THEN "thrown" ELSE "returned"]
  /\ UNCHANGED <<key, reply, pending, served>>

Client == SendFails \/ Send \/ TimeOut \/ HeadRefused \/ Receive \/ Piece \/ Finish

Next == \/ Begin("prompt", <<>>)
        \/ \E texts \in Batches : Begin("embed", texts)
        \/ Client
        \/ \E no \in pending : Serve(no)

Spec == Init /\ [][Next]_vars

\* The thread in the call runs on and its session has a timeout.  Nothing is
\* assumed of the service.
FairSpec == Spec /\ WF_vars(Client)
-----------------------------------------------------------------------------
\* There is no retry: the service carries out the request of a call at most once,
\* and exactly once when the call returned something it had to ask for
\* (restapi.hpp:89-103; a call that throws may have been carried out or not).
CarriedOutOnce ==
  /\ \A no \in DOMAIN served : served[no] + (IF no \in pending THEN 1 ELSE 0) <= 1
  /\ (call.pc = "returned" /\ ~(call.kind = "embed" /\ call.texts = <<>>)) =>
       served # <<>> /\ served[Len(served)] = 1

\* The texts that a reply has, in whatever item of its output.
Entries(content) == IF content \in {Missing, Null} THEN {} ELSE {content[i] : i \in DOMAIN content}
Texts(o) == {o.output_text, HeadOf(o.choices)} \cup UNION {Entries(content) : content \in Entries(o.output)}
OneItem(o) == o.output \in {Missing, Null} \/ Len(o.output) <= 1

\* A prompt that returned gave output_text if there was one, else a text of its own
\* reply or, when the reply has no text but an empty one, nothing.  With several items
\* in the output nothing is said of the last case: prompt() looks at the first one
\* only (llm/openai.hpp:49-89).  An embedding that returned left out no text whose
\* vector the service had sent (embedding/openai.hpp:57-79).
ResultFromReply ==
  call.pc = "returned" =>
    IF call.kind = "prompt"
    THEN IF reply.object.output_text # Missing THEN call.result = reply.object.output_text
         ELSE IF call.result # "" THEN call.result \in Texts(reply.object)
         ELSE OneItem(reply.object) =>
                "" \in Texts(reply.object) \/ Texts(reply.object) \subseteq {Missing}
    ELSE \A i \in DOMAIN call.texts :
           (\E j \in DOMAIN reply.object.items : reply.object.items[j] = Item(call.texts, i))
             => call.result[i] = VectorOf(call.texts[i])

\* Every call comes to an end, by returning or by throwing, whatever the service
\* does short of sending a body without end (restapi.hpp:91).
CallEnds == InCall ~> ~InCall
=============================================================================
