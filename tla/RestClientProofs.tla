-------------------------- MODULE RestClientProofs ---------------------------
(***************************************************************************)
(* The calls to the service, for any number of them, any batches of texts, *)
(* any replies and any split of a body.                                    *)
(***************************************************************************)
EXTENDS RestClient, Induction

\* The record that call is.
IsCall == /\ DOMAIN call = {"pc", "kind", "texts", "left", "result"}
          /\ call = [f \in DOMAIN call |-> call[f]]

NoTexts == call.kind = "embed" /\ call.texts = <<>>

\* How far the service is with the request of the call.
Once ==
  /\ \A no \in DOMAIN served : served[no] + (IF no \in pending THEN 1 ELSE 0) <= 1
  /\ InCall => served # <<>>
  /\ call.pc = "sending" =>
       Len(served) \notin pending /\ served[Len(served)] = 0 /\ reply.head = "none"
  /\ (call.pc = "waiting" /\ reply.head # "none") \/ call.pc = "reading"
       => served[Len(served)] = 1
  /\ (call.pc = "returned" /\ ~NoTexts) => served # <<>> /\ served[Len(served)] = 1

IInv == TypeOK /\ IsCall /\ Once
-----------------------------------------------------------------------------
LEMMA RepliesHaveHeads ==
  /\ NoReply.head = "none"
  /\ \A kind, texts : \A r \in AllReplies(kind, texts) : r.head # "none"
  BY DEF NoReply, AllReplies, Replies200

\* A step that changes nothing but the call and keeps its request.
LEMMA CallStep ==
  ASSUME IInv, NEW pc \in {"waiting", "reading", "returned", "thrown"}, NEW left \in 0..MaxPieces,
         NEW result,
         call' = [call EXCEPT !.pc = pc, !.left = left, !.result = result],
         UNCHANGED <<key, reply, served>>, pending' = pending \/ call.pc = "sending",
         pending' = pending \/ pending' = pending \cup {Len(served)},
         InCall,
         pc = "reading" => (call.pc = "waiting" /\ reply.head # "none") \/ call.pc = "reading",
         pc = "returned" => call.pc = "reading",
         pc = "waiting" => call.pc = "sending"
  PROVE  IInv'
<1>1. /\ call'.pc = pc /\ call'.kind = call.kind /\ call'.texts = call.texts
      /\ call'.left = left /\ call'.result = result /\ IsCall'
  BY DEF IInv, IsCall
<1>2. /\ served \in Seq(Nat) /\ served # <<>> /\ Len(served) \in DOMAIN served
      /\ pending \subseteq DOMAIN served
  <2>1. served \in Seq(Nat) /\ served # <<>> /\ pending \subseteq DOMAIN served
    BY DEF IInv, TypeOK, Once
  <2>2. Len(served) \in 1..Len(served) /\ DOMAIN served = 1..Len(served)
    BY <2>1
  <2> QED
    BY <2>1, <2>2
<1>3. pending' \subseteq DOMAIN served'
  BY <1>2
<1>4. TypeOK'
  BY <1>1, <1>3 DEF IInv, TypeOK, AllReplies, Replies200
<1>5. \A no \in DOMAIN served' : served'[no] + (IF no \in pending' THEN 1 ELSE 0) <= 1
  <2>1. CASE pending' = pending
    BY <2>1 DEF IInv, Once
  <2>2. CASE pending' = pending \cup {Len(served)} /\ call.pc = "sending"
    <3>1. served[Len(served)] = 0 /\ served' = served
      BY <2>2 DEF IInv, Once
    <3>2. ASSUME NEW no \in DOMAIN served
          PROVE  served[no] + (IF no \in pending' THEN 1 ELSE 0) <= 1
      <4>1. CASE no = Len(served)
        BY <3>1, <4>1
      <4>2. CASE no # Len(served)
        BY <2>2, <4>2 DEF IInv, Once
      <4> QED
        BY <4>1, <4>2
    <3> QED
      BY <3>1, <3>2
  <2> QED
    BY <2>1, <2>2
<1>6. Once'
  BY <1>1, <1>2, <1>5 DEF IInv, Once, InCall, NoTexts
<1> QED
  BY <1>1, <1>4, <1>6 DEF IInv

LEMMA InCallIInv == IInv /\ Client => IInv'
<1> SUFFICES ASSUME IInv, Client PROVE IInv'
  OBVIOUS
<1>0. /\ IsCall /\ call.left \in 0..MaxPieces /\ MaxPieces \in Nat \ {0}
  BY ClientAssumption DEF IInv, TypeOK
<1>1. ASSUME Throws, InCall PROVE IInv'
  <2>1. /\ call' = [call EXCEPT !.pc = "thrown", !.left = call.left, !.result = Null]
        /\ UNCHANGED <<key, reply, pending, served>>
    BY <1>0, <1>1 DEF Throws, IsCall
  <2> QED
    BY <1>0, <1>1, <2>1, CallStep
<1>2. CASE SendFails \/ TimeOut \/ HeadRefused
  BY <1>1, <1>2 DEF SendFails, TimeOut, HeadRefused, InCall
<1>3. CASE Send
  <2>1. /\ call' = [call EXCEPT !.pc = "waiting", !.left = call.left, !.result = call.result]
        /\ UNCHANGED <<key, reply, served>> /\ call.pc = "sending"
        /\ pending' = pending \/ pending' = pending \cup {Len(served)}
    BY <1>0, <1>3 DEF Send, IsCall
  <2> QED
    BY <1>0, <2>1, CallStep DEF InCall
<1>4. CASE Receive
  <2>1. PICK left \in 1..MaxPieces : call' = [call EXCEPT !.pc = "reading", !.left = left]
    BY <1>4 DEF Receive
  <2>2. /\ call' = [call EXCEPT !.pc = "reading", !.left = left, !.result = call.result]
        /\ UNCHANGED <<key, reply, pending, served>> /\ call.pc = "waiting" /\ reply.head # "none"
    BY <1>0, <1>4, <2>1 DEF Receive, IsCall
  <2>3. left \in 0..MaxPieces
    BY <1>0
  <2> QED
    BY <2>2, <2>3, CallStep DEF InCall
<1>5. CASE Piece
  <2>1. /\ call' = [call EXCEPT !.pc = "reading", !.left = call.left - 1, !.result = call.result]
        /\ UNCHANGED <<key, reply, pending, served>> /\ call.pc = "reading"
    BY <1>0, <1>5 DEF Piece, IsCall
  <2>2. call.left - 1 \in 0..MaxPieces
    BY <1>0, <1>5 DEF Piece
  <2> QED
    BY <2>1, <2>2, CallStep DEF InCall
<1>6. CASE Finish
  <2> DEFINE pc == IF Result = Null THEN "thrown" ELSE "returned"
  <2>1. /\ call' = [call EXCEPT !.pc = pc, !.left = call.left, !.result = Result]
        /\ UNCHANGED <<key, reply, pending, served>> /\ call.pc = "reading"
    BY <1>0, <1>6 DEF Finish, IsCall
  <2>2. pc \in {"returned", "thrown"}
    OBVIOUS
  <2> HIDE DEF pc
  <2> QED
    BY <1>0, <2>1, <2>2, CallStep DEF InCall
<1> QED
  BY <1>2, <1>3, <1>4, <1>5, <1>6 DEF Client

LEMMA BeginIInv ==
  ASSUME IInv, NEW kind \in Kinds, NEW texts \in Batches \cup {<<>>}, Begin(kind, texts)
  PROVE  IInv'
<1> DEFINE begun == [Idle EXCEPT !.kind = kind, !.texts = texts]
<1>1. /\ begun.pc = "idle" /\ begun.kind = kind /\ begun.texts = texts /\ begun.left = 0
      /\ DOMAIN begun = {"pc", "kind", "texts", "left", "result"}
      /\ begun = [f \in DOMAIN begun |-> begun[f]]
  BY DEF Idle
<1>2. /\ ~InCall /\ Len(served) < MaxCalls /\ reply' = NoReply /\ key' = key /\ pending' = pending
      /\ IF kind = "embed" /\ texts = <<>>
         THEN call' = [begun EXCEPT !.pc = "returned", !.result = <<>>] /\ served' = served
         ELSE IF ~key THEN call' = [begun EXCEPT !.pc = "thrown"] /\ served' = served
         ELSE call' = [begun EXCEPT !.pc = "sending"] /\ served' = Append(served, 0)
  BY DEF Begin
<1> HIDE DEF begun
<1>3. /\ call'.kind = kind /\ call'.texts = texts /\ call'.left = 0 /\ IsCall'
      /\ \/ call'.pc = "returned" /\ kind = "embed" /\ texts = <<>> /\ served' = served
         \/ call'.pc = "thrown" /\ served' = served
         \/ call'.pc = "sending" /\ served' = Append(served, 0)
  BY <1>1, <1>2 DEF IsCall
<1>4. served \in Seq(Nat) /\ pending \subseteq DOMAIN served /\ MaxCalls \in Nat /\ MaxPieces \in Nat
  BY ClientAssumption DEF IInv, TypeOK
<1>5. served' = Append(served, 0) =>
        /\ served' \in Seq(Nat) /\ Len(served') = Len(served) + 1 /\ served' # <<>>
        /\ served'[Len(served')] = 0 /\ Len(served') \notin DOMAIN served
        /\ DOMAIN served' = DOMAIN served \cup {Len(served')}
        /\ \A no \in DOMAIN served : served'[no] = served[no]
  BY <1>4
<1>6. TypeOK'
  BY <1>2, <1>3, <1>4, <1>5 DEF IInv, TypeOK
<1>7. Once'
  <2>1. CASE served' = served
    BY <1>2, <1>3, <2>1 DEF IInv, Once, InCall, NoTexts
  <2>2. CASE call'.pc = "sending" /\ served' = Append(served, 0)
    BY <1>2, <1>4, <1>5, <2>2, RepliesHaveHeads DEF IInv, Once, InCall, NoTexts
  <2> QED
    BY <1>3, <2>1, <2>2
<1> QED
  BY <1>3, <1>6, <1>7 DEF IInv

LEMMA ServeIInv ==
  ASSUME IInv, NEW no \in pending, Serve(no)
  PROVE  IInv'
<1>1. /\ pending' = pending \ {no} /\ served' = [served EXCEPT ![no] = @ + 1]
      /\ key' = key /\ call' = call
      /\ reply' = reply \/ (no = Len(served) /\ call.pc = "waiting"
                              /\ reply' \in AllReplies(call.kind, call.texts))
  BY DEF Serve
<1>2. /\ served \in Seq(Nat) /\ no \in DOMAIN served /\ pending \subseteq DOMAIN served
      /\ served[no] \in Nat
  BY DEF IInv, TypeOK
<1>3. /\ served' \in Seq(Nat) /\ Len(served') = Len(served) /\ DOMAIN served' = DOMAIN served
      /\ served'[no] = served[no] + 1 /\ \A m \in DOMAIN served : m # no => served'[m] = served[m]
  BY <1>1, <1>2
<1>4. served[no] = 0 /\ served'[no] = 1
  BY <1>2, <1>3 DEF IInv, Once
<1>5. TypeOK'
  BY <1>1, <1>2, <1>3 DEF IInv, TypeOK, AllReplies, Replies200
<1>6. \A m \in DOMAIN served' : served'[m] + (IF m \in pending' THEN 1 ELSE 0) <= 1
  BY <1>1, <1>2, <1>3, <1>4 DEF IInv, Once
<1>7. served # <<>> /\ served' # <<>> /\ Len(served) \in DOMAIN served
  BY <1>2, <1>3
<1>8. served[Len(served)] = 1 => no # Len(served)
  BY <1>4
<1>9. Once'
  BY <1>1, <1>3, <1>4, <1>6, <1>7, <1>8 DEF IInv, Once, InCall, NoTexts
<1> QED
  BY <1>1, <1>5, <1>9 DEF IInv, IsCall

LEMMA Invariance == Spec => []IInv
<1>1. Init => IInv
  <2> SUFFICES ASSUME Init PROVE IInv
    OBVIOUS
  <2>1. served = <<>> /\ pending = {} /\ call = Idle /\ reply = NoReply /\ key \in BOOLEAN
    BY DEF Init
  <2>2. IsCall /\ call.pc = "idle" /\ call.kind = "prompt" /\ call.texts = <<>> /\ call.left = 0
    BY <2>1 DEF IsCall, Idle
  <2>3. served \in Seq(Nat) /\ Len(served) = 0 /\ DOMAIN served = {}
    BY <2>1
  <2>4. TypeOK
    BY <2>1, <2>2, <2>3, ClientAssumption DEF TypeOK, Kinds
  <2> QED
    BY <2>1, <2>2, <2>3, <2>4 DEF IInv, Once, InCall
<1>2. IInv /\ [Next]_vars => IInv'
  <2> SUFFICES ASSUME IInv, [Next]_vars PROVE IInv'
    OBVIOUS
  <2>1. CASE UNCHANGED vars
    BY <2>1 DEF vars, IInv, TypeOK, IsCall, Once, InCall, NoTexts, AllReplies, Replies200
  <2>2. CASE Begin("prompt", <<>>)
    BY <2>2, BeginIInv DEF Kinds
  <2>3. CASE \E texts \in Batches : Begin("embed", texts)
    BY <2>3, BeginIInv DEF Kinds
  <2> QED
    BY <2>1, <2>2, <2>3, InCallIInv, ServeIInv DEF Next
<1> QED
  BY <1>1, <1>2, PTL DEF Spec

\* Calls, replies and requests have their types (restapi.hpp:72-127).
THEOREM TypeCorrect == Spec => []TypeOK
<1>1. IInv => TypeOK
  BY DEF IInv
<1> QED
  BY <1>1, Invariance, PTL

\* No request is carried out twice, and what a call returned was asked for once
\* (restapi.hpp:89-103).
THEOREM AskedOnce == Spec => []CarriedOutOnce
<1>1. IInv => CarriedOutOnce
  BY DEF IInv, Once, CarriedOutOnce, NoTexts
<1> QED
  BY <1>1, Invariance, PTL
-----------------------------------------------------------------------------
\* Min of FiniteSetsExt is what its name says for a set of numbers.
LEMMA MinIsMember ==
  ASSUME NEW T \in SUBSET Nat, T # {}
  PROVE  Min(T) \in T /\ \A t \in T : Min(T) <= t
<1>1. \E x \in T : \A y \in T : x <= y
  BY LeastElement
<1> QED
  BY <1>1 DEF Min

\* The first field that is there is one of the fields, and there is none only when
\* all are missing.
LEMMA FirstOK ==
  ASSUME NEW fields, NEW k \in Nat, DOMAIN fields = 1..k
  PROVE  /\ First(fields) # Missing =>
              \E i \in 1..k : /\ First(fields) = fields[i]
                             /\ \A j \in 1..k : j < i => fields[j] = Missing
         /\ First(fields) = Missing => \A i \in 1..k : fields[i] = Missing
<1> DEFINE there == {i \in DOMAIN fields : fields[i] # Missing}
<1>1. CASE there = {}
  BY <1>1 DEF First
<1>2. CASE there # {}
  <2>1. there \in SUBSET Nat
    OBVIOUS
  <2>2. Min(there) \in there /\ \A i \in there : Min(there) <= i
    <3> HIDE DEF there
    <3> QED
      BY <1>2, <2>1, MinIsMember
  <2>3. First(fields) = fields[Min(there)]
    BY <1>2 DEF First
  <2>4. PICK m \in 1..k : m = Min(there)
    BY <2>2
  <2>5. \A j \in 1..k : j < m => fields[j] = Missing
    <3> SUFFICES ASSUME NEW j \in 1..k, j < m, fields[j] # Missing PROVE FALSE
      OBVIOUS
    <3>1. j \in there
      OBVIOUS
    <3>2. m <= j
      BY <2>2, <2>4, <3>1
    <3> QED
      BY <3>2
  <2>6. fields[m] # Missing
    BY <2>2, <2>4
  <2> QED
    BY <2>3, <2>4, <2>5, <2>6
<1> QED
  BY <1>1, <1>2

\* Where prompt() looks, and that this is all of the reply when its output has at most
\* one item.
LookedAt(o) == {o.output_text} \cup Entries(HeadOf(o.output)) \cup {HeadOf(o.choices)}

LEMMA LookedAtTexts ==
  ASSUME NEW o \in Objects
  PROVE  LookedAt(o) \subseteq Texts(o) /\ (OneItem(o) => Texts(o) = LookedAt(o))
<1> DEFINE content == HeadOf(o.output)
           entries == UNION {Entries(c) : c \in Entries(o.output)}
<1>1. LookedAt(o) = {o.output_text, HeadOf(o.choices)} \cup Entries(content)
  BY DEF LookedAt
<1>2. Texts(o) = {o.output_text, HeadOf(o.choices)} \cup entries
  BY DEF Texts
<1>3. Entries(content) \subseteq entries /\ (OneItem(o) => entries \subseteq Entries(content))
  <2>1. CASE o.output \in {Missing, Null}
    <3>1. Entries(o.output) = {} /\ Entries(content) = {}
      BY <2>1 DEF HeadOf, Entries
    <3> QED
      BY <3>1
  <2>2. CASE o.output \notin {Missing, Null}
    <3>1. IsArray(o.output)
      BY <2>2, ArraysAssumption
    <3>2. Entries(o.output) = {o.output[i] : i \in DOMAIN o.output}
      BY <2>2 DEF Entries
    <3>3. CASE o.output = <<>>
      <4>1. content = Missing /\ DOMAIN o.output = {}
        BY <2>2, <3>3 DEF HeadOf
      <4> QED
        BY <3>2, <4>1 DEF Entries
    <3>4. CASE o.output # <<>>
      <4>1. content = o.output[1]
        BY <2>2, <3>4 DEF HeadOf
      <4>2. 1 \in DOMAIN o.output /\ (OneItem(o) => DOMAIN o.output = {1})
        BY <2>2, <3>1, <3>4 DEF IsArray, OneItem
      <4> QED
        BY <3>2, <4>1, <4>2
    <3> QED
      BY <3>3, <3>4
  <2> QED
    BY <2>1, <2>2
<1> HIDE DEF content, entries
<1> QED
  BY <1>1, <1>2, <1>3

\* What prompt() makes of an object: output_text, a text from where it looks, or
\* nothing when nothing is there.
LEMMA PromptOK ==
  ASSUME NEW o \in Objects
  PROVE  /\ o.output_text # Missing => Prompt(o) = o.output_text
         /\ (Prompt(o) \notin {"", Null}) => Prompt(o) \in LookedAt(o)
         /\ (o.output_text = Missing /\ Prompt(o) = "" /\ Null # "") =>
              "" \in LookedAt(o) \/ LookedAt(o) \subseteq {Missing}
<1> DEFINE content == HeadOf(o.output)
           second == OutputText(o)
           third == HeadOf(o.choices)
           fields == <<o.output_text, second, third>>
           found == First(fields)
<1>1. DOMAIN fields = 1..3 /\ fields[1] = o.output_text /\ fields[2] = second /\ fields[3] = third
  OBVIOUS
<1>2. \A i \in 1..3 : i = 1 \/ i = 2 \/ i = 3
  OBVIOUS
<1>3. Prompt(o) = IF found = Missing THEN "" ELSE found
  BY DEF Prompt
<1>4. LookedAt(o) = {o.output_text} \cup Entries(content) \cup {third}
  BY DEF LookedAt
<1>5. content \in {Missing, Null} => second = content /\ Entries(content) = {}
  BY DEF OutputText, Entries
<1>6. content \notin {Missing, Null} =>
        /\ second # Missing => second \in Entries(content)
        /\ second = Missing => Entries(content) \subseteq {Missing}
  <2> SUFFICES ASSUME content \notin {Missing, Null}
               PROVE  /\ second # Missing => second \in Entries(content)
                      /\ second = Missing => Entries(content) \subseteq {Missing}
    OBVIOUS
  <2>1. IsArray(content)
    BY ArraysAssumption
  <2>2. second = First(content) /\ Entries(content) = {content[i] : i \in DOMAIN content}
    BY DEF OutputText, Entries
  <2> HIDE DEF content, second
  <2>3. /\ First(content) # Missing => \E i \in DOMAIN content : First(content) = content[i]
        /\ First(content) = Missing => \A i \in DOMAIN content : content[i] = Missing
    BY <2>1, FirstOK DEF IsArray
  <2> QED
    BY <2>2, <2>3
<1> HIDE DEF content, second, third, fields
<1>7. /\ found # Missing =>
           \E i \in 1..3 : found = fields[i] /\ \A j \in 1..3 : j < i => fields[j] = Missing
      /\ found = Missing => \A i \in 1..3 : fields[i] = Missing
  BY <1>1, FirstOK
<1> HIDE DEF found
<1>8. \/ found = o.output_text
      \/ o.output_text = Missing /\ found = second
      \/ o.output_text = Missing /\ second = Missing /\ found = third
  BY <1>1, <1>2, <1>7
<1>9. found = Missing => o.output_text = Missing /\ second = Missing /\ third = Missing
  BY <1>1, <1>7
<1>10. o.output_text # Missing => found = o.output_text
  BY <1>8
<1>11. found \notin {Missing, Null} => found \in LookedAt(o)
  BY <1>4, <1>5, <1>6, <1>8
<1>12. found = Missing => LookedAt(o) \subseteq {Missing}
  BY <1>4, <1>5, <1>6, <1>9
<1> QED
  BY <1>3, <1>9, <1>10, <1>11, <1>12

\* Only one whole item has the index of a text.
LEMMA ItemOfIndex ==
  ASSUME NEW texts, IsArray(texts), NEW i \in DOMAIN texts, NEW item \in Items(texts),
         item.kind = "whole", item.index = i - 1
  PROVE  item = Item(texts, i)
<1>1. i \in 1..Len(texts) /\ Len(texts) \in Nat /\ DOMAIN texts = 1..Len(texts)
  BY DEF IsArray
<1>2. CASE \E p \in DOMAIN texts : item = Item(texts, p)
  <2>1. PICK p \in DOMAIN texts : item = Item(texts, p)
    BY <1>2
  <2>2. p - 1 = i - 1 /\ p \in Nat
    BY <1>1, <2>1 DEF Item
  <2> QED
    BY <1>1, <2>1, <2>2
<1>3. CASE item = [kind |-> "whole", index |-> Len(texts), vector |-> ForeignVector]
  BY <1>1, <1>3
<1>4. CASE item \in [kind : {"partial", "bad"}, index : {0}, vector : {EmptyVector}]
  BY <1>4
<1> QED
  BY <1>2, <1>3, <1>4 DEF Items

\* A vector that was sent for a text is the one that embed() returns for it.
LEMMA EmbedKept ==
  ASSUME NEW texts, IsArray(texts), NEW o \in Replies(texts), NEW i \in DOMAIN texts,
         NEW j \in DOMAIN o.items, o.items[j] = Item(texts, i)
  PROVE  Embed(texts, o)[i] = VectorOf(texts[i])
<1>0. i \in Nat /\ i # 0 /\ texts # <<>>
  BY DEF IsArray
<1> DEFINE seqs(k) == [1..k -> Items(texts)]
           all == UNION {seqs(k) : k \in 0..Len(texts)}
<1>1. o \notin [data : {"missing", "bad"}, items : {<<>>}]
  <2>1. o \in [data : {"missing", "bad"}, items : {<<>>}] => o.items = <<>>
    OBVIOUS
  <2>2. DOMAIN <<>> = {}
    OBVIOUS
  <2> QED
    BY <2>1, <2>2
<1>2. o.data = "array" /\ o.items \in all
  <2>1. o \in [data : {"array"}, items : all]
    BY <1>1 DEF Replies
  <2> HIDE DEF all
  <2> QED
    BY <2>1
<1>3. PICK k \in 0..Len(texts) : o.items \in [1..k -> Items(texts)]
  BY <1>2
<1> DEFINE sent(q) == {m \in DOMAIN o.items : o.items[m].kind = "whole" /\ o.items[m].index = q - 1}
           T == sent(i)
<1>4. /\ o.items[j].kind = "whole" /\ o.items[j].index = i - 1
  BY DEF Item
<1>5. T \in SUBSET (1..k) /\ T # {}
  BY <1>3, <1>4
<1>6. Embed(texts, o)[i] = o.items[Max(T)].vector
  BY <1>0, <1>2, <1>5 DEF Embed
<1>7. Max(T) \in T
  <2>1. k \in Nat
    BY DEF IsArray
  <2> HIDE DEF T
  <2> QED
    BY <1>5, <2>1, MaxIsMember
<1>8. PICK m \in 1..k : m = Max(T) /\ o.items[m].kind = "whole" /\ o.items[m].index = i - 1
  BY <1>3, <1>7
<1>9. o.items[m] = Item(texts, i)
  BY <1>3, <1>8, ItemOfIndex
<1> QED
  BY <1>6, <1>8, <1>9 DEF Item

\* What a call returned is what it made of its own reply.
Own == call.pc = "returned" => NoTexts \/ (call.result = Result /\ Result # Null)

LEMMA OwnInvariance == Spec => []Own
<1>1. Init => Own
  BY DEF Init, Idle, Own
<1>2. IInv /\ Own /\ [Next]_vars => Own'
  <2> SUFFICES ASSUME IInv, Own, [Next]_vars PROVE Own'
    OBVIOUS
  <2>1. CASE UNCHANGED vars
    BY <2>1 DEF vars, Own, NoTexts, Result
  <2>2. ASSUME NEW kind \in Kinds, NEW texts, Begin(kind, texts) PROVE Own'
    BY <2>2 DEF Begin, Idle, Own, NoTexts
  <2>3. CASE Finish
    <3>1. /\ call'.kind = call.kind /\ call'.texts = call.texts /\ call'.result = Result
          /\ call'.pc = (IF Result = Null THEN "thrown" ELSE "returned") /\ reply' = reply
      BY <2>3 DEF Finish, IInv, IsCall
    <3>2. Result' = Result
      BY <3>1 DEF Result
    <3> QED
      BY <3>1, <3>2 DEF Own
  <2>4. CASE Throws \/ Send \/ Receive \/ Piece
    <3>1. call'.pc # "returned"
      BY <2>4 DEF Throws, Send, Receive, Piece, IInv, IsCall
    <3> QED
      BY <3>1 DEF Own
  <2>5. ASSUME NEW no \in pending, Serve(no) PROVE Own'
    <3>1. call' = call /\ (call.pc = "returned" => reply' = reply)
      BY <2>5 DEF Serve
    <3> QED
      BY <3>1 DEF Own, NoTexts, Result
  <2> QED
    BY <2>1, <2>2, <2>3, <2>4, <2>5 DEF Next, Client, SendFails, TimeOut, HeadRefused, Kinds
<1> QED
  BY <1>1, <1>2, Invariance, PTL DEF Spec

\* What a call returned is what the service gave it: a text of its own reply, and none
\* only when the one item of its output has none; the vectors in whatever order they
\* came (llm/openai.hpp:49-89, embedding/openai.hpp:57-79).
THEOREM ReplyUsed == Spec => []ResultFromReply
<1>1. IInv /\ Own => ResultFromReply
  <2> SUFFICES ASSUME IInv, Own, call.pc = "returned" PROVE ResultFromReply
    BY DEF ResultFromReply
  <2>1. CASE NoTexts
    <3>1. DOMAIN call.texts = {} /\ call.kind # "prompt"
      BY <2>1 DEF NoTexts
    <3> QED
      BY <3>1 DEF ResultFromReply
  <2>2. CASE ~NoTexts
    <3>1. call.result = Result /\ Result # Null /\ reply.object # Null
      BY <2>2 DEF Own, Result
    <3>2. reply \in AllReplies(call.kind, call.texts)
      BY <3>1 DEF IInv, TypeOK, NoReply
    <3>3. reply \in Replies200(call.kind, call.texts)
      BY <3>1, <3>2 DEF AllReplies
    <3>4. CASE call.kind = "prompt"
      <4>1. reply.object \in Objects /\ call.result = Prompt(reply.object)
        BY <3>1, <3>3, <3>4 DEF Replies200, Result
      <4>2. /\ LookedAt(reply.object) \subseteq Texts(reply.object)
            /\ OneItem(reply.object) => Texts(reply.object) = LookedAt(reply.object)
        BY <4>1, LookedAtTexts
      <4> QED
        BY <3>1, <3>4, <4>1, <4>2, PromptOK DEF ResultFromReply
    <3>5. CASE call.kind # "prompt"
      <4>1. reply.object \in Replies(call.texts) /\ call.result = Embed(call.texts, reply.object)
        BY <3>1, <3>3, <3>5 DEF Replies200, Result
      <4>2. IsArray(call.texts)
        BY ArraysAssumption DEF IInv, TypeOK, IsArray
      <4> QED
        BY <3>5, <4>1, <4>2, EmbedKept DEF ResultFromReply
    <3> QED
      BY <3>4, <3>5
  <2> QED
    BY <2>1, <2>2
<1> QED
  BY <1>1, Invariance, OwnInvariance, PTL
=============================================================================
