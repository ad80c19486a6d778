---------------------------- MODULE MCRestClient ----------------------------
(***************************************************************************)
(* Two requests.  Replies to a prompt with every combination of fields     *)
(* that are missing, unusable, empty or there, up to two entries in the    *)
(* first item of the output and a second item; batches of up to two texts. *)
(***************************************************************************)
EXTENDS RestClient

CONSTANTS t1, t2
MCBatches == {<<>>, <<t1>>, <<t1, t2>>}
MCContents == {Missing, Null} \cup UNION {[1..k -> {Missing, Null, "text"}] : k \in 0..2}
MCObjects ==
  [output_text : {Missing, Null, "", "top"},
   output : {Missing, Null, <<>>} \cup {<<c>> : c \in MCContents}
              \cup {<<c, <<"late">>>> : c \in MCContents},
   choices : {Missing, Null, <<>>, <<Missing>>, <<Null>>, <<"">>, <<"old">>}]
=============================================================================
