--------------------------- MODULE MCStratumCodec ---------------------------
(***************************************************************************)
(* The texts of a share, with digits of one bit, hashes of three bytes, a  *)
(* time and a nonce of two, every text of the length of a field or         *)
(* shorter, and some that spill into the next field, that fill the array   *)
(* behind it and that are written past its end.                            *)
(***************************************************************************)
EXTENDS StratumCodecProperties, TLC

Texts == UNION {[1..length -> {0, 1, NotDigit}] : length \in 0..4}
Long(bytes) == [c \in 1..(2 * bytes) |-> IF c % 3 = 0 THEN 0 ELSE 1]
Longer == {Long(bytes) : bytes \in 3..7}
          \cup {Append(Long(bytes), last) : bytes \in {3, 6}, last \in {0, NotDigit}}
Params(time, nonce, solution) == <<Null, String(<<0, NotDigit, 1>>), time, nonce, solution>>
Line(method, params) ==
  [json |-> TRUE, id |-> "integer", method |-> method, params |-> params]

SomeText == String(<<0, 1, 1, 0>>)
SomeSolution == String(<<1, 1, 0, 1, 1, 0>>)
Solutions ==
  {Null, Other, SomeSolution, String(<<1, 0>>), String(<<1, 0, 0, 1>>), String(<<1, 0, 0, 1, 1>>)}

Submits ==
  {Params(String(t), SomeText, SomeSolution) : t \in Texts \cup Longer}
  \cup {Params(SomeText, String(t), SomeSolution) : t \in Texts \cup Longer}
  \cup {Params(String(t), String(n), SomeSolution) :
          t \in {Long(4), Append(Long(2), NotDigit)}, n \in {<<>>, <<0, 1>>, Long(3), Long(4)}}
  \cup {Params(t, n, s) : t, n \in {Null, Integer, SomeText}, s \in Solutions}
  \cup {SubSeq(Params(SomeText, SomeText, SomeSolution), 1, 4)}
Subscribes ==
  {<<Null, Other, Null, Integer>>, <<Null, Null, Null>>}
  \cup {<<Null, SomeText, Null, port>> : port \in {Integer, Null, SomeText, String(<<1>>), String(<<NotDigit>>)}}

MCMessages ==
  {Line("mining.submit", params) : params \in Submits}
  \cup {Line("mining.subscribe", params) : params \in Subscribes}
  \cup {Line("mining.authorize", params) : params \in {<<>>, <<SomeText>>, <<Other>>}}
  \cup {Line("mining.extranonce.subscribe", <<>>), Line("unknown", <<>>)}
  \cup {[Line("mining.authorize", <<SomeText>>) EXCEPT !.json = FALSE],
        [Line("mining.authorize", <<SomeText>>) EXCEPT !.id = "other"],
        [Line("other", <<>>) EXCEPT !.params = "no array"]}

MCJobs ==
  [hash : {<<1, 2, 0>>, <<3, 0, 2>>}, merkle : {<<0, 1, 3>>, <<2, 2, 1>>},
   reserved : {<<0, 0, 0>>, <<0, 2, 1>>}, time : {<<0, 1>>, <<2, 3>>}, bits : {<<1, 3>>}]
MCLeftovers == {<<0, 0, 0, 0, 0>>, <<3, 1, 2, 3, 1>>}

=============================================================================
