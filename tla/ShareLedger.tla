---------------------------- MODULE ShareLedger ----------------------------
(***************************************************************************)
(* The life of one share, as the pool promises it, without blocks,         *)
(* connections or coroutines: it is counted at most once; it may be judged *)
(* (by the wallet) before that, and when the verdict is against it, it may *)
(* be offered again; once counted it is never judged or counted again.     *)
(***************************************************************************)
VARIABLE stage

Init == stage = "new"

Moves == {<<"new", "judged">>,       \* it may be a block: the wallet is asked
          <<"new", "counted">>,      \* a plain share is counted at once
          <<"judged", "counted">>,   \* the verdict is for it
          <<"judged", "new">>}       \* against it, or the backend is down

Next == <<stage, stage'>> \in Moves

Spec == Init /\ [][Next]_stage
=============================================================================
