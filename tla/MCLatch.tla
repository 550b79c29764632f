-------------------------------- MODULE MCLatch --------------------------------
(* Calls of zip and concat.                                                 *)
EXTENDS Latch

C(kind, counts, workers, take) ==
  [kind |-> kind, counts |-> counts, workers |-> workers, take |-> take]

MCCalls ==
  {C(kind, counts, 1, take) : kind \in {"zip", "concat"}, take \in 0..1,
                              counts \in {<<2, 2>>, <<0, 2>>, <<3, 1>>, <<1, 1, 1>>}}
    \cup {C(kind, counts, 2, 0) : kind \in {"zip", "concat"}, counts \in {<<2, 1>>, <<3, 0>>}}
    \cup {C("zip", <<2, 1>>, 2, 1)}
=============================================================================
