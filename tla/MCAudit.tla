------------------------------- MODULE MCAudit -------------------------------
(* Instances of Audit for TLC. *)
EXTENDS Audit

\* A bet of the opening balance and two wins, which fit only after the bet, and
\* both only with a cent taken away behind the service's back: the balance is
\* then at its limit, and the entries add up to more than the range holds.
MCText ==
    [m \in {2, 3, 4} |->
        CASE m = 2 -> Text(FALSE, <<1>>, <<0, 1>>)
          [] m = 3 -> Text(FALSE, <<2>>, <<0, 0>>)
          [] m = 4 -> Text(FALSE, <<0>>, <<5, 6>>)]
MCLimit == {-1, 1, 2, 4}
MCTampering == {-1, 1}
=============================================================================
