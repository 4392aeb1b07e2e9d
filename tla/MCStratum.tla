----------------------------- MODULE MCStratum -----------------------------
EXTENDS StratumV1, TLC

Budget(a, j, st, sh, f, r) ==
    [attempts |-> a, jobs |-> j, sets |-> st, shares |-> sh, faults |-> f, rates |-> r]

\* Each budget lets one kind of trouble happen while the others rest.
MCBudgets ==
    { Budget(2, 2, 0, 1, 1, <<4>>)   \* work of one connection, shares to the next
    , Budget(1, 1, 1, 0, 2, <<4>>)   \* notifications in every phase, cut lines
    , Budget(1, 1, 0, 2, 1, <<4>>)   \* answers that come late
    , Budget(1, 1, 1, 1, 0, <<4>>)   \* a difficulty while a share is submitted
    , Budget(3, 0, 0, 0, 1, <<4>>)   \* backoff
    } \cup { Budget(1, 0, 0, 0, 1, <<4, a, b>>) : a, b \in Rates }
                                     \* hashrates within and without the deadband
=============================================================================
