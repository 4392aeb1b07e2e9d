------------------------------- MODULE MCPool -------------------------------
EXTENDS NanoPool, TLC

Limit(b, te, ti, sh, w, c) ==
    [connections |-> b, templates |-> te, tips |-> ti, shares |-> sh, windows |-> w, cap |-> c]

\* The broadcast holds 16 messages in the code, never reached by a handler that
\* runs; the last limit makes it overflow.
MCLimits ==
    { Limit(2, 1, 1, 0, 0, 16)   \* templates, tips and a reconnection
    , Limit(1, 2, 0, 1, 0, 16)   \* shares that race refreshes
    , Limit(1, 1, 1, 1, 0, 16)   \* ... and tips
    , Limit(1, 1, 0, 2, 1, 16)   \* ... and retargets
    , Limit(2, 0, 0, 2, 0, 16)   \* shares kept over a reconnection, the throttle
    , Limit(1, 2, 1, 0, 0, 2)    \* a handler that lags
    }
=============================================================================
