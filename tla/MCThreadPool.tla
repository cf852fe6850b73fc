---------------------------- MODULE MCThreadPool ----------------------------
(* Instances of the worker pool for TLC: few threads, few requests.         *)
EXTENDS ThreadPool, TLC

CONSTANTS w1, w2, w3

Three == {w1, w2, w3}

Request(kind, max, id) == [kind |-> kind, max |-> max, id |-> id]

\* Every command; thread_limit, which lowers the limit or raises it again, and a
\* stuck command can be cancelled.
AllRequests == {Request("command", 1, FALSE), Request("stuck", 1, TRUE),
                Request("thread_limit", 1, TRUE),
                Request("shutdown", 1, FALSE), Request("immediate", 1, FALSE)}

\* Four requests, with two calls of thread_limit, one after the other or overlapping,
\* and one shutdown.
FewOfKind == {n \in [Kinds -> 0..3] :
                /\ n["command"] + n["stuck"] + n["thread_limit"] + n["shutdown"] + n["immediate"] <= 4
                /\ n["stuck"] <= 1 /\ n["shutdown"] + n["immediate"] <= 1
                /\ n["stuck"] + n["thread_limit"] <= 2}
=============================================================================
