---------------------------- MODULE RequestReply ----------------------------
(* What the Messanger promises to a client: a request is either rejected,   *)
(* with one status, or routed, and then it gets one more answer: either the *)
(* response of the service, or the notice that it was closed.               *)
EXTENDS Sequences

CONSTANT Requests
VARIABLE reports    \* reports[r]: what the client was sent about request r

Rejections == {"NO_SUCH_SERVICE", "REQUEST_TIMEOUT_TOO_LONG",
               "SESSIONS_LIMIT_REACHED", "UNKNOWN_ERROR"}
Answers == {"RESPONSE", "CLOSED"}

Init == reports = [r \in Requests |-> <<>>]

Reject(r) == reports[r] = <<>> /\ \E s \in Rejections : reports' = [reports EXCEPT ![r] = <<s>>]
Route(r) == reports[r] = <<>> /\ reports' = [reports EXCEPT ![r] = <<"ROUTED">>]

\* One step may close several requests whose deadline has passed.
Answer(S, a) ==
    /\ \A r \in S : reports[r] = <<"ROUTED">>
    /\ reports' = [r \in Requests |-> IF r \in S THEN Append(reports[r], a) ELSE reports[r]]

Next ==
    \/ \E r \in Requests : Reject(r) \/ Route(r)
    \/ \E S \in SUBSET Requests : Answer(S, "CLOSED")
    \/ \E r \in Requests : Answer({r}, "RESPONSE")

Spec == Init /\ [][Next]_reports
============================================================================
