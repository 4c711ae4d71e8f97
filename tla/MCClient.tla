------------------------------ MODULE MCClient ------------------------------
(***************************************************************************)
(* A call of a client with its redirects and retries, a streaming call     *)
(* with its body, and the credit that lets the server send bodies over     *)
(* HTTP/2.  They share no state at this level, so only the one in focus    *)
(* moves.                                                                  *)
(***************************************************************************)
EXTENDS Request, Streaming, H2RecvWindow

CONSTANTS siteA, siteB,
          Foci  \* what the instance checks

VARIABLE focus

client_vars == <<request_vars, streaming_vars, recv_vars, focus>>

ClientInit ==
    /\ focus \in Foci
    /\ RequestInit /\ StreamingInit /\ RecvInit
    /\ focus # "request" => call = CHOOSE c \in Calls : TRUE
    /\ focus # "streaming" => plan = (CHOOSE p \in Plans : TRUE) /\ pooled = {}

Calling(A) == focus = "request" /\ A /\ UNCHANGED <<streaming_vars, recv_vars, focus>>
StreamCalling ==
    /\ focus = "streaming" /\ StreamingNext
    /\ UNCHANGED <<request_vars, recv_vars, focus>>
Receiving(A) == focus = "recv" /\ A /\ UNCHANGED <<request_vars, streaming_vars, focus>>

ClientNext == Calling(RequestNext) \/ StreamCalling \/ Receiving(RecvNext)

Serves(s) == \E n \in Frames, end \in BOOLEAN : n > 0 /\ Data(s, n, end)

(* The redirect loop goes on, and timeout_at fires at the deadline of a try. *)
(* The network delivers WINDOW_UPDATE, and a server that may send on a      *)
(* stream again and again does.                                             *)
ClientSpec ==
    /\ ClientInit /\ [][ClientNext]_client_vars
    /\ WF_client_vars(Calling(Top)) /\ WF_client_vars(Calling(Deadline))
    /\ WF_client_vars(Receiving(ConnCredit))
    /\ \A s \in Streams : /\ WF_client_vars(Receiving(StreamCredit(s)))
                          /\ SF_client_vars(Receiving(Serves(s)))

-----------------------------------------------------------------------------
(* Instances *)

CallsMade ==
    {[method |-> "GET", idempotent |-> FALSE,
      url |-> [scheme |-> "https", site |-> siteA],
      policy |-> [https_only |-> TRUE, follow |-> TRUE, fallback |-> FALSE]],
     [method |-> "POST", idempotent |-> FALSE,
      url |-> [scheme |-> "https", site |-> siteA],
      policy |-> [https_only |-> FALSE, follow |-> TRUE, fallback |-> TRUE]]}

\* Whether a call may fall back to TCP is settled before its body is read, so
\* one way of reading is enough for the calls that may not.
StreamingCalls ==
    {[mode |-> m, compressed |-> c, fallback |-> TRUE, max_body |-> 4] :
       m \in {"raw", "decoded", "bytes"}, c \in BOOLEAN}
    \cup {[mode |-> m, compressed |-> TRUE, fallback |-> TRUE, max_body |-> 3] :
            m \in {"raw", "decoded"}}
    \cup {[mode |-> "decoded", compressed |-> TRUE, fallback |-> FALSE, max_body |-> 4]}
\* The second and the fourth chunk decode to something.
BodyChunks == <<<<>>, <<1, 2>>, <<>>, <<3>>>>
LastUnits == <<4>>

ShortResponses == <<3, 1>>
=============================================================================
