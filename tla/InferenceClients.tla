-------------------------- MODULE InferenceClients --------------------------
(***************************************************************************)
(* How a test asks a model: UserInference.run_inference_flow runs curl or  *)
(* grpcurl and tries again for 30 seconds; the methods of OpenAIClient are *)
(* tried five times; those of TGISGRPCPlugin, and get_request_http, once.  *)
(* A streamed answer arrives token by token, and the connection may break, *)
(* or end too early, or with the message of an error, at any of them.      *)
(***************************************************************************)
EXTENDS Naturals, Sequences, FiniteSets

CONSTANTS
    Answer,        \* the tokens of the full answer
    ErrorMessage,  \* the text of an error the server met while it streamed
    Nothing        \* None

\* The last token carries the stop reason, or the mark [DONE].
ASSUME AnswerAssumption ==
    /\ Answer \in Seq(STRING) /\ Answer # << >> /\ ErrorMessage \in STRING
    /\ \A i \in 1..Len(Answer) : Answer[i] # ErrorMessage
    /\ \A i \in 1..Len(Answer) : Answer[i] = Answer[Len(Answer)] => i = Len(Answer)

Calls == {"curl", "post", "stream", "get", "tgis", "tgisStream"}
Retried == {"post", "stream"}      \* request_audio is tried as request_http is
MaxRetries == 5
CurlAttempts == 6                  \* every 5 of 30 seconds

\* What curl prints, as the checks of the code tell it apart: nothing, an error
\* of an HTTP version, or the answer of the model.
Replies == {"empty", "1.0 503", "1.1 503", "1.1 500", "1.1 504", "2 500", "answer"}

VARIABLES
    call, phase,
    route,      \* what the command addresses: a host and whether it can be reached at all
    attempt,
    got,        \* the tokens in hand: <<attempt, token>>
    out,        \* what the caller gets
    cut         \* history: a stream ended too early in this attempt

clients == <<call, phase, route, attempt, got, out, cut>>

NoRoute == [url |-> Nothing, reachable |-> FALSE]

ClientInit ==
    /\ call = "none" /\ phase = "idle" /\ route = NoRoute /\ attempt = 0
    /\ got = << >> /\ out = Nothing /\ cut = FALSE

Start(c, to) ==
    /\ phase = "idle" /\ call' = c /\ phase' = "trying" /\ route' = to /\ attempt' = 1
    /\ UNCHANGED <<got, out, cut>>

Return(value) == phase' = "returned" /\ out' = value
Raise(error) == phase' = "raised" /\ out' = error
Trying(cs) == phase = "trying" /\ call \in cs /\ UNCHANGED <<call, route>>

-----------------------------------------------------------------------------
\* run_inference: curl has printed a reply that is an error to try again after;
\* an empty one is no sample that ends the retry.
CurlRetries(reply) == reply \in {"empty", "1.0 503", "1.1 500"}

\* An attempt fails, by whatever exception, or curl prints a reply.  Only then
\* run_inference_flow looks for 504.
CurlAttempt ==
    /\ Trying({"curl"}) /\ attempt <= CurlAttempts
    /\ \/ attempt' = attempt + 1 /\ UNCHANGED <<phase, out>>
       \/ /\ route.reachable
          /\ \E reply \in {x \in Replies : ~CurlRetries(x)} :
                IF reply = "1.1 504" THEN Raise("InferenceResponseError") ELSE Return(reply)
          /\ UNCHANGED attempt
    /\ UNCHANGED <<got, cut>>

\* The 30 seconds are over; an attempt may be long.
CurlExpires ==
    /\ Trying({"curl"}) /\ attempt > 1
    /\ Raise("TimeoutExpiredError") /\ UNCHANGED <<attempt, got, cut>>

-----------------------------------------------------------------------------
\* Fault: the tokens are kept with the client.
KeepTokens == got' = got

\* Another attempt, with the tokens of this one forgotten: they are local.
Forget == got' = << >>

\* An attempt of tenacity fails; after the last the caller gets a RetryError.
AttemptFails ==
    /\ Trying(Retried)
    /\ IF attempt = MaxRetries THEN Raise("RetryError") /\ UNCHANGED attempt
       ELSE attempt' = attempt + 1 /\ UNCHANGED <<phase, out>>
    /\ Forget /\ cut' = FALSE

PostAnswers ==
    /\ Trying({"post", "get", "tgis"}) /\ Return(Answer)
    /\ UNCHANGED <<attempt, got, cut>>

\* get_request_http and the gRPC calls log an error and return None.
OnceFails ==
    /\ Trying({"get", "tgis", "tgisStream"}) /\ Return(Nothing)
    /\ UNCHANGED <<attempt, got, cut>>

TokenArrives ==
    /\ Trying({"stream", "tgisStream"}) /\ ~cut
    /\ LET n == Cardinality({i \in DOMAIN got : got[i][1] = attempt})
       IN  n < Len(Answer) /\ got' = Append(got, <<attempt, Answer[n + 1]>>)
    /\ UNCHANGED <<phase, attempt, out, cut>>

\* The connection ends, with or without the rest of the answer.
StreamIsCut ==
    /\ Trying({"stream", "tgisStream"}) /\ ~cut /\ Len(got) < Len(Answer) /\ cut' = TRUE
    /\ UNCHANGED <<phase, attempt, got, out>>

\* The message of an error ends the stream; _parse_streaming_response returns it
\* as one more token.  One that is no text cannot be joined, and a chat's has no
\* choices to look into: then the attempt fails.
ErrorArrives ==
    /\ Trying({"stream"}) /\ ~cut /\ Len(got) < Len(Answer)
    /\ got' = Append(got, <<attempt, ErrorMessage>>) /\ cut' = TRUE
    /\ UNCHANGED <<phase, attempt, out>>

StreamOver == cut \/ (got # << >> /\ got[Len(got)][2] = Answer[Len(Answer)])

\* streaming_request_http joins what has come; it does not look for [DONE].
StreamReturns ==
    /\ Trying({"stream"}) /\ StreamOver
    /\ Return([i \in DOMAIN got |-> got[i][2]])
    /\ UNCHANGED <<attempt, got, cut>>

\* Fault: the end of the stream is taken for the end of the answer.
StopAtEnd == StreamOver

StopReason == ~cut

\* make_grpc_request_stream returns at the token with the stop reason.
TgisStreamReturns ==
    /\ Trying({"tgisStream"}) /\ StreamOver
    /\ Return(IF StopReason THEN [i \in DOMAIN got |-> got[i][2]] ELSE Nothing)
    /\ UNCHANGED <<attempt, got, cut>>

ClientStep ==
    \/ CurlAttempt \/ CurlExpires \/ AttemptFails \/ PostAnswers \/ OnceFails
    \/ TokenArrives \/ ErrorArrives \/ StreamIsCut \/ StreamReturns \/ TgisStreamReturns

-----------------------------------------------------------------------------
ClientTypeOK ==
    /\ call \in Calls \cup {"none"} /\ phase \in {"idle", "trying", "returned", "raised"}
    /\ attempt \in 0..CurlAttempts + 1 /\ Len(got) <= Len(Answer) /\ cut \in BOOLEAN

\* A streamed answer that a test gets is of one attempt, from its first token on,
\* however many attempts broke off before it; and it is shorter than the answer,
\* or ends with an error instead of the rest, only if the client is the one that
\* does not look for the end of it.
StreamedAnswerIsWhole ==
    phase = "returned" /\ call \in {"stream", "tgisStream"} /\ out # Nothing =>
        LET broken == call = "stream" /\ cut
        IN  /\ Len(out) <= Len(Answer)
            /\ Len(out) < Len(Answer) => broken
            /\ \A i \in DOMAIN out :
                  \/ out[i] = Answer[i]
                  \/ broken /\ i = Len(out) /\ out[i] = ErrorMessage
=============================================================================
