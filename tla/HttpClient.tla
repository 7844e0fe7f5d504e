------------------------------ MODULE HttpClient ------------------------------
(***************************************************************************)
(* http/client.rs of the vendored esp-idf-svc: the phases of a connection, *)
(* the body of a request in one piece or in chunks, and redirects.  Where  *)
(* it does not know the length of a body it writes the chunks of the       *)
(* encoding itself.  The server (external) answers once the body is        *)
(* complete; until then the client waits, as long as its timeout.          *)
(***************************************************************************)
EXTENDS Integers

CONSTANTS MaxBody,      \* bound: pieces of a body
          LastAnswer    \* bound: answers of the server

ASSUME HttpClientAssumption == MaxBody \in Nat /\ LastAnswer \in Nat

Chunked == -1

VARIABLES policy,      \* follow_redirects_policy: "none", "gethead" or "all"
          rawBody,     \* raw_request_body: the user writes the chunks
          state,       \* "New", "Request" or "Response"
          fetching,    \* in fetch_headers?
          promise,     \* request_content_len
          follow,      \* follow_redirects
          wire,        \* what the server has got: [len, data, ends, late]
          headers,     \* whose answers' headers are in the map
          hcAnswers,     \* answers of the server so far
          redirected,  \* history: is the wire's request a redirected one?
          spoiled      \* history: a write of this request, or its answer, failed

hcVars == <<policy, rawBody, state, fetching, promise, follow, wire, headers, hcAnswers,
            redirected, spoiled>>
config == <<policy, rawBody>>

\* esp_http_client_open sends the head of a request.
Opened(len) == [len |-> len, data |-> 0, ends |-> 0, late |-> 0]

HcInit ==
  /\ policy \in {"none", "gethead", "all"} /\ rawBody \in BOOLEAN
  /\ state = "New" /\ fetching = FALSE /\ promise = Chunked /\ follow = FALSE
  /\ wire = Opened(0) /\ headers = {} /\ hcAnswers = 0
  /\ redirected = FALSE /\ spoiled = FALSE

WritesChunks == ~rawBody /\ promise = Chunked
Complete_(w) == IF w.len = Chunked THEN w.ends > 0 ELSE w.data >= w.len
Data(w, n) == IF w.ends > 0 /\ w.len = Chunked THEN [w EXCEPT !.late = 1]
                                               ELSE [w EXCEPT !.data = @ + n]
End(w) == [w EXCEPT !.ends = IF @ = 2 THEN 2 ELSE @ + 1]

-----------------------------------------------------------------------------
\* initiate_request; len is the header Content-Length, or Chunked if there is
\* none: a POST is chunked then, anything else has no body.  A failure of open
\* leaves the state as it was.
InitiateRequest(method, len) ==
  /\ state \in {"New", "Response"}
  /\ promise' = IF len = Chunked /\ method # "post" THEN 0 ELSE len
  /\ follow' = (policy = "all" \/ (policy = "gethead" /\ method = "get"))
  /\ redirected' = FALSE /\ spoiled' = FALSE
  /\ \/ wire' = Opened(promise') /\ state' = "Request"
     \/ UNCHANGED <<wire, state>>
  /\ UNCHANGED <<config, fetching, headers, hcAnswers>>

\* Mutant: an empty buffer is written as a chunk, too.
WriteEmpty(n) ==
  /\ state = "Request" /\ ~fetching /\ wire.data + n <= MaxBody
  /\ wire' = IF WritesChunks /\ n = 0 THEN End(wire) ELSE Data(wire, n)
  /\ UNCHANGED <<config, state, fetching, promise, follow, headers, hcAnswers, redirected, spoiled>>

\* write: nothing for an empty buffer, which would end a chunked body; a failure
\* leaves a torn piece.
WriteBody(n) ==
  /\ state = "Request" /\ ~fetching /\ n > 0 /\ wire.data + n <= MaxBody
  /\ wire' = Data(wire, n) /\ spoiled' \in {spoiled, TRUE}
  /\ UNCHANGED <<config, state, fetching, promise, follow, headers, hcAnswers, redirected>>

\* initiate_response: flush ends a chunked body, and then fetch_headers starts,
\* unless that fails.
InitiateResponse ==
  /\ state = "Request" /\ ~fetching
  /\ wire' = IF WritesChunks THEN End(wire) ELSE wire
  /\ \/ fetching' = TRUE /\ headers' = {} /\ UNCHANGED spoiled
     \/ spoiled' = TRUE /\ UNCHANGED <<fetching, headers>>
  /\ UNCHANGED <<config, state, promise, follow, hcAnswers, redirected>>

\* Mutant: the headers of the redirecting answer are kept.
FollowKeeping ==
  /\ headers' = headers \cup {hcAnswers'} /\ wire' = Opened(promise) /\ redirected' = TRUE
  /\ UNCHANGED <<state, fetching>>

\* fetch_headers, once around its loop: the answer's headers are collected, and
\* a redirect is followed with a GET that promises the same body again.
FollowRedirect ==
  /\ headers' = {} /\ wire' = Opened(promise) /\ redirected' = TRUE
  /\ UNCHANGED <<state, fetching>>

FetchHeaders(isRedirect) ==
  /\ fetching /\ Complete_(wire) /\ hcAnswers < LastAnswer
  /\ hcAnswers' = hcAnswers + 1
  /\ IF isRedirect /\ follow
     THEN FollowRedirect
     ELSE /\ headers' = headers \cup {hcAnswers'}
          /\ fetching' = FALSE /\ state' = "Response"
          /\ UNCHANGED <<wire, redirected>>
  /\ UNCHANGED <<config, promise, follow, spoiled>>

\* The server does not answer in time, or the connection breaks.
FetchFails ==
  /\ fetching /\ fetching' = FALSE /\ spoiled' = TRUE
  /\ UNCHANGED <<config, state, promise, follow, wire, headers, hcAnswers, redirected>>

HcNext ==
  \/ \E m \in {"get", "post", "put"}, len \in {Chunked, 0, 1} : InitiateRequest(m, len)
  \/ \E n \in 0..MaxBody : WriteBody(n)
  \/ InitiateResponse \/ FetchFails
  \/ \E isRedirect \in BOOLEAN : FetchHeaders(isRedirect)

-----------------------------------------------------------------------------
\* Whatever pieces, empty ones included, the user writes: while the client waits
\* for the answer the server has a chunked body with one end and nothing after
\* it, and a request that was redirected under the default policy is never one
\* that promises chunks nobody will write.  (Not after a failed write or answer,
\* when a second initiate_response ends the body a second time.)
BodyAsPromised ==
  fetching /\ ~spoiled /\ ~rawBody /\ wire.len = Chunked =>
    IF redirected THEN policy = "all" ELSE wire.ends = 1 /\ wire.late = 0

\* The headers a user reads are those of the last answer, through any number of
\* redirects, failures and requests on the same connection.
HeadersAreOwn == state = "Response" => headers = {hcAnswers}
=============================================================================
