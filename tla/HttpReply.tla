------------------------------ MODULE HttpReply ------------------------------
(***************************************************************************)
(* http/server.rs of the vendored esp-idf-svc: how a request is answered.  *)
(* The handler may set status and headers (initiate_response), write any   *)
(* number of buffers, and return Ok or an error; to_native_handler then    *)
(* completes the response or renders an error page.  The first send puts   *)
(* status and headers on the wire; a response is either one whole send or  *)
(* a chain of chunks that an empty chunk ends.                             *)
(***************************************************************************)
EXTENDS Integers

CONSTANTS LastPiece,     \* bound: buffers written for one request
          LastRequest    \* bound: requests

ASSUME HttpReplyAssumption == LastPiece \in Nat /\ LastRequest \in Nat

VARIABLES served,        \* requests so far
          place,         \* "idle", "handler", "completing" or "failing"
          inRequest,     \* headers.is_some(): the request phase
          kept,          \* response_headers.is_some(): nothing is sent yet
          reply,         \* on the wire: [whole, chunks, lasts, late]
          result,        \* history: "ok" or "err", the handler's result
          broken         \* history: a send of this request failed

replyVars == <<served, place, inRequest, kept, reply, result, broken>>

Silence == [whole |-> 0, chunks |-> 0, lasts |-> 0, late |-> 0]

ReplyInit ==
  /\ served = 0 /\ place = "idle" /\ inRequest = TRUE /\ kept = FALSE
  /\ reply = Silence /\ result = "ok" /\ broken = FALSE

Ended(r) == r.whole > 0 \/ r.lasts > 0
Chunk(r) == IF Ended(r) THEN [r EXCEPT !.late = 1] ELSE [r EXCEPT !.chunks = @ + 1]
LastChunk(r) == [r EXCEPT !.lasts = @ + 1]
Whole(r) == [r EXCEPT !.whole = @ + 1, !.late = IF r.chunks > 0 THEN 1 ELSE @]

\* A send of ESP-IDF: it may fail.
Sends(r) == \/ reply' = r /\ UNCHANGED broken
            \/ broken' = TRUE /\ UNCHANGED reply

-----------------------------------------------------------------------------
\* handle_req: the handler is called with a connection of its own.
HandleReq ==
  /\ place = "idle" /\ served < LastRequest
  /\ served' = served + 1 /\ place' = "handler"
  /\ inRequest' = TRUE /\ kept' = FALSE
  /\ reply' = Silence /\ result' = "ok" /\ broken' = FALSE

\* initiate_response, in the request phase; nothing is sent.  A status or header
\* that is refused ends it early, in the request phase still.
InitiateReply ==
  /\ place = "handler" /\ inRequest
  /\ inRequest' = FALSE /\ kept' = TRUE
  /\ UNCHANGED <<served, place, reply, result, broken>>

\* Mutant: a buffer that is written does not mark the headers as sent.
WriteReplyUnmarked(empty) ==
  /\ place = "handler" /\ ~inRequest /\ reply.chunks < LastPiece
  /\ IF empty THEN UNCHANGED <<reply, broken>> ELSE Sends(Chunk(reply))
  /\ UNCHANGED <<served, place, inRequest, kept, result>>

\* Mutant: an empty buffer is sent as well, as a chunk.
WriteReplyEmpty(empty) ==
  /\ place = "handler" /\ ~inRequest /\ reply.chunks < LastPiece
  /\ Sends(IF empty THEN LastChunk(reply) ELSE Chunk(reply)) /\ kept' = FALSE
  /\ UNCHANGED <<served, place, inRequest, result>>

\* write and write_all, in the response phase: an empty buffer is not sent.
WriteReply(empty) ==
  /\ place = "handler" /\ ~inRequest /\ reply.chunks < LastPiece
  /\ IF empty THEN UNCHANGED <<reply, broken, kept>>
              ELSE Sends(Chunk(reply)) /\ kept' = (kept /\ reply' = reply)
  /\ UNCHANGED <<served, place, inRequest, result>>

HandlerReturns(r) ==
  /\ place = "handler" /\ result' = r
  /\ place' = IF r = "ok" THEN "completing" ELSE "failing"
  /\ UNCHANGED <<served, inRequest, kept, reply, broken>>

\* complete: one whole response if nothing is sent yet, the last chunk
\* otherwise, also when the handler never initiated a response.
CompleteReply ==
  /\ place = "completing"
  /\ Sends(IF kept THEN Whole(reply) ELSE LastChunk(reply))
  /\ IF reply' = reply THEN place' = "failing" /\ UNCHANGED kept
                                  ELSE place' = "idle" /\ kept' = FALSE
  /\ UNCHANGED <<served, inRequest, result>>

\* handle_error: an error page as one chunk if the response has not been
\* initiated (render_error), and nothing otherwise.
HandleError ==
  /\ place = "failing" /\ place' = "idle"
  /\ IF inRequest THEN /\ inRequest' = FALSE /\ Sends(Chunk(reply))
                       /\ kept' = (reply' = reply)
                  ELSE UNCHANGED <<inRequest, kept, reply, broken>>
  /\ UNCHANGED <<served, result>>

ReplyNext ==
  \/ HandleReq \/ InitiateReply \/ CompleteReply \/ HandleError
  \/ \E empty \in BOOLEAN : WriteReply(empty)
  \/ \E r \in {"ok", "err"} : HandlerReturns(r)

-----------------------------------------------------------------------------
\* A request whose handler returned Ok and whose sends succeeded has exactly one
\* complete response on the wire, with whatever buffers were written, empty ones
\* among them, and nothing follows the end of any response.
RepliedOnce ==
  /\ reply.late = 0 /\ reply.whole + reply.lasts <= 1
  /\ place = "idle" /\ result = "ok" /\ ~broken /\ served > 0 =>
       reply.whole + reply.lasts = 1
=============================================================================
