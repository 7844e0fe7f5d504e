------------------------------- MODULE AsyncTls -------------------------------
(***************************************************************************)
(* tls.rs of the vendored esp-idf-svc: EspTls on an adopted socket and     *)
(* EspAsyncTls, whose calls try again whenever the socket has become what  *)
(* TLS wanted.  TLS itself (esp-tls, external) has a number of rounds to   *)
(* do for a call, each of which needs the socket readable or writable; it  *)
(* says which, or, by the result 0 of a handshake, that it does not know.  *)
(* Reading and writing may go on at the same time.                         *)
(***************************************************************************)
EXTENDS Integers

CONSTANT Rounds   \* bound: the rounds of one call

ASSUME AsyncTlsAssumption == Rounds \in Nat \ {0}

Sides == {"reader", "writer"}

VARIABLES tlsAt,      \* "none", "adopted", "up", "failed" or "gone"
          ready,      \* what the socket is now: a subset of {"read", "write"}
          need,       \* what the present round of each call needs
          rounds,     \* the rounds each call has left
          tlsTask,       \* each call: "idle", "trying", "read" or "write" (awaited)
          closes,     \* how often the socket was closed
          sloppy      \* history: releasing the socket failed

tlsVars == <<tlsAt, ready, need, rounds, tlsTask, closes, sloppy>>
callVars == <<need, rounds, tlsTask>>

TlsInit ==
  /\ tlsAt = "none" /\ ready = {"write"}
  /\ need = [s \in Sides |-> "read"] /\ rounds = [s \in Sides |-> 0]
  /\ tlsTask = [s \in Sides |-> "idle"]
  /\ closes = 0 /\ sloppy = FALSE

\* The peer sends, or takes what was sent: the socket becomes ready.
SocketBecomes(way) ==
  /\ way \notin ready /\ ready' = ready \cup {way}
  /\ UNCHANGED <<tlsAt, callVars, closes, sloppy>>

\* adopt: a failure after esp_tls_init drops the socket, which closes itself, and
\* leaves the session behind.
Adopt ==
  /\ tlsAt = "none"
  /\ \/ tlsAt' = "adopted" /\ UNCHANGED closes
     \/ tlsAt' = "failed" /\ closes' = closes + 1
  /\ UNCHANGED <<ready, callVars, sloppy>>

\* negotiate (by either side), read or write is called.
CallTls(s, way) ==
  /\ tlsTask[s] = "idle" /\ \A t \in Sides : tlsAt # "up" => tlsTask[t] = "idle"
  /\ tlsAt \in {"adopted", "up"}
  /\ tlsTask' = [tlsTask EXCEPT ![s] = "trying"]
  /\ rounds' = [rounds EXCEPT ![s] = Rounds] /\ need' = [need EXCEPT ![s] = way]
  /\ UNCHANGED <<tlsAt, ready, closes, sloppy>>

\* A round is done; it takes what was in the socket.
GoOnTls(s, way) ==
  /\ tlsTask[s] = "trying" /\ need[s] \in ready
  /\ ready' = ready \ {need[s]}
  /\ need' = [need EXCEPT ![s] = way]
  /\ rounds' = [rounds EXCEPT ![s] = @ - 1]
  /\ IF rounds[s] = 1 THEN tlsTask' = [tlsTask EXCEPT ![s] = "idle"] /\ tlsAt' = "up"
                      ELSE UNCHANGED <<tlsTask, tlsAt>>
  /\ UNCHANGED <<closes, sloppy>>

\* Mutant: for the result 0 the socket is to become readable, as the comment says.
AwaitedReadable(want) == IF want = "write" THEN "write" ELSE "read"

\* wait(): what is polled for WANT_READ, for WANT_WRITE, and for the 0 of a
\* handshake, where it is a guess.
Awaited(want) == IF want = "read" THEN "read" ELSE "write"

\* TLS wants something: the call waits for it.
WaitTls(s, known) ==
  /\ tlsTask[s] = "trying" /\ need[s] \notin ready
  /\ known \/ tlsAt = "adopted"
  /\ tlsTask' = [tlsTask EXCEPT ![s] = Awaited(IF known THEN need[s] ELSE "unknown")]
  /\ UNCHANGED <<tlsAt, ready, need, rounds, closes, sloppy>>

\* The socket is what was polled for, and the call tries again.
PollWakes(s) ==
  /\ tlsTask[s] \in {"read", "write"} /\ tlsTask[s] \in ready
  /\ tlsTask' = [tlsTask EXCEPT ![s] = "trying"]
  /\ UNCHANGED <<tlsAt, ready, need, rounds, closes, sloppy>>

\* A call fails for another reason, or its future is dropped.
CallGivesUp(s) ==
  /\ tlsTask[s] # "idle"
  /\ tlsTask' = [tlsTask EXCEPT ![s] = "idle"]
  /\ UNCHANGED <<tlsAt, ready, need, rounds, closes, sloppy>>

\* Mutant: the socket is not released, and closes itself as well.
DropTlsUnreleased ==
  /\ tlsAt \in {"adopted", "up"} /\ \A s \in Sides : tlsTask[s] = "idle"
  /\ tlsAt' = "gone" /\ closes' = closes + 2 /\ UNCHANGED <<ready, callVars, sloppy>>

\* The drop of EspTls releases the socket, whose own drop does not close it then,
\* and destroys the session, which does.  An error of release is ignored.
DropTls ==
  /\ tlsAt \in {"adopted", "up"} /\ \A s \in Sides : tlsTask[s] = "idle"
  /\ tlsAt' = "gone"
  /\ \/ closes' = closes + 1 /\ UNCHANGED sloppy
     \/ closes' = closes + 2 /\ sloppy' = TRUE
  /\ UNCHANGED <<ready, callVars>>

TlsNext ==
  \/ Adopt \/ DropTls
  \/ \E way \in {"read", "write"} : SocketBecomes(way)
  \/ \E s \in Sides, way \in {"read", "write"} : CallTls(s, way) \/ GoOnTls(s, way)
  \/ \E s \in Sides, known \in BOOLEAN : WaitTls(s, known)
  \/ \E s \in Sides : PollWakes(s) \/ CallGivesUp(s)

-----------------------------------------------------------------------------
\* Whatever TLS wants in the rounds of a call, and however often it does not say,
\* a call is not left waiting for the wrong thing: while the peer sends and takes
\* data the handshake ends (what is written leaves the socket in any case).
HandshakeEnds == (tlsAt = "adopted" /\ tlsTask["reader"] # "idle") ~> (tlsTask["reader"] = "idle")

\* The adopted socket is closed exactly once, by the session or by itself.
SocketClosedOnce == ~sloppy => closes = IF tlsAt \in {"failed", "gone"} THEN 1 ELSE 0
=============================================================================
