--------------------------------- MODULE Ping ---------------------------------
(***************************************************************************)
(* ping.rs of the vendored esp-idf-svc: a call that starts a session of    *)
(* ESP-IDF, whose task (external) sends the packets and calls back, and    *)
(* that waits on a Waitable until the last callback.  The callbacks work   *)
(* on a Tracker on the caller's stack.                                     *)
(***************************************************************************)
EXTENDS Integers

CONSTANT Count   \* count: the packets of a session

ASSUME PingAssumption == Count \in Nat

VARIABLES pinger,     \* the caller: "out", "new", "armed", "looking", "asleep",
                      \* "ending" or "returned"
          pinging,    \* waitable.state
          pingSession, \* the session: "none", "made", "started", "ended" or "leaked"
          pings,      \* what the task has done: [sent, heard]
          summary     \* tracker.summary, [sent, heard]

pingVars == <<pinger, pinging, pingSession, pings, summary>>

Zeros == [sent |-> 0, heard |-> 0]

PingInit ==
  /\ pinger = "out" /\ pinging = FALSE /\ pingSession = "none"
  /\ pings = Zeros /\ summary = Zeros

\* ping and ping_details: a new Tracker, and esp_ping_new_session, which may fail.
NewSession ==
  /\ pinger = "out" /\ pingSession \in {"none", "ended"}
  /\ pinging' = FALSE /\ pings' = Zeros /\ summary' = Zeros
  /\ \/ pinger' = "new" /\ pingSession' = "made"
     \/ UNCHANGED <<pinger, pingSession>>

\* Mutant: the session is started without being marked as running.
ArmUnmarked ==
  /\ pinger = "new" /\ pinger' = "armed"
  /\ UNCHANGED <<pinging, pingSession, pings, summary>>

\* The session is marked as running before it is started.
Arm_ ==
  /\ pinger = "new" /\ pinger' = "armed" /\ pinging' = TRUE
  /\ UNCHANGED <<pingSession, pings, summary>>

\* esp_ping_start; its failure is an early return that leaves the session behind.
StartSession ==
  /\ pinger = "armed"
  /\ \/ pingSession' = "started" /\ pinger' = "looking"
     \/ pingSession' = "leaked" /\ pinger' = "out"
  /\ UNCHANGED <<pinging, pings, summary>>

\* wait_while: under the lock, look and go to sleep.
LookPing ==
  /\ pinger = "looking"
  /\ pinger' = IF pinging THEN "asleep" ELSE "ending"
  /\ UNCHANGED <<pinging, pingSession, pings, summary>>

\* on_ping_success and on_ping_timeout; update_summary asks for all numbers.
OnPing(answered) ==
  /\ pingSession = "started" /\ pings.sent < Count
  /\ pings' = [sent |-> pings.sent + 1, heard |-> pings.heard + (IF answered THEN 1 ELSE 0)]
  /\ summary' = pings'
  /\ UNCHANGED <<pinger, pinging, pingSession>>

\* Mutant: the end notifies nobody.
OnPingEndSilent ==
  /\ pingSession = "started" /\ pings.sent = Count
  /\ pingSession' = "ended" /\ summary' = pings
  /\ pinging' = FALSE
  /\ UNCHANGED <<pinger, pings>>

\* on_ping_end.
OnPingEnd ==
  /\ pingSession = "started" /\ pings.sent = Count
  /\ pingSession' = "ended" /\ summary' = pings
  /\ pinging' = FALSE
  /\ pinger' = IF pinger = "asleep" THEN "looking" ELSE pinger
  /\ UNCHANGED pings

\* esp_ping_stop and esp_ping_delete_session; Ok(tracker.summary).
EndSession ==
  /\ pinger = "ending" /\ pinger' = "returned"
  /\ UNCHANGED <<pinging, pingSession, pings, summary>>
Returned ==
  /\ pinger = "returned" /\ pinger' = "out"
  /\ UNCHANGED <<pinging, pingSession, pings, summary>>

PingNext ==
  \/ NewSession \/ Arm_ \/ StartSession \/ LookPing \/ OnPingEnd \/ EndSession \/ Returned
  \/ \E answered \in BOOLEAN : OnPing(answered)

-----------------------------------------------------------------------------
\* The call returns, however fast the session is over, ...
PingReturns == (pinger = "armed") ~> (pinger = "out")

\* ... and not before the last callback has run on the caller's stack and has
\* brought the summary up to date.
SummaryIsWhole == pinger \in {"ending", "returned"} => pingSession = "ended" /\ summary = pings
=============================================================================
