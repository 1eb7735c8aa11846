---------------------------- MODULE GripperLink ----------------------------
(***************************************************************************)
(* One caller's requests to the gripper server over TCP                    *)
(* (gripper/gripper_client.py, gripper/gripper_server.py).  The client     *)
(* sends a line and waits for a line; when that fails it opens another     *)
(* connection and asks once more.  The server has a thread per connection: *)
(* what is left on one the client has given up is executed or lost, out of *)
(* the client's sight, and not modelled.                                   *)
(***************************************************************************)
EXTENDS Naturals, Sequences

CONSTANTS
  SocketTimeout,  \* timeout of the client's socket, in ticks
  Requests        \* bound: requests told apart

ASSUME LinkAssumption ==
  SocketTimeout \in Nat \ {0} /\ Requests \in Nat /\ Requests > 1

VARIABLES
  asked,      \* the request of the call in progress, or of the last one
  attempt,    \* 0: no call in progress; 1, 2: _request's attempt
  patience,   \* how long the client has waited in this attempt
  connected,  \* can the client's socket be written to
  inbox,      \* requests on the client's connection the server has not handled
  outbox      \* replies on the client's connection the client has not read

linkVars == <<asked, attempt, patience, connected, inbox, outbox>>

Numbers == 1 .. Requests

LinkInit ==
  /\ asked = 1 /\ attempt = 0 /\ patience = 0 /\ connected = TRUE
  /\ inbox = <<>> /\ outbox = <<>>

Calling == attempt > 0

\* A call starts.  Writing to a socket that was closed fails at once.
Ask ==
  /\ ~Calling
  /\ asked' \in Numbers \ {asked} /\ attempt' = 1
  /\ patience' = IF connected THEN 0 ELSE SocketTimeout
  /\ inbox' = IF connected THEN Append(inbox, asked') ELSE inbox
  /\ UNCHANGED <<connected, outbox>>

\* The attempt fails: no reply in time, or the connection is lost.
Failing == Calling /\ (patience = SocketTimeout \/ connected)

\* Seeded fault: the second attempt uses the connection of the first.
RetryInPlace ==
  /\ Failing /\ attempt = 1
  /\ attempt' = 2 /\ patience' = 0 /\ inbox' = Append(inbox, asked)
  /\ UNCHANGED <<asked, connected, outbox>>

\* The first attempt failed and the server could be reached again: ask once more.
Retry ==
  /\ Failing /\ attempt = 1
  /\ connected' = TRUE /\ attempt' = 2 /\ patience' = 0
  /\ inbox' = <<asked>> /\ outbox' = <<>>
  /\ UNCHANGED asked

\* The call raises: at the second failure, whose connection is replaced for the next call,
\* or when the server cannot be reached, and then the closed socket is left behind.
Raise ==
  /\ Failing
  /\ connected' \in IF attempt = 2 THEN BOOLEAN ELSE {FALSE}
  /\ attempt' = 0 /\ patience' = 0 /\ inbox' = <<>> /\ outbox' = <<>>
  /\ UNCHANGED asked

\* The client reads a reply.
Answer ==
  /\ Calling /\ outbox # <<>>
  /\ outbox' = Tail(outbox) /\ attempt' = 0 /\ patience' = 0
  /\ UNCHANGED <<asked, connected, inbox>>

\* A thread of the server executes a request.
Handle ==
  /\ inbox # <<>>
  /\ outbox' = Append(outbox, Head(inbox)) /\ inbox' = Tail(inbox)
  /\ UNCHANGED <<asked, attempt, patience, connected>>

\* The client waits.
Wait ==
  /\ patience' = IF Calling THEN patience + 1 ELSE patience
  /\ Calling => patience < SocketTimeout
  /\ UNCHANGED <<asked, attempt, connected, inbox, outbox>>

LinkTypeOK ==
  /\ asked \in Numbers /\ attempt \in 0 .. 2 /\ patience \in 0 .. SocketTimeout
  /\ connected \in BOOLEAN /\ inbox \in Seq(Numbers) /\ outbox \in Seq(Numbers)

\* A reply the client can read answers the call in progress, not an earlier one that was
\* given up: replies carry no number, only the connection tells them apart.
ReplyIsOwn == Calling /\ outbox # <<>> => Head(outbox) = asked

=============================================================================
