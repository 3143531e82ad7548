------------------------------- MODULE LiveFeed -------------------------------
(***************************************************************************)
(* The live market feed: the session that keeps one socket subscribed over *)
(* as many connections as that takes, the reader of a connection, and the  *)
(* conflating buffer between the reader and the event bus.                 *)
(*                                                                         *)
(* A stream is one channel of one symbol (its trades, or its marks).  A    *)
(* row is a number that grows with every row read of its stream.  Frames   *)
(* that carry no readable row change nothing and are left out.             *)
(*                                                                         *)
(* An operator that stands before the one it is named after is a plausible *)
(* bug in it, for the sensitivity runs of PROJECT.json; no specification   *)
(* uses it.                                                                *)
(***************************************************************************)
EXTENDS Integers, Sequences

CONSTANT Streams

VARIABLES
    session,   \* idle, opened (by start, not yet run), reading, backoff,
               \* connecting, ended
    stopping,  \* stop() was called
    socket,    \* the connection the session holds is open
    reader,    \* the reader of the connection: reading, ended
    pending,   \* the buffer: the streams with an unpublished row, in order
    wake,      \* the buffer's event
    closed,    \* the reader has closed the buffer
    drain,     \* the publishing half: ready, publishing, waiting, returned
    offered,   \* the newest row read of each stream
    delivered  \* history: the newest row of each stream a subscriber heard

link == <<session, stopping, socket>>
buffer == <<reader, pending, wake, closed, drain>>
feedVars == <<link, buffer, offered, delivered>>

FeedInit ==
    /\ session = "idle" /\ stopping = FALSE /\ socket = FALSE
    /\ reader = "ended" /\ pending = <<>> /\ wake = FALSE /\ closed = TRUE
    /\ drain = "returned"
    /\ offered = [s \in Streams |-> 0] /\ delivered = [s \in Streams |-> 0]

-------------------------------------------------------------------------------
(* The session                                                             *)

\* The first socket is the boot's: it is connected and subscribed, or start raises.
Open ==
    /\ session = "idle"
    /\ session' = "opened" /\ socket' = TRUE
    /\ UNCHANGED <<stopping, buffer, offered, delivered>>

\* A connection is read into a buffer of its own.
Consume ==
    /\ session' = "reading"
    /\ reader' = "reading" /\ pending' = <<>> /\ wake' = FALSE /\ closed' = FALSE
    /\ drain' = "ready"
    /\ UNCHANGED <<stopping, offered, delivered>>

ConsumeOpened == session = "opened" /\ ~stopping /\ Consume /\ UNCHANGED socket

\* A start the stop overtook: run() has nothing left to do.
Overtaken ==
    /\ session = "opened" /\ stopping
    /\ session' = "ended"
    /\ UNCHANGED <<stopping, socket, buffer, offered, delivered>>

Unless(going) == IF stopping THEN "ended" ELSE going

\* Both halves of the connection have ended.
ConsumeEnds ==
    /\ session = "reading" /\ reader = "ended" /\ drain = "returned"
    /\ session' = Unless("backoff")
    /\ UNCHANGED <<stopping, socket, buffer, offered, delivered>>

BackoffEnds ==
    /\ session = "backoff"
    /\ session' = Unless("connecting")
    /\ UNCHANGED <<stopping, socket, buffer, offered, delivered>>

Reconnect == session = "connecting" /\ Consume /\ socket' = TRUE

ReconnectRefused ==
    /\ session = "connecting"
    /\ session' = "backoff"
    /\ UNCHANGED <<stopping, socket, buffer, offered, delivered>>

\* stop() is a request: it closes the socket the reader is blocked on.
Release ==
    /\ stopping' = TRUE /\ socket' = FALSE
    /\ UNCHANGED <<session, buffer, offered, delivered>>

\* The cancel that ends run(), wherever it is.
Cut ==
    /\ session' = IF session = "idle" THEN "idle" ELSE "ended"
    /\ reader' = "ended" /\ closed' = TRUE /\ drain' = "returned"
    /\ UNCHANGED <<stopping, socket, pending, wake, offered, delivered>>

-------------------------------------------------------------------------------
(* The reader and the buffer                                               *)

\* Keep the latest: a row supersedes an unpublished one of its stream, and goes
\* behind what is pending.
Fold(s) == Append(SelectSeq(pending, LAMBDA x : x # s), s)

Offer(s) ==
    /\ reader = "reading" /\ socket
    /\ offered' = [offered EXCEPT ![s] = @ + 1]
    /\ pending' = Fold(s) /\ wake' = TRUE
    /\ UNCHANGED <<link, reader, closed, drain, delivered>>

HangUp == socket /\ socket' = FALSE /\ UNCHANGED <<session, stopping, buffer, offered, delivered>>

WokenByCloseNot == wake
WokenByClose == TRUE

\* The frames have ended: the reader closes the buffer.
ReaderEnds ==
    /\ reader = "reading" /\ ~socket
    /\ reader' = "ended" /\ closed' = TRUE /\ wake' = WokenByClose
    /\ UNCHANGED <<link, pending, drain, offered, delivered>>

\* The oldest pending stream's row is taken; the caller publishes it.
Take ==
    /\ drain = "ready" /\ pending # <<>>
    /\ drain' = "publishing" /\ pending' = Tail(pending)
    /\ UNCHANGED <<link, reader, wake, closed, offered, delivered>>

Taken == <<Head(pending), offered[Head(pending)]>>

PublishEnds == drain' = "ready" /\ UNCHANGED <<link, reader, pending, wake, closed, offered>>

\* With nothing pending the loop returns if the buffer is closed, and clears its
\* event and waits otherwise, in one turn.
Rest ==
    /\ drain = "ready" /\ pending = <<>>
    /\ IF closed THEN drain' = "returned" /\ UNCHANGED wake
                 ELSE drain' = "waiting" /\ wake' = FALSE
    /\ UNCHANGED <<link, reader, pending, closed, offered, delivered>>

Wake ==
    /\ drain = "waiting" /\ wake
    /\ drain' = "ready"
    /\ UNCHANGED <<link, reader, pending, wake, closed, offered, delivered>>

\* Everything read is delivered and more can come.
KeptUp == session = "reading" /\ socket /\ delivered = offered
===============================================================================
