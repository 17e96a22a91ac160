---------------------------- MODULE RtspMessages ----------------------------
(***************************************************************************)
(* One connection to the RTSP server (rtsp.cpp): a request arrives in      *)
(* pieces of any size, is handled once all of it has, and the connection   *)
(* ends with the answer.  What ANNOUNCE does is in RtspServer.             *)
(*                                                                         *)
(* A request is a record of the sizes of its header, with the delimiter,   *)
(* and of what follows, the length that it declares (0 when it does not),  *)
(* its command, its target, and whether it can be parsed.                  *)
(***************************************************************************)
EXTENDS Integers

CONSTANTS Requests,    \* the requests clients send
          BufferSize,  \* msg_buf.size()
          Needle       \* the size of the delimiter

VARIABLES request,
          left,        \* bytes that have not arrived
          pc,          \* "read" or "payload" (the handler that waits), "handled", "closed"
          begin,       \* socket_t::begin
          crlf,        \* socket_t::crlf
          answer,      \* the status of the answer, 0 before
          split        \* history: the delimiter came in two pieces

vars == <<request, left, pc, begin, crlf, answer, split>>

TypeOK ==
    /\ request \in Requests /\ left \in Nat /\ split \in BOOLEAN
    /\ pc \in {"read", "payload", "handled", "closed"}
    /\ begin \in 0 .. BufferSize /\ crlf \in 0 .. BufferSize
    /\ answer \in {0, 200, 400, 404, 500, 503}

\* handle_accept() makes a socket_t and calls read().
Init ==
    /\ request \in Requests /\ left = request.header + request.payload
    /\ pc = "read" /\ begin = 0 /\ crlf = 0 /\ answer = 0 /\ split = FALSE

-----------------------------------------------------------------------------
(* The conditions and updates a bug would get wrong.                       *)

\* handle_read() looks for the delimiter in what has just arrived, up to end.
Found(end) == begin <= request.header - Needle /\ request.header <= end

AfterDelimiter == request.header

IsComplete(end, from) == end - from >= request.length

-----------------------------------------------------------------------------
\* read_some() gives what has arrived and fits; n bytes end at begin + n.
Arrives(n) == n \in 1 .. left /\ begin + n <= BufferSize /\ left' = left - n

\* read() and read_payload(): a full buffer ends the connection.
ReadOn(end, handler) ==
    /\ begin' = end
    /\ IF end = BufferSize THEN pc' = "closed" /\ answer' = 400
                           ELSE pc' = handler /\ UNCHANGED answer

\* What ANNOUNCE answers depends on the launch, its parameters, the slots and start().
Answers ==
    CASE request.command \in {"OPTIONS", "DESCRIBE", "PLAY"} -> {200}
      [] request.command = "SETUP" ->
             IF request.target \in {"audio", "video", "control"} THEN {200} ELSE {404}
      [] request.command = "ANNOUNCE" -> {200, 400, 500, 503}
      [] OTHER -> {404}

HandleMsg == pc' = "handled" /\ answer' \in Answers

HandlePayload(end, from) ==
    \/ ~request.parsed /\ pc' = "closed" /\ answer' = 400 /\ UNCHANGED begin
    \/ request.parsed /\ IsComplete(end, from) /\ HandleMsg /\ begin' = end
    \/ request.parsed /\ ~IsComplete(end, from) /\ ReadOn(end, "payload")

HandleRead(n) ==
    /\ pc = "read" /\ Arrives(n)
    /\ \/ /\ Found(begin + n)
          /\ crlf' = AfterDelimiter
          /\ HandlePayload(begin + n, AfterDelimiter)
          /\ UNCHANGED split
       \/ /\ ~Found(begin + n)
          /\ split' = (split \/ begin + n \in (request.header - Needle + 1) .. (request.header - 1))
          /\ ReadOn(begin + n, "read")
          /\ UNCHANGED crlf
    /\ UNCHANGED request

MorePayload(n) ==
    /\ pc = "payload" /\ Arrives(n) /\ HandlePayload(begin + n, crlf)
    /\ UNCHANGED <<request, crlf, split>>

\* The client closes the connection, or it breaks.
ReadFails ==
    /\ pc \in {"read", "payload"} /\ pc' = "closed"
    /\ UNCHANGED <<request, left, begin, crlf, answer, split>>

Next == ReadFails \/ \E n \in 1 .. BufferSize : HandleRead(n) \/ MorePayload(n)

Spec == Init /\ [][Next]_vars

-----------------------------------------------------------------------------
Arrived == request.header + request.payload - left

\* rtsp.cpp:50-200: however a request is cut into pieces, it is handled only when all that
\* it declares is there; it is refused only if it cannot be parsed or is larger than the
\* buffer, and a client that has sent all of it does not wait for ever. That
\* holds unless the delimiter came in two pieces: the search does not go back (line 173).
RequestsAreHandledWhole ==
    /\ pc = "handled" => Arrived >= request.header + request.length
    /\ pc = "closed" /\ answer = 400 =>
           split \/ ~request.parsed \/ request.header + request.length > BufferSize
    /\ pc \in {"read", "payload"} /\ left = 0 => split \/ request.payload < request.length

-----------------------------------------------------------------------------
(* The inductive invariant that the proofs of the properties use.         *)

\* begin is how much has arrived; until the delimiter is found, the search may begin
\* before it, unless that came in two pieces; then the payload is counted from its end.
PiecesAreCounted ==
    /\ pc \in {"read", "payload"} => begin = Arrived /\ answer = 0
    /\ pc = "read" => split \/ begin <= request.header - Needle
    /\ pc = "payload" => crlf = request.header /\ crlf <= begin /\ begin - crlf < request.length
    /\ pc = "handled" => Arrived >= request.header + request.length

IInv == TypeOK /\ PiecesAreCounted /\ RequestsAreHandledWhole
=============================================================================
