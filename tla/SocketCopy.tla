----------------------------- MODULE SocketCopy -----------------------------
(***************************************************************************)
(* ipc-code/socket-client-orig.c and socket-server-orig.c: the client      *)
(* sends the size of a file and then the lines it reads from its standard  *)
(* input, as datagrams; the server writes them to a file until it has that *)
(* many bytes or reads the line "end".                                     *)
(*                                                                         *)
(* Datagrams of this kind of socket are neither lost nor reordered; sendto *)
(* waits while the queue is full, and fails when nobody is bound. A line   *)
(* is its length; the line "end", with its newline, is as long as ENDLEN.  *)
(***************************************************************************)
EXTENDS Integers, Sequences, SequencesExt

CONSTANTS FileSizes, Lines,  \* Lines: bound, what may be typed; a line is [len, end]
          ENDLEN, QUEUE

VARIABLES client,        \* at, size, left: lines to send, sent
          server,        \* at, size, bytes, longest: the longest line in buffer, xyz: what was written
          dgrams         \* the queue of the socket
svars == <<client, server, dgrams>>

Init ==
  /\ \E size \in FileSizes, lines \in Lines : client = [at |-> "size", size |-> size, left |-> lines, typed |-> lines]
  /\ server = [at |-> "bind", size |-> 0, bytes |-> 0, longest |-> 0, xyz |-> << >>]
  /\ dgrams = << >>

Bound == server.at \notin {"bind", "gone"}
\* error() of the client when the first sendto fails; later failures are not looked at.
SendSize ==
  /\ client.at = "size"
  /\ IF Bound THEN client' = [client EXCEPT !.at = "lines"] /\ dgrams' = Append(dgrams, client.size)
     ELSE client' = [client EXCEPT !.at = "gone"] /\ UNCHANGED dgrams
  /\ UNCHANGED server
SendLine ==
  LET line == Head(client.left)
  IN /\ client.at = "lines" /\ client.left # << >> /\ (Bound => Len(dgrams) < QUEUE)
     /\ dgrams' = IF Bound THEN Append(dgrams, line) ELSE dgrams
     /\ client' = [client EXCEPT !.left = Tail(@), !.at = IF line.end THEN "gone" ELSE @]
     /\ UNCHANGED server
SendStops == client.at = "lines" /\ client.left = << >> /\ client' = [client EXCEPT !.at = "gone"] /\ UNCHANGED <<server, dgrams>>

Bind == server.at = "bind" /\ server' = [server EXCEPT !.at = "size"] /\ UNCHANGED <<client, dgrams>>
ReceiveSize ==
  /\ server.at = "size" /\ dgrams # << >>
  /\ server' = [server EXCEPT !.size = Head(dgrams), !.at = IF Head(dgrams) > 0 THEN "lines" ELSE "close"]
  /\ dgrams' = Tail(dgrams)
  /\ UNCHANGED client
\* For a mutant: one more datagram is read when the size has been reached.
EnoughAndMore(bytes) == bytes > server.size
Enough(bytes) == bytes >= server.size
\* strcmp looks at what was in buffer before, where no zero was put after the line.
IsEnd(line) == line.end /\ server.longest <= ENDLEN
ReceiveLine ==
  LET line == Head(dgrams)
      bytes == server.bytes + line.len
  IN /\ server.at = "lines" /\ dgrams # << >>
     /\ server' = [server EXCEPT !.bytes = bytes, !.xyz = Append(@, line),
                                 !.longest = IF line.len > @ THEN line.len ELSE @,
                                 !.at = IF IsEnd(line) \/ Enough(bytes) THEN "close" ELSE @]
     /\ dgrams' = Tail(dgrams)
     /\ UNCHANGED client
Unlink == server.at = "close" /\ server' = [server EXCEPT !.at = "gone"] /\ dgrams' = << >> /\ UNCHANGED client

Gone == client.at = "gone" /\ server.at = "gone"
\* The server is in recvfrom, and nobody is left who could send.
Waiting == client.at = "gone" /\ dgrams = << >> /\ server.at \in {"size", "lines"}

\* What may leave it there: the client gave up before the server was bound, or
\* what it sent is short of the size it told, without an "end" that was seen.
GaveUp == server.at = "size" /\ client.left = client.typed
SentTooLittle ==
  LET n == Len(server.xyz)
  IN /\ server.at = "lines"
     /\ server.xyz = SubSeq(client.typed, 1, n)
     /\ n = Len(client.typed) \/ client.typed[n].end
     /\ SumFunctionOnSet([i \in 1 .. n |-> client.typed[i].len], 1 .. n) < server.size
     /\ \A i \in 1 .. n : client.typed[i].end => \E j \in 1 .. i - 1 : client.typed[j].len > ENDLEN
Ended == Gone \/ (Waiting /\ (GaveUp \/ SentTooLittle))
Done == (Gone \/ Waiting) /\ UNCHANGED svars
Next == Done \/ SendSize \/ SendLine \/ SendStops \/ Bind \/ ReceiveSize \/ ReceiveLine \/ Unlink
-----------------------------------------------------------------------------
(* The server writes the lines that were typed, from the first, in order,   *)
(* and stops at the first that brings it to the size it was told, or at     *)
(* "end" if no longer line came before. It is left waiting only when the    *)
(* lines did not come to the size, and "end" was not typed or came after a  *)
(* longer line; or when it was not bound in time.                           *)
CopiesLines ==
  LET n == Len(server.xyz)
      Got(k) == SumFunctionOnSet([i \in 1 .. k |-> server.xyz[i].len], 1 .. k)
  IN /\ IsPrefix(server.xyz, client.typed)
     /\ \A k \in 1 .. n - 1 : Got(k) < server.size /\ (server.xyz[k].end => \E i \in 1 .. k - 1 : server.xyz[i].len > ENDLEN)
     /\ Waiting => GaveUp \/ SentTooLittle
     /\ server.at = "gone" /\ server.size > 0 => Got(n) >= server.size \/ server.xyz[n].end
=============================================================================
