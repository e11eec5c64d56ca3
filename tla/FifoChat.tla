------------------------------ MODULE FifoChat ------------------------------
(***************************************************************************)
(* ipc-code/send.c and receive.c: a chat through a FIFO that both programs *)
(* open and close again for every message.                                 *)
(*                                                                         *)
(* The FIFO is the system's: open waits until the other end is open or     *)
(* being opened, a read takes all that fits in its buffer, 0 means that    *)
(* nobody has it open for writing, and what is left is dropped when nobody *)
(* has it open. A message is its number and its length, the zero at its    *)
(* end included; no message is longer than arr.                            *)
(***************************************************************************)
EXTENDS Integers, Sequences, SequencesExt, FiniteSetsExt

CONSTANTS MESSAGES,      \* bound: messages typed; the last one is "end"
          ARRSIZE,       \* sizeof(arr), 100 in the code
          MESSAGELENS,   \* bound: lengths of what is typed
          ENDSIZE        \* the length of "end"

VARIABLES chat,          \* what the FIFO holds: [m, len, whole], whole if the beginning is still there
          sender,        \* at, n: messages written; rushed: it found the receiver still there
          receiver       \* at, printed, arr: the text in arr, [m, whole, end]; m is 0 for an empty one
xvars == <<chat, sender, receiver>>

Empty == [m |-> 0, whole |-> TRUE, end |-> FALSE]
Init ==
  /\ chat = << >>
  /\ sender = [at |-> "calls", n |-> 0, rushed |-> FALSE]
  /\ receiver = [at |-> "calls", printed |-> << >>, arr |-> Empty]

\* "open": in the call of open, and waiting there for the other end.
SendOpen ==
  /\ sender.at = "calls"
  /\ sender' = [sender EXCEPT !.at = IF receiver.at \in {"calls", "gone"} THEN "open" ELSE "type",
                              !.rushed = @ \/ receiver.at \in {"read", "print", "close"}]
  /\ receiver' = [receiver EXCEPT !.at = IF @ = "open" THEN "read" ELSE @]
  /\ UNCHANGED chat
SendWrite ==
  /\ sender.at = "type"
  /\ IF receiver.at \in {"gone", "calls"}
     THEN sender' = [sender EXCEPT !.at = "SIGPIPE"] /\ UNCHANGED chat
     ELSE /\ \E len \in IF sender.n + 1 = MESSAGES THEN {ENDSIZE} ELSE MESSAGELENS :
               chat' = Append(chat, [m |-> sender.n + 1, len |-> len, whole |-> TRUE])
          /\ sender' = [sender EXCEPT !.n = @ + 1, !.at = "close"]
  /\ UNCHANGED receiver
SendClose ==
  /\ sender.at = "close"
  /\ sender' = [sender EXCEPT !.at = IF sender.n = MESSAGES THEN "gone" ELSE "calls"]
  /\ chat' = IF receiver.at \in {"gone", "calls"} THEN << >> ELSE chat
  /\ UNCHANGED receiver

ReceiveOpen ==
  /\ receiver.at = "calls"
  /\ receiver' = [receiver EXCEPT !.at = IF sender.at \in {"open", "type", "close"} THEN "read" ELSE "open"]
  /\ sender' = [sender EXCEPT !.at = IF @ = "open" THEN "type" ELSE @]
  /\ UNCHANGED chat

\* What is left in the FIFO when n bytes have been taken: the message that they
\* end in is left without its beginning.
Ahead(k) == SumFunctionOnSet([i \in 1 .. k |-> chat[i].len], 1 .. k)
Left(n) ==
  LET k == Max({i \in 0 .. Len(chat) : Ahead(i) <= n})
      rest == SubSeq(chat, k + 1, Len(chat))
  IN IF rest = << >> \/ Ahead(k) = n THEN rest
     ELSE [rest EXCEPT ![1].len = @ - (n - Ahead(k)), ![1].whole = FALSE]
\* arr ends where the first message ends: what was read behind it is not seen.
\* The rest of a message that lost its beginning may be any text, "end" too.
ReceiveRead ==
  /\ receiver.at = "read"
  /\ \/ /\ chat # << >>
        /\ chat' = Left(ARRSIZE)
        /\ \E end \in IF chat[1].whole THEN {chat[1].m = MESSAGES}
                      ELSE {FALSE, chat[1].m # MESSAGES} :
             receiver' = [receiver EXCEPT !.at = "print", !.arr = [m |-> chat[1].m, whole |-> chat[1].whole, end |-> end]]
     \/ /\ chat = << >> /\ sender.at \notin {"type", "close"}
        /\ receiver' = [receiver EXCEPT !.at = "print"] /\ UNCHANGED chat
  /\ UNCHANGED sender
\* For a mutant: arr is not wiped out after it was printed.
ReceivePrintKeeps ==
  /\ receiver.at = "print"
  /\ receiver' = IF receiver.arr.end THEN [receiver EXCEPT !.at = "gone"]
                 ELSE [receiver EXCEPT !.at = "close", !.printed = IF receiver.arr.m = 0 THEN @ ELSE Append(@, receiver.arr)]
  /\ UNCHANGED <<chat, sender>>
\* "end" is not printed and ends the program.
ReceivePrint ==
  /\ receiver.at = "print"
  /\ receiver' = IF receiver.arr.end THEN [receiver EXCEPT !.at = "gone"]
                 ELSE [receiver EXCEPT !.at = "close", !.arr = Empty,
                                       !.printed = IF receiver.arr.m = 0 THEN @ ELSE Append(@, receiver.arr)]
  /\ UNCHANGED <<chat, sender>>
ReceiveClose ==
  /\ receiver.at = "close"
  /\ receiver' = [receiver EXCEPT !.at = "calls"]
  /\ chat' = IF sender.at \in {"calls", "gone", "SIGPIPE"} THEN << >> ELSE chat
  /\ UNCHANGED sender

\* Both programs are over; or one is, and the other waits for it in open, for ever.
Gone == sender.at \in {"gone", "SIGPIPE"} /\ receiver.at = "gone"
Abandoned == \/ sender.at \in {"gone", "SIGPIPE"} /\ receiver.at = "open"
             \/ sender.at = "open" /\ receiver.at = "gone"
\* Only a sender that was too fast can bring that about.
Ended == Gone \/ (Abandoned /\ sender.rushed)
Done == (Gone \/ Abandoned) /\ UNCHANGED xvars
Next == \/ Done \/ SendOpen \/ SendWrite \/ SendClose
        \/ ReceiveOpen \/ ReceiveRead \/ ReceivePrint \/ ReceiveClose
-----------------------------------------------------------------------------
(* The receiver prints messages in the order they were written, none twice, *)
(* not even in two parts, and what follows a message in the same read never *)
(* runs into it; and it prints all of them, whole, and both programs end    *)
(* with "end", unless the sender opened the FIFO again before the receiver  *)
(* had closed it.                                                           *)
ChatInOrder ==
  /\ \A i, j \in DOMAIN receiver.printed : i < j => receiver.printed[i].m < receiver.printed[j].m
  /\ receiver.printed # << >> => receiver.printed[1].whole
  /\ ~sender.rushed =>
       /\ receiver.printed = [i \in 1 .. Len(receiver.printed) |-> [m |-> i, whole |-> TRUE, end |-> FALSE]]
       /\ sender.n - Len(receiver.printed) <= 1
       /\ Gone \/ Abandoned => sender.at = "gone" /\ receiver.at = "gone"
=============================================================================
