---------------------------- MODULE ByteChannel -----------------------------
(***************************************************************************)
(* What one direction of a connection promises: bytes that were accepted   *)
(* come out in order, without gaps or repetitions, and all of them before  *)
(* the end of the stream is reported; unless the connection breaks they    *)
(* do come out.  StreamTransfer implements it in both directions.          *)
(***************************************************************************)
EXTENDS Sequences, Naturals

CONSTANT MaxBytes   \* bound: bytes handed over

VARIABLES
  sent,        \* what send() handed over
  received,    \* what was reported at the other end
  writing,     \* the sender has not closed
  ended        \* at the receiver: "no", "complete" or "broken"

channelVars == <<sent, received, writing, ended>>

IsPrefixOf(s, t) == Len(s) <= Len(t) /\ s = SubSeq(t, 1, Len(s))

Init ==
  /\ sent = <<>> /\ received = <<>>
  /\ writing = TRUE /\ ended = "no"

\* More bytes are accepted.
Put ==
  /\ writing
  /\ Len(sent') > Len(sent) /\ IsPrefixOf(sent, sent')
  /\ UNCHANGED <<received, writing, ended>>

StopWriting ==
  /\ writing /\ writing' = FALSE
  /\ UNCHANGED <<sent, received, ended>>

\* The next bytes are reported.
Get ==
  /\ ended = "no"
  /\ Len(received') > Len(received)
  /\ IsPrefixOf(received, received') /\ IsPrefixOf(received', sent)
  /\ UNCHANGED <<sent, writing, ended>>

\* The end of the stream: nothing is missing.
Complete ==
  /\ ended = "no" /\ ~writing /\ received = sent
  /\ ended' = "complete"
  /\ UNCHANGED <<sent, received, writing>>

\* The receiver gives up, or is told that the connection was reset.
Break ==
  /\ ended = "no"
  /\ ended' = "broken"
  /\ UNCHANGED <<sent, received, writing>>

Next == Put \/ StopWriting \/ Get \/ Complete \/ Break

\* Every byte that was accepted is reported, unless receiving ended before.
Delivers ==
  \A n \in 1..MaxBytes :
    Len(sent) >= n ~> (Len(received) >= n \/ ended # "no")

Safety == Init /\ [][Next]_channelVars
Spec == Safety /\ Delivers
=============================================================================
