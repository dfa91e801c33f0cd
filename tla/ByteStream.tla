----------------------------- MODULE ByteStream -----------------------------
(***************************************************************************)
(* What a TcpConnection promises about its output: the bytes it accepts    *)
(* are delivered to the socket in order, each once, and the stream is      *)
(* ended after the last of them; only a closed connection may end it       *)
(* early.                                                                  *)
(***************************************************************************)
EXTENDS Naturals, Sequences

VARIABLES accepted, delivered, ended, closed

Prefix(s, t) == Len(s) <= Len(t) /\ SubSeq(t, 1, Len(s)) = s

Init == accepted = <<>> /\ delivered = <<>> /\ ~ended /\ ~closed

\* Bytes are accepted, delivered, or both.
Write ==
    /\ Prefix(accepted, accepted')
    /\ Prefix(delivered, delivered')
    /\ Prefix(delivered', accepted')
    /\ ended => delivered' = delivered /\ (closed \/ accepted' = accepted)
    /\ UNCHANGED closed

End == ended' => ended \/ closed \/ delivered' = accepted'

Close == closed' /\ UNCHANGED <<accepted, delivered, ended>>

Next == (Write /\ End) \/ Close

Spec == Init /\ [][Next]_<<accepted, delivered, ended, closed>>
=============================================================================
