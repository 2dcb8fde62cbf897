----------------------------- MODULE MsgChannel -----------------------------
(***************************************************************************)
(* What two connected KCP endpoints promise their users, without any wire: *)
(* a pair of reliable, ordered channels of messages, one per direction.    *)
(*                                                                         *)
(* A message is cut into fragments, numbered down to 0, when it is sent    *)
(* (KCP.Send) and is handed to the reader as a whole (KCP.Recv).  sent[p]  *)
(* is the history of the fragments p's user has written, rcvd[p] that of   *)
(* the fragments p's user has read.                                        *)
(***************************************************************************)
EXTENDS Naturals, Sequences

CONSTANTS Peers,        \* the two ends of the connection
          Other(_),     \* the opposite end
          FragCounts    \* numbers of fragments a message may be cut into

VARIABLES sent, rcvd

vars == <<sent, rcvd>>

(***************************************************************************)
(* The c fragments of the message that starts at position m of the stream: *)
(* frg counts down to 0.                                                   *)
(***************************************************************************)
Message(m, c) == [i \in 1..c |-> [msg |-> m, frg |-> c - i]]

(***************************************************************************)
(* s[i+1..j] is one whole message: its last fragment, and no other, has    *)
(* frg = 0.                                                                *)
(***************************************************************************)
IsMessage(s, i, j) ==
    /\ s[j].frg = 0
    /\ \A x \in (i + 1)..(j - 1) : s[x].frg # 0

Init == /\ sent = [p \in Peers |-> <<>>]
        /\ rcvd = [p \in Peers |-> <<>>]

(***************************************************************************)
(* p's user writes a message of c fragments.                               *)
(***************************************************************************)
Send(p) ==
    /\ \E c \in FragCounts :
          sent' = [sent EXCEPT ![p] = @ \o Message(Len(@) + 1, c)]
    /\ UNCHANGED rcvd

(***************************************************************************)
(* p's user reads exactly the next message the opposite user wrote.        *)
(***************************************************************************)
Recv(p) ==
    LET s == sent[Other(p)]
        i == Len(rcvd[p])
    IN  /\ \E j \in (i + 1)..Len(s) :
              /\ IsMessage(s, i, j)
              /\ rcvd' = [rcvd EXCEPT ![p] = SubSeq(s, 1, j)]
        /\ UNCHANGED sent

Next == \E p \in Peers : Send(p) \/ Recv(p)

Spec == Init /\ [][Next]_vars

=============================================================================
