----------------------------- MODULE LossyFifo -----------------------------
(***************************************************************************)
(* What the server may expect of events it sends to one agent: each is     *)
(* received at most once, only if Send accepted it, and in the order in    *)
(* which Send accepted them; any of them may be lost.                      *)
(***************************************************************************)
EXTENDS Naturals, Sequences

CONSTANT Message

VARIABLES
  sent,      \* the messages accepted so far, in order
  received   \* the messages that arrived, in order

vars == <<sent, received>>

Elements(s) == { s[i] : i \in 1..Len(s) }

\* x stands before y in s.
Before(s, x, y) == \E i, j \in 1..Len(s) : i < j /\ s[i] = x /\ s[j] = y

Init == sent = <<>> /\ received = <<>>

Send(m) ==
  /\ m \notin Elements(sent)
  /\ sent' = Append(sent, m)
  /\ UNCHANGED received

Receive(m) ==
  /\ m \in Elements(sent) \ Elements(received)
  /\ \A n \in Elements(received) : Before(sent, n, m)
  /\ received' = Append(received, m)
  /\ UNCHANGED sent

Next == \E m \in Message : Send(m) \/ Receive(m)

Spec == Init /\ [][Next]_vars
=============================================================================
