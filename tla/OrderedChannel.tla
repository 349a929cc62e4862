-------------------------- MODULE OrderedChannel ---------------------------
(***************************************************************************)
(* What a GoodTP session promises the receiving application, as stated at  *)
(* src/src/session/goodtp_session.cpp:1399: packets are received in        *)
(* sequence order.  Frames carry increasing numbers in the order in which  *)
(* the peer sends them.  The channel may lose frames; it never invents,    *)
(* repeats or reorders one until it is restarted (ResetSession).           *)
(***************************************************************************)
EXTENDS Integers, Sequences

VARIABLES sent,   \* the frames sent so far
          app,    \* the frames given to the application since the restart
          epoch   \* number of restarts

Increasing(s) == \A i, j \in 1 .. Len(s) : i < j => s[i] < s[j]
FromPeer(s) == \A i \in 1 .. Len(s) : s[i] \in sent

Init == sent = {} /\ app = <<>> /\ epoch = 0

\* A new frame has a number of its own, larger than the others.
Send == /\ sent \subseteq sent'
        /\ \A n \in sent' \ sent, m \in sent : m < n
        /\ UNCHANGED <<app, epoch>>

\* One call into the stack may hand over any number of frames.
Deliver(s) == /\ FromPeer(s)
              /\ app' = app \o s
              /\ Increasing(app')
              /\ UNCHANGED <<sent, epoch>>

\* After a restart the application may see old frames once more.
Restart(s) == /\ FromPeer(s)
              /\ Increasing(s)
              /\ app' = s
              /\ epoch' = epoch + 1
              /\ UNCHANGED sent

Suffix == SubSeq(app', Len(app) + 1, Len(app'))

Next ==
    \/ Send
    \/ Len(app') >= Len(app) /\ Deliver(Suffix)
    \/ Restart(app')

Spec == Init /\ [][Next]_<<sent, app, epoch>>
=============================================================================
