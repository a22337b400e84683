----------------------------- MODULE LossyFifo -----------------------------
(***************************************************************************)
(* What the Wi-Fi to USB path promises: a queue of frames that may lose    *)
(* any frame but neither reorders nor repeats one, and that never keeps a  *)
(* frame for ever.  Frames are known by their number in order of reception *)
(* by the driver.                                                          *)
(***************************************************************************)
EXTENDS Naturals, Sequences

VARIABLES
    queue,      \* accepted and still neither sent nor discarded
    sent        \* sent to the host, in order

fifoVars == <<queue, sent>>

FifoInit == queue = <<>> /\ sent = <<>>

\* Frames are accepted in order of reception; not every one is.
Accept(id) ==
    /\ \A k \in DOMAIN queue : queue[k] < id
    /\ \A k \in DOMAIN sent : sent[k] < id
    /\ queue' = Append(queue, id)
    /\ UNCHANGED sent

Deliver ==
    /\ queue # <<>>
    /\ sent' = Append(sent, Head(queue))
    /\ queue' = Tail(queue)

Discard ==
    /\ queue # <<>>
    /\ queue' = Tail(queue)
    /\ UNCHANGED sent

\* An accepted frame is the last of the queue, so \E id names no new values.
FifoNext ==
    \/ \E id \in {queue'[k] : k \in DOMAIN queue'} : Accept(id)
    \/ Deliver
    \/ Discard

\* What may become of a frame ...
FifoSafety == FifoInit /\ [][FifoNext]_fifoVars

\* ... and that something does: as long as one is queued, the first leaves.
FifoMoves == WF_fifoVars(Deliver \/ Discard)

FifoSpec == FifoSafety /\ FifoMoves
=============================================================================
