------------------------------ MODULE LogQueue -------------------------------
(***************************************************************************)
(* What /dev/seeker_log promises: a first-in first-out queue of log        *)
(* records, each handed to the reader at most once, and never out of       *)
(* order.  Only unloading the scheduler drops records that were logged.    *)
(***************************************************************************)
EXTENDS Sequences

CONSTANT Records

VARIABLES pending,     \* logged and not yet read
          delivered    \* everything the reader was given

Init == pending = << >> /\ delivered = << >>

Log(r) ==
    /\ pending' = Append(pending, r)
    /\ UNCHANGED delivered

Deliver ==
    /\ pending # << >>
    /\ delivered' = Append(delivered, Head(pending))
    /\ pending' = Tail(pending)

Purge ==
    /\ pending' = << >>
    /\ UNCHANGED delivered

Next == Deliver \/ Purge \/ \E r \in Records : Log(r)

Spec == Init /\ [][Next]_<<pending, delivered>>
=============================================================================
