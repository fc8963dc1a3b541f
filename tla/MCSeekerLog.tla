----------------------------- MODULE MCSeekerLog -----------------------------
(* Instances of SeekerLog for TLC.                                         *)
EXTENDS SeekerLog, TLC

CONSTANTS w1, w2, r1, r2, a, b

OneWriter == {w1}
TwoWriters == {w1, w2}
OneReader == {r1}
TwoReaders == {r1, r2}
MCRecords == {a, b}
OneRecord == {a}
=============================================================================
