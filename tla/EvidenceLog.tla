---------------------------- MODULE EvidenceLog ----------------------------
(***************************************************************************)
(* What the asynchronous evidence pipeline promises its callers, without   *)
(* channels, goroutines or shutdown: records are accepted one at a time,   *)
(* no record is accepted twice, and storage is offered the accepted        *)
(* records in the order of acceptance, each exactly once.                  *)
(* EvidenceRecorder is shown to implement this specification.              *)
(***************************************************************************)
EXTENDS Naturals, Sequences

CONSTANT Records

VARIABLES
    accepted,   \* records whose RecordResponse returned nil, oldest first
    attempted   \* records handed to storage.Store, oldest first

logVars == <<accepted, attempted>>

LogInit ==
    /\ accepted = <<>>
    /\ attempted = <<>>

Accept(r) ==
    /\ \A i \in 1..Len(accepted) : accepted[i] # r
    /\ accepted' = Append(accepted, r)
    /\ UNCHANGED attempted

Attempt ==
    /\ Len(attempted) < Len(accepted)
    /\ attempted' = Append(attempted, accepted[Len(attempted) + 1])
    /\ UNCHANGED accepted

LogNext ==
    \/ \E r \in Records : Accept(r)
    \/ Attempt

LogSpec == LogInit /\ [][LogNext]_logVars
=============================================================================
