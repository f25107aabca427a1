-------------------------- MODULE EvidenceRecorder --------------------------
(***************************************************************************)
(* The asynchronous evidence recorder, pkg/evidence/recorder/recorder.go.  *)
(*                                                                         *)
(* HTTP request goroutines ("calls") create an evidence record when the    *)
(* policy decision is known (RecordRequest) and complete it when the       *)
(* provider has answered (RecordResponse).  In between, the record waits   *)
(* in the pendingRecords map under its request ID.  RecordResponse sends   *)
(* the completed record on a bounded channel; one worker goroutine takes   *)
(* records off the channel and writes them to storage.  Close signals the  *)
(* worker through the done channel and waits for it.                       *)
(*                                                                         *)
(* A record carries a fresh UUID, so the record created by call c is       *)
(* named c here.  Request IDs are the client's X-Request-ID header when    *)
(* there is one, so two calls may share an ID.                             *)
(***************************************************************************)
EXTENDS Naturals, Sequences

CONSTANTS
    Calls,        \* proxied requests; a call also names the record it creates
    RequestIDs,   \* values of enrichedReq.RequestID
    BufferSize,   \* config.AsyncBuffer
    NoRecord      \* absence of a record

ASSUME RecorderAssumption ==
    /\ NoRecord \notin Calls
    /\ BufferSize \in Nat \ {0}   \* ApplyDefaults replaces 0

VARIABLES
    pending,      \* pendingRecords: request ID -> waiting record
    reqId,        \* the request ID each call uses
    call,         \* where each call's goroutine is
    held,         \* the record RecordResponse of a call holds after LoadAndDelete
    recordChan,   \* the buffered channel
    done,         \* the done channel has been closed
    worker,       \* where the worker goroutine is
    hand,         \* the record the worker is writing
    closer,       \* where the goroutine that calls Close is
    fate,         \* how a record that left the recorder ended
    accepted,     \* history: records sent on the channel, in order
    attempted,    \* history: records passed to storage.Store, in order
    atClose       \* history: Len(accepted) when Close closed the done channel

vars == <<pending, reqId, call, held, recordChan, done, worker, hand, closer,
          fate, accepted, attempted, atClose>>

CallStates   == {"new", "waiting", "sending", "ok", "error", "panicked"}
WorkerStates == {"select", "write", "drain", "drainWrite", "exited"}
CloserStates == {"idle", "waiting", "returned"}
Fates == {"live", "stored", "storeFailed", "dropped", "overwritten", "panicked"}

(* Channel, maps, goroutines and histories keep their types; the channel keeps its capacity. *)
TypeOK ==
    /\ pending \in [RequestIDs -> Calls \cup {NoRecord}]
    /\ reqId \in [Calls -> RequestIDs]
    /\ call \in [Calls -> CallStates]
    /\ held \in [Calls -> Calls \cup {NoRecord}]
    /\ recordChan \in Seq(Calls)
    /\ Len(recordChan) <= BufferSize
    /\ done \in BOOLEAN
    /\ worker \in WorkerStates
    /\ hand \in Calls \cup {NoRecord}
    /\ closer \in CloserStates
    /\ fate \in [Calls -> Fates]
    /\ accepted \in Seq(Calls)
    /\ attempted \in Seq(Calls)
    /\ atClose \in Nat

(* NewRecorder: the worker is started before the recorder is returned.     *)
(* reqId is arbitrary: it is fixed by the client or generated upstream.    *)
Init ==
    /\ pending = [q \in RequestIDs |-> NoRecord]
    /\ reqId \in [Calls -> RequestIDs]
    /\ call = [c \in Calls |-> "new"]
    /\ held = [c \in Calls |-> NoRecord]
    /\ recordChan = <<>>
    /\ done = FALSE
    /\ worker = "select"
    /\ hand = NoRecord
    /\ closer = "idle"
    /\ fate = [c \in Calls |-> "live"]
    /\ accepted = <<>>
    /\ attempted = <<>>
    /\ atClose = 0

-----------------------------------------------------------------------------
(* Variants of the steps below, each with a fault the code could have had; *)
(* every property of this module is refuted by one of them.                *)

(* pendingRecords.Load instead of LoadAndDelete *)
TakePendingLoadOnly(c) ==
    /\ call[c] = "waiting"
    /\ pending[reqId[c]] # NoRecord
    /\ call' = [call EXCEPT ![c] = "sending"]
    /\ held' = [held EXCEPT ![c] = pending[reqId[c]]]
    /\ UNCHANGED <<pending, reqId, recordChan, done, worker, hand, closer, fate,
                   accepted, attempted, atClose>>

(* a failed write puts the record back on the channel *)
WriteRecordRequeue(at, next) ==
    /\ worker = at
    /\ \/ /\ fate' = [fate EXCEPT ![hand] = "stored"]
          /\ UNCHANGED recordChan
       \/ /\ recordChan' = Append(recordChan, hand)
          /\ UNCHANGED fate
    /\ attempted' = Append(attempted, hand)
    /\ hand' = NoRecord
    /\ worker' = next
    /\ UNCHANGED <<pending, reqId, call, held, done, closer, accepted, atClose>>

(* a failed write ends the worker *)
WriteRecordStops(at, next) ==
    /\ worker = at
    /\ \E result \in {"stored", "storeFailed"} :
          /\ fate' = [fate EXCEPT ![hand] = result]
          /\ worker' = IF result = "stored" THEN next ELSE "exited"
    /\ attempted' = Append(attempted, hand)
    /\ hand' = NoRecord
    /\ UNCHANGED <<pending, reqId, call, held, recordChan, done, closer,
                   accepted, atClose>>

(* the worker returns on done without the drain loop *)
SeeDoneNoDrain ==
    /\ worker = "select"
    /\ done
    /\ worker' = "exited"
    /\ UNCHANGED <<pending, reqId, call, held, recordChan, done, hand, closer,
                   fate, accepted, attempted, atClose>>

(* the drain loop ranges over the channel, which nobody closes *)
ExitNever == FALSE /\ UNCHANGED vars

-----------------------------------------------------------------------------
(* Callers *)

(* RecordRequest: the new record replaces whatever was pending under the   *)
(* same ID; a replaced record is unreachable from then on.                 *)
RecordRequest(c) ==
    LET q == reqId[c] IN
    /\ call[c] = "new"
    /\ call' = [call EXCEPT ![c] = "waiting"]
    /\ pending' = [pending EXCEPT ![q] = c]
    /\ fate' = [d \in Calls |-> IF d = pending[q] THEN "overwritten" ELSE fate[d]]
    /\ UNCHANGED <<reqId, held, recordChan, done, worker, hand, closer,
                   accepted, attempted, atClose>>

(* RecordResponse up to the select: LoadAndDelete, then the record is      *)
(* completed in the caller's goroutine.  No pending record: return nil.    *)
TakePending(c) ==
    LET q == reqId[c] IN
    /\ call[c] = "waiting"
    /\ IF pending[q] = NoRecord
       THEN /\ call' = [call EXCEPT ![c] = "ok"]
            /\ UNCHANGED <<pending, held>>
       ELSE /\ call' = [call EXCEPT ![c] = "sending"]
            /\ held' = [held EXCEPT ![c] = pending[q]]
            /\ pending' = [pending EXCEPT ![q] = NoRecord]
    /\ UNCHANGED <<reqId, recordChan, done, worker, hand, closer, fate,
                   accepted, attempted, atClose>>

(* updateEvidenceWithResponse reads enrichedResp.OriginalResponse.Model    *)
(* without the nil check its neighbours have: when the provider gave no    *)
(* response the caller panics, and the record it took is gone.             *)
TakePendingNilResponse(c) ==
    LET q == reqId[c] IN
    /\ call[c] = "waiting"
    /\ pending[q] # NoRecord
    /\ call' = [call EXCEPT ![c] = "panicked"]
    /\ fate' = [fate EXCEPT ![pending[q]] = "panicked"]
    /\ pending' = [pending EXCEPT ![q] = NoRecord]
    /\ UNCHANGED <<reqId, held, recordChan, done, worker, hand, closer,
                   accepted, attempted, atClose>>

(* RecordResponse, case r.recordChan <- record. *)
Send(c) ==
    /\ call[c] = "sending"
    /\ Len(recordChan) < BufferSize
    /\ recordChan' = Append(recordChan, held[c])
    /\ accepted' = Append(accepted, held[c])
    /\ held' = [held EXCEPT ![c] = NoRecord]
    /\ call' = [call EXCEPT ![c] = "ok"]
    /\ UNCHANGED <<pending, reqId, done, worker, hand, closer, fate,
                   attempted, atClose>>

(* RecordResponse, case <-time.After(WriteTimeout): the timer is created   *)
(* on entry to the select, so it only wins against a channel that is full. *)
(* And case <-r.done, which may win against a ready send.                  *)
Drop(c) ==
    /\ call[c] = "sending"
    /\ Len(recordChan) = BufferSize \/ done
    /\ fate' = [fate EXCEPT ![held[c]] = "dropped"]
    /\ held' = [held EXCEPT ![c] = NoRecord]
    /\ call' = [call EXCEPT ![c] = "error"]
    /\ UNCHANGED <<pending, reqId, recordChan, done, worker, hand, closer,
                   accepted, attempted, atClose>>

-----------------------------------------------------------------------------
(* The worker goroutine *)

(* The receive case of either select loop; next is the write that follows. *)
Receive(at, next) ==
    /\ worker = at
    /\ recordChan # <<>>
    /\ hand' = Head(recordChan)
    /\ recordChan' = Tail(recordChan)
    /\ worker' = next
    /\ UNCHANGED <<pending, reqId, call, held, done, closer, fate, accepted,
                   attempted, atClose>>

(* writeRecord: Store either succeeds or fails (error, or its context's    *)
(* deadline); a failure is logged and the record is forgotten.             *)
WriteRecord(at, next) ==
    /\ worker = at
    /\ \E result \in {"stored", "storeFailed"} :
          fate' = [fate EXCEPT ![hand] = result]
    /\ attempted' = Append(attempted, hand)
    /\ hand' = NoRecord
    /\ worker' = next
    /\ UNCHANGED <<pending, reqId, call, held, recordChan, done, closer,
                   accepted, atClose>>

(* case <-r.done of the outer select *)
SeeDone ==
    /\ worker = "select"
    /\ done
    /\ worker' = "drain"
    /\ UNCHANGED <<pending, reqId, call, held, recordChan, done, hand, closer,
                   fate, accepted, attempted, atClose>>

(* The default case of the drain loop: the channel is empty, wg.Done. *)
Exit ==
    /\ worker = "drain"
    /\ recordChan = <<>>
    /\ worker' = "exited"
    /\ UNCHANGED <<pending, reqId, call, held, recordChan, done, hand, closer,
                   fate, accepted, attempted, atClose>>

Worker ==
    \/ Receive("select", "write")
    \/ WriteRecord("write", "select")
    \/ SeeDone
    \/ Receive("drain", "drainWrite")
    \/ WriteRecord("drainWrite", "drain")
    \/ Exit

-----------------------------------------------------------------------------
(* Close: run.go defers it once *)

CloseSignal ==
    /\ closer = "idle"
    /\ closer' = "waiting"
    /\ done' = TRUE
    /\ atClose' = Len(accepted)
    /\ UNCHANGED <<pending, reqId, call, held, recordChan, worker, hand, fate,
                   accepted, attempted>>

CloseReturn ==
    /\ closer = "waiting"
    /\ worker = "exited"
    /\ closer' = "returned"
    /\ UNCHANGED <<pending, reqId, call, held, recordChan, done, worker, hand,
                   fate, accepted, attempted, atClose>>

-----------------------------------------------------------------------------
Next ==
    \/ \E c \in Calls : RecordRequest(c)
    \/ \E c \in Calls : TakePending(c)
    \/ \E c \in Calls : TakePendingNilResponse(c)
    \/ \E c \in Calls : Send(c)
    \/ \E c \in Calls : Drop(c)
    \/ Worker
    \/ CloseSignal
    \/ CloseReturn

Spec == Init /\ [][Next]_vars

(* Goroutines that can run do run; a select with a ready case picks one,   *)
(* and the timer makes the select of RecordResponse always ready in the    *)
(* end.  Nothing obliges a response to arrive or Close to be called.       *)
Fairness ==
    /\ WF_vars(Worker)
    /\ WF_vars(CloseReturn)
    /\ \A c \in Calls : WF_vars(Send(c) \/ Drop(c))

FairSpec == Spec /\ Fairness
-----------------------------------------------------------------------------
(* Properties *)

Created(c) == call[c] # "new"
InPending(c) == \E q \in RequestIDs : pending[q] = c
InSender(c) == \E d \in Calls : held[d] = c
InChannel(c) == \E i \in 1..Len(recordChan) : recordChan[i] = c
InWorker(c) == hand = c
Ended(c) == fate[c] # "live"

(* Every record RecordRequest created is in exactly one place: waiting in  *)
(* pendingRecords, held by one RecordResponse, on the channel, with the    *)
(* worker, or ended (stored, failed, dropped, overwritten or lost to the   *)
(* panic).  No record is duplicated and none disappears unaccounted,       *)
(* whatever requests share an ID and whenever Close is called.             *)
ExactlyOnePlace ==
    \A c \in Calls :
       /\ Created(c) => \/ InPending(c) \/ InSender(c) \/ InChannel(c)
                        \/ InWorker(c) \/ Ended(c)
       /\ InPending(c) => ~(InSender(c) \/ InChannel(c) \/ InWorker(c) \/ Ended(c))
       /\ InSender(c) => ~(InChannel(c) \/ InWorker(c) \/ Ended(c))
       /\ InChannel(c) => ~(InWorker(c) \/ Ended(c))
       /\ InWorker(c) => ~Ended(c)

InHand == IF hand = NoRecord THEN 0 ELSE 1

(* The worker offers records to storage in the order in which              *)
(* RecordResponse put them on the channel, losing and repeating none: what *)
(* was accepted is what was attempted, then what the worker holds, then    *)
(* the contents of the channel.                                            *)
AcceptedInOrder ==
    /\ Len(accepted) = Len(attempted) + InHand + Len(recordChan)
    /\ \A i \in 1..Len(attempted) : accepted[i] = attempted[i]
    /\ hand # NoRecord => accepted[Len(attempted) + 1] = hand
    /\ \A i \in 1..Len(recordChan) :
          accepted[Len(attempted) + InHand + i] = recordChan[i]

(* When Close returns, everything that was on the channel before done was  *)
(* closed has been offered to storage: the worker's drain loop.            *)
DrainedOnClose == closer = "returned" => Len(attempted) >= atClose

(* Once RecordResponse, the worker or a colliding RecordRequest has ended  *)
(* a record, no other goroutine ends it a second time in another way.      *)
FateIsFinal == [][\A c \in Calls : Ended(c) => fate'[c] = fate[c]]_vars

(* The worker gets on with its work: unless the recorder is closed an       *)
(* accepted record reaches storage.Store, whatever became of the records   *)
(* before it; and Close returns, for the drain loop terminates even while   *)
(* calls keep sending.                                                     *)
WorkerProgresses ==
    /\ \A c \in Calls : InChannel(c) ~> (Ended(c) \/ done)
    /\ closer = "waiting" ~> closer = "returned"

Log == INSTANCE EvidenceLog WITH Records <- Calls

(* The recorder implements the accepted/attempted log of EvidenceLog.      *)
ImplementsLog == Log!LogSpec
=============================================================================
