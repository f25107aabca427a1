----------------------- MODULE EvidenceRecorder_proofs -----------------------
(***************************************************************************)
(* Safety of the evidence recorder for any set of calls, any assignment of *)
(* request IDs to them and any channel capacity.                           *)
(***************************************************************************)
EXTENDS EvidenceRecorder, SequenceTheorems, TLAPS

-----------------------------------------------------------------------------
(* The inductive invariant *)

(* A goroutine holds a record exactly at the steps between taking it and   *)
(* giving it away.                                                         *)
Holding ==
    /\ \A c \in Calls : held[c] # NoRecord <=> call[c] = "sending"
    /\ hand # NoRecord <=> worker \in {"write", "drainWrite"}

(* The contents of a channel, and a channel without repetitions. *)
Holds(s, e) == \E i \in 1..Len(s) : s[i] = e
Injective(s) == \A i, j \in 1..Len(s) : s[i] = s[j] => i = j

(* No place holds a record twice, and pendingRecords is keyed by the       *)
(* record's own request ID.                                                *)
NoDoubles ==
    /\ \A q \in RequestIDs : pending[q] # NoRecord => reqId[pending[q]] = q
    /\ \A c, d \in Calls : held[c] # NoRecord /\ held[c] = held[d] => c = d
    /\ Injective(recordChan)

(* A record that was not created yet is nowhere. *)
Uncreated ==
    \A c \in Calls : ~Created(c) =>
        ~(InPending(c) \/ InSender(c) \/ InChannel(c) \/ InWorker(c) \/ Ended(c))

(* The done signal, the worker's exit and Close's return come in order. *)
Shutdown ==
    /\ done <=> closer # "idle"
    /\ worker \in {"drain", "drainWrite", "exited"} => done
    /\ closer = "returned" => worker = "exited"
    /\ atClose <= Len(accepted)
    /\ worker = "exited" => Len(attempted) >= atClose

(* A record that was offered to storage has ended. *)
AttemptedEnded == \A i \in 1..Len(attempted) : Ended(attempted[i])

IInv ==
    /\ TypeOK
    /\ Holding
    /\ NoDoubles
    /\ Uncreated
    /\ ExactlyOnePlace
    /\ AcceptedInOrder
    /\ AttemptedEnded
    /\ Shutdown

-----------------------------------------------------------------------------
(* Sending on a channel and receiving from it *)

(* Append adds the new element to those on the channel. *)
LEMMA AppendHolds ==
    ASSUME NEW S, NEW s \in Seq(S), NEW e \in S
    PROVE  /\ \A d : Holds(Append(s, e), d) <=> Holds(s, d) \/ d = e
           /\ Injective(s) /\ ~Holds(s, e) => Injective(Append(s, e))
  <1> DEFINE t == Append(s, e)
  <1>1. /\ Len(s) \in Nat
        /\ Len(t) = Len(s) + 1
        /\ \A i \in 1..Len(s) : t[i] = s[i]
        /\ t[Len(s) + 1] = e
    BY AppendProperties, LenProperties
  <1> HIDE DEF t
  <1>2. ASSUME NEW d PROVE Holds(t, d) <=> Holds(s, d) \/ d = e
    BY <1>1 DEF Holds
  <1>3. Injective(s) /\ ~Holds(s, e) => Injective(t)
    BY <1>1 DEF Holds, Injective
  <1> QED
    BY <1>2, <1>3 DEF t

(* Tail removes exactly the first element from a channel without repeats. *)
LEMMA TailHolds ==
    ASSUME NEW S, NEW s \in Seq(S), s # <<>>, Injective(s)
    PROVE  /\ Head(s) \in S /\ Holds(s, Head(s))
           /\ \A d : Holds(Tail(s), d) <=> Holds(s, d) /\ d # Head(s)
           /\ Injective(Tail(s))
  <1> DEFINE t == Tail(s)
  <1>1. /\ Len(s) \in Nat \ {0}
        /\ Head(s) = s[1]
        /\ Head(s) \in S
        /\ Len(t) = Len(s) - 1
        /\ \A i \in 1..Len(t) : t[i] = s[i + 1]
    BY HeadTailProperties, EmptySeq
  <1> HIDE DEF t
  <1>2. ASSUME NEW d PROVE Holds(t, d) <=> Holds(s, d) /\ d # s[1]
    <2>1. ASSUME NEW i \in 1..Len(s), s[i] = d, d # s[1] PROVE Holds(t, d)
      <3>1. i - 1 \in 1..Len(t) /\ t[i - 1] = d
        BY <1>1, <2>1
      <3> QED
        BY <3>1 DEF Holds
    <2>2. Holds(t, d) => Holds(s, d) /\ d # s[1]
      BY <1>1 DEF Holds, Injective
    <2> QED
      BY <2>1, <2>2 DEF Holds
  <1>3. Injective(t)
    BY <1>1 DEF Injective
  <1>4. Holds(s, s[1])
    BY <1>1 DEF Holds
  <1> QED
    BY <1>1, <1>2, <1>3, <1>4 DEF t

-----------------------------------------------------------------------------
USE RecorderAssumption DEF RecorderAssumption

(* A new recorder satisfies the inductive invariant. *)
LEMMA InitIInv == Init => IInv
  <1> SUFFICES ASSUME Init PROVE IInv
    OBVIOUS
  <1>1. TypeOK
    <2>1. done \in BOOLEAN
      BY DEF Init
    <2>2. recordChan \in Seq(Calls) /\ accepted \in Seq(Calls) /\ attempted \in Seq(Calls)
      BY DEF Init
    <2>3. Len(recordChan) <= BufferSize
      BY DEF Init
    <2> QED
      BY <2>1, <2>2, <2>3 DEF Init, TypeOK, CallStates, WorkerStates, CloserStates, Fates
  <1>2. Holding /\ NoDoubles /\ Uncreated /\ Shutdown /\ AttemptedEnded
    BY DEF Init, Holding, NoDoubles, Injective, Uncreated, Shutdown, AttemptedEnded,
           Created, InPending, InSender, InChannel, InWorker, Ended
  <1>3. ExactlyOnePlace
    BY DEF Init, ExactlyOnePlace, Created, InPending, InSender, InChannel,
           InWorker, Ended
  <1>4. AcceptedInOrder
    BY DEF Init, AcceptedInOrder, InHand
  <1> QED
    BY <1>1, <1>2, <1>3, <1>4 DEF IInv

(* Every step of a caller, the worker or Close keeps the types. *)
LEMMA TypeStep == IInv /\ [Next]_vars => TypeOK'
  <1> SUFFICES ASSUME IInv, [Next]_vars PROVE TypeOK'
    OBVIOUS
  <1> USE DEF IInv, TypeOK, CallStates, WorkerStates, CloserStates, Fates
  <1>1. ASSUME NEW c \in Calls, RecordRequest(c) PROVE TypeOK'
    BY <1>1 DEF RecordRequest
  <1>2. ASSUME NEW c \in Calls, TakePending(c) PROVE TypeOK'
    BY <1>2 DEF TakePending
  <1>3. ASSUME NEW c \in Calls, TakePendingNilResponse(c) PROVE TypeOK'
    BY <1>3 DEF TakePendingNilResponse
  <1>4. ASSUME NEW c \in Calls, Send(c) PROVE TypeOK'
    BY <1>4 DEF Send, Holding
  <1>5. ASSUME NEW c \in Calls, Drop(c) PROVE TypeOK'
    BY <1>5 DEF Drop
  <1>6. CASE Receive("select", "write") \/ Receive("drain", "drainWrite")
    <2>1. recordChan # <<>>
      BY <1>6 DEF Receive
    <2>2. /\ Head(recordChan) \in Calls
          /\ Tail(recordChan) \in Seq(Calls)
          /\ Len(Tail(recordChan)) = Len(recordChan) - 1
      BY <2>1, HeadTailProperties
    <2>3. /\ UNCHANGED <<pending, reqId, call, held, done, closer, fate,
                          accepted, attempted, atClose>>
          /\ hand' = Head(recordChan)
          /\ recordChan' = Tail(recordChan)
          /\ worker' \in WorkerStates
      BY <1>6 DEF Receive
    <2> QED
      BY <2>2, <2>3
  <1>7. CASE WriteRecord("write", "select") \/ WriteRecord("drainWrite", "drain")
    <2>1. PICK result \in {"stored", "storeFailed"} : fate' = [fate EXCEPT ![hand] = result]
      BY <1>7 DEF WriteRecord
    <2>2. hand \in Calls
      BY <1>7 DEF WriteRecord, Holding
    <2>3. attempted' \in Seq(Calls)
      <3>1. attempted' = Append(attempted, hand)
        BY <1>7 DEF WriteRecord
      <3> QED
        BY <2>2, <3>1, AppendProperties
    <2>4. fate' \in [Calls -> Fates]
      BY <2>1
    <2>5. /\ UNCHANGED <<pending, reqId, call, held, recordChan, done, closer,
                          accepted, atClose>>
          /\ hand' = NoRecord
          /\ worker' \in WorkerStates
      BY <1>7 DEF WriteRecord
    <2> QED
      BY <2>3, <2>4, <2>5
  <1>8. CASE SeeDone \/ Exit \/ CloseReturn
    BY <1>8 DEF SeeDone, Exit, CloseReturn
  <1>9. CASE CloseSignal
    BY <1>9 DEF CloseSignal
  <1>10. CASE UNCHANGED vars
    BY <1>10 DEF vars
  <1> QED
    BY <1>1, <1>2, <1>3, <1>4, <1>5, <1>6, <1>7, <1>8, <1>9, <1>10
       DEF Next, Worker

(* Every step leaves each goroutine holding a record exactly where its      *)
(* program counter says it does.                                           *)
LEMMA HoldingStep == IInv /\ [Next]_vars => Holding'
  <1> SUFFICES ASSUME IInv, [Next]_vars PROVE Holding'
    OBVIOUS
  <1> USE DEF IInv, TypeOK, Holding
  <1>1. ASSUME NEW c \in Calls, RecordRequest(c) PROVE Holding'
    BY <1>1 DEF RecordRequest
  <1>2. ASSUME NEW c \in Calls, TakePending(c) PROVE Holding'
    BY <1>2 DEF TakePending
  <1>3. ASSUME NEW c \in Calls, TakePendingNilResponse(c) PROVE Holding'
    BY <1>3 DEF TakePendingNilResponse
  <1>4. ASSUME NEW c \in Calls, Send(c) PROVE Holding'
    BY <1>4 DEF Send
  <1>5. ASSUME NEW c \in Calls, Drop(c) PROVE Holding'
    BY <1>5 DEF Drop
  <1>6. CASE Receive("select", "write") \/ Receive("drain", "drainWrite")
    BY <1>6 DEF Receive
  <1>7. CASE WriteRecord("write", "select") \/ WriteRecord("drainWrite", "drain")
    BY <1>7 DEF WriteRecord
  <1>8. CASE SeeDone \/ Exit \/ CloseReturn \/ CloseSignal
    BY <1>8 DEF SeeDone, Exit, CloseReturn, CloseSignal
  <1>9. CASE UNCHANGED vars
    BY <1>9 DEF vars
  <1> QED
    BY <1>1, <1>2, <1>3, <1>4, <1>5, <1>6, <1>7, <1>8, <1>9 DEF Next, Worker

(* Every step leaves each record in exactly one place. *)
LEMMA PlacesStep ==
    IInv /\ [Next]_vars => NoDoubles' /\ Uncreated' /\ ExactlyOnePlace'
  <1> SUFFICES ASSUME IInv, [Next]_vars
               PROVE  NoDoubles' /\ Uncreated' /\ ExactlyOnePlace'
    OBVIOUS
  <1> DEFINE Goal == NoDoubles' /\ Uncreated' /\ ExactlyOnePlace'
  <1> USE DEF IInv, TypeOK, Holding, Created, InPending, InSender, InChannel,
              InWorker, Ended
  <1>1. ASSUME NEW c \in Calls, RecordRequest(c) PROVE Goal
    <2>1. NoDoubles'
      BY <1>1 DEF RecordRequest, NoDoubles
    <2>2. Uncreated'
      BY <1>1 DEF RecordRequest, Uncreated
    <2>3. ExactlyOnePlace'
      <3> DEFINE q == reqId[c]
      <3>1. /\ call' = [call EXCEPT ![c] = "waiting"]
            /\ q \in RequestIDs
            /\ \A r \in RequestIDs : pending'[r] = IF r = q THEN c ELSE pending[r]
            /\ \A d \in Calls : fate'[d] = IF d = pending[q] THEN "overwritten" ELSE fate[d]
            /\ UNCHANGED <<held, recordChan, hand>>
        BY <1>1 DEF RecordRequest
      <3>2. pending[q] # c
        BY <1>1 DEF RecordRequest, Uncreated
      <3> SUFFICES ASSUME NEW d \in Calls
                   PROVE  /\ Created(d)' => \/ InPending(d)' \/ InSender(d)' \/ InChannel(d)'
                                            \/ InWorker(d)' \/ Ended(d)'
                          /\ InPending(d)' => ~(InSender(d)' \/ InChannel(d)' \/ InWorker(d)' \/ Ended(d)')
                          /\ InSender(d)' => ~(InChannel(d)' \/ InWorker(d)' \/ Ended(d)')
                          /\ InChannel(d)' => ~(InWorker(d)' \/ Ended(d)')
                          /\ InWorker(d)' => ~Ended(d)'
        BY DEF ExactlyOnePlace
      <3>3. CASE d = c
        BY <1>1, <3>1, <3>2, <3>3 DEF RecordRequest, Uncreated
      <3>4. CASE d = pending[q]
        <4>1. ~InPending(d)'
          BY <3>1, <3>2, <3>4 DEF NoDoubles
        <4>2. ~(InSender(d)' \/ InChannel(d)' \/ InWorker(d)') /\ Ended(d)'
          BY <3>1, <3>4 DEF ExactlyOnePlace
        <4> QED
          BY <4>1, <4>2
      <3>5. CASE d # c /\ d # pending[q]
        <4>1. /\ InPending(d)' <=> InPending(d)
              /\ InSender(d)' <=> InSender(d)
              /\ InChannel(d)' <=> InChannel(d)
              /\ InWorker(d)' <=> InWorker(d)
              /\ Ended(d)' <=> Ended(d)
              /\ Created(d)' <=> Created(d)
          BY <3>1, <3>5
        <4> QED
          BY <4>1 DEF ExactlyOnePlace
      <3> QED
        BY <3>3, <3>4, <3>5
    <2> QED
      BY <2>1, <2>2, <2>3
  <1>2. ASSUME NEW c \in Calls, TakePending(c) PROVE Goal
    <2> DEFINE q == reqId[c]
    <2>1. Uncreated'
      BY <1>2 DEF TakePending, Uncreated
    <2>2. CASE pending[q] = NoRecord
      <3>1. /\ UNCHANGED <<pending, reqId, held, recordChan, hand, fate>>
            /\ call' = [call EXCEPT ![c] = "ok"]
            /\ call[c] = "waiting"
        BY <1>2, <2>2 DEF TakePending
      <3>2. NoDoubles'
        BY <3>1 DEF NoDoubles, Injective
      <3>3. ExactlyOnePlace'
        BY <3>1 DEF ExactlyOnePlace
      <3> QED
        BY <2>1, <3>2, <3>3
    <2>3. CASE pending[q] # NoRecord
      <3>1. /\ call' = [call EXCEPT ![c] = "sending"]
            /\ held' = [held EXCEPT ![c] = pending[q]]
            /\ pending' = [pending EXCEPT ![q] = NoRecord]
            /\ UNCHANGED <<reqId, recordChan, hand, fate>>
            /\ q \in RequestIDs /\ pending[q] \in Calls
            /\ held[c] = NoRecord
        BY <1>2, <2>3 DEF TakePending
      <3>2. ~InSender(pending[q]) /\ ~InChannel(pending[q]) /\ ~InWorker(pending[q])
            /\ ~Ended(pending[q])
        BY <3>1 DEF ExactlyOnePlace
      <3>3. NoDoubles'
        BY <3>1, <3>2 DEF NoDoubles
      <3>4. ExactlyOnePlace'
        <4> SUFFICES ASSUME NEW d \in Calls
                     PROVE  /\ Created(d)' => \/ InPending(d)' \/ InSender(d)' \/ InChannel(d)'
                                              \/ InWorker(d)' \/ Ended(d)'
                            /\ InPending(d)' => ~(InSender(d)' \/ InChannel(d)' \/ InWorker(d)' \/ Ended(d)')
                            /\ InSender(d)' => ~(InChannel(d)' \/ InWorker(d)' \/ Ended(d)')
                            /\ InChannel(d)' => ~(InWorker(d)' \/ Ended(d)')
                            /\ InWorker(d)' => ~Ended(d)'
          BY DEF ExactlyOnePlace
        <4>1. /\ InChannel(d)' <=> InChannel(d)
              /\ InWorker(d)' <=> InWorker(d)
              /\ Ended(d)' <=> Ended(d)
          BY <3>1
        <4>2. CASE d = pending[q]
          <5>1. ~InPending(d)'
            BY <3>1, <4>2 DEF NoDoubles
          <5>2. InSender(d)'
            BY <3>1, <4>2
          <5> QED
            BY <3>2, <4>1, <4>2, <5>1, <5>2
        <4>3. CASE d # pending[q]
          <5>1. /\ InPending(d)' <=> InPending(d)
                /\ InSender(d)' <=> InSender(d)
                /\ Created(d)' <=> Created(d)
            BY <1>2, <3>1, <4>3 DEF TakePending
          <5> QED
            BY <4>1, <5>1 DEF ExactlyOnePlace
        <4> QED
          BY <4>2, <4>3
      <3> QED
        BY <2>1, <3>3, <3>4
    <2> QED
      BY <2>2, <2>3
  <1>3. ASSUME NEW c \in Calls, TakePendingNilResponse(c) PROVE Goal
    <2>1. NoDoubles'
      BY <1>3 DEF TakePendingNilResponse, NoDoubles
    <2>2. Uncreated'
      BY <1>3 DEF TakePendingNilResponse, Uncreated
    <2>3. ExactlyOnePlace'
      BY <1>3, SMTT(60) DEF TakePendingNilResponse, NoDoubles, ExactlyOnePlace, Fates
    <2> QED
      BY <2>1, <2>2, <2>3
  <1>4. ASSUME NEW c \in Calls, Send(c) PROVE Goal
    <2>1. /\ held' = [held EXCEPT ![c] = NoRecord]
          /\ call' = [call EXCEPT ![c] = "ok"]
          /\ held[c] \in Calls
          /\ recordChan' = Append(recordChan, held[c])
          /\ UNCHANGED <<pending, reqId, hand, fate>>
      BY <1>4 DEF Send
    <2>2. /\ \A d : Holds(recordChan', d) <=> Holds(recordChan, d) \/ d = held[c]
          /\ Injective(recordChan) /\ ~Holds(recordChan, held[c]) => Injective(recordChan')
      BY <2>1, AppendHolds
    <2>3. \A d \in Calls : /\ InChannel(d) <=> Holds(recordChan, d)
                           /\ InChannel(d)' <=> Holds(recordChan', d)
      BY DEF Holds
    <2>4. InSender(held[c])
      BY <2>1
    <2>5. ASSUME NEW d \in Calls
          PROVE  /\ InPending(d)' <=> InPending(d)
                 /\ InWorker(d)' <=> InWorker(d)
                 /\ Ended(d)' <=> Ended(d)
                 /\ InSender(d)' <=> InSender(d) /\ d # held[c]
                 /\ Created(d)' <=> Created(d)
      BY <1>4, <2>1 DEF Send, NoDoubles
    <2> HIDE DEF Created, InPending, InSender, InChannel, InWorker, Ended
    <2>6. NoDoubles'
      <3>1. ~Holds(recordChan, held[c])
        BY <2>1, <2>3, <2>4 DEF ExactlyOnePlace
      <3> QED
        BY <2>1, <2>2, <3>1 DEF NoDoubles
    <2>7. Uncreated'
      BY <2>1, <2>2, <2>3, <2>4, <2>5 DEF Uncreated
    <2>8. ExactlyOnePlace'
      BY <2>1, <2>2, <2>3, <2>4, <2>5 DEF ExactlyOnePlace
    <2> QED
      BY <2>6, <2>7, <2>8
  <1>5. ASSUME NEW c \in Calls, Drop(c) PROVE Goal
    <2>1. NoDoubles'
      BY <1>5 DEF Drop, NoDoubles
    <2>2. Uncreated'
      BY <1>5 DEF Drop, Uncreated
    <2>3. ExactlyOnePlace'
      BY <1>5 DEF Drop, NoDoubles, ExactlyOnePlace, Fates
    <2> QED
      BY <2>1, <2>2, <2>3
  <1>6. CASE Receive("select", "write") \/ Receive("drain", "drainWrite")
    <2>0. /\ UNCHANGED <<pending, reqId, call, held, fate>>
          /\ recordChan # <<>>
          /\ hand = NoRecord
          /\ hand' = Head(recordChan)
          /\ recordChan' = Tail(recordChan)
      BY <1>6 DEF Receive
    <2>1. /\ hand' \in Calls /\ Holds(recordChan, hand')
          /\ \A d : Holds(recordChan', d) <=> Holds(recordChan, d) /\ d # hand'
          /\ Injective(recordChan')
      BY <2>0, TailHolds DEF NoDoubles
    <2>2. \A d \in Calls : /\ InChannel(d) <=> Holds(recordChan, d)
                           /\ InChannel(d)' <=> Holds(recordChan', d)
      BY DEF Holds
    <2>3. ASSUME NEW d \in Calls
          PROVE  /\ InPending(d)' <=> InPending(d)
                 /\ InSender(d)' <=> InSender(d)
                 /\ Ended(d)' <=> Ended(d)
                 /\ Created(d)' <=> Created(d)
                 /\ InWorker(d)' <=> d = hand'
                 /\ ~InWorker(d)
      BY <2>0
    <2> HIDE DEF Created, InPending, InSender, InChannel, InWorker, Ended
    <2>4. NoDoubles'
      BY <2>0, <2>1 DEF NoDoubles
    <2>5. Uncreated'
      BY <2>1, <2>2, <2>3 DEF Uncreated
    <2>6. ExactlyOnePlace'
      BY <2>1, <2>2, <2>3 DEF ExactlyOnePlace
    <2> QED
      BY <2>4, <2>5, <2>6
  <1>7. CASE WriteRecord("write", "select") \/ WriteRecord("drainWrite", "drain")
    <2>1. PICK result \in {"stored", "storeFailed"} : fate' = [fate EXCEPT ![hand] = result]
      BY <1>7 DEF WriteRecord
    <2>2. /\ UNCHANGED <<pending, reqId, call, held, recordChan>>
          /\ hand' = NoRecord
          /\ hand \in Calls
      BY <1>7 DEF WriteRecord
    <2>3. NoDoubles'
      BY <2>2 DEF NoDoubles
    <2>4. Uncreated'
      BY <2>1, <2>2 DEF Uncreated
    <2>5. ExactlyOnePlace'
      BY <2>1, <2>2 DEF ExactlyOnePlace
    <2> QED
      BY <2>3, <2>4, <2>5
  <1>8. CASE SeeDone \/ Exit \/ CloseSignal \/ CloseReturn \/ UNCHANGED vars
    <2>1. UNCHANGED <<pending, reqId, call, held, recordChan, hand, fate>>
      BY <1>8 DEF SeeDone, Exit, CloseSignal, CloseReturn, vars
    <2> QED
      BY <2>1 DEF NoDoubles, Uncreated, ExactlyOnePlace
  <1> QED
    BY <1>1, <1>2, <1>3, <1>4, <1>5, <1>6, <1>7, <1>8 DEF Next, Worker

(* Every step keeps delivery in the order of acceptance. *)
LEMMA OrderStep == IInv /\ [Next]_vars => AcceptedInOrder' /\ AttemptedEnded'
  <1> SUFFICES ASSUME IInv, [Next]_vars PROVE AcceptedInOrder' /\ AttemptedEnded'
    OBVIOUS
  <1> DEFINE Goal == AcceptedInOrder' /\ AttemptedEnded'
  <1> USE DEF IInv, TypeOK
  <1>0. /\ Len(recordChan) \in Nat /\ Len(accepted) \in Nat /\ Len(attempted) \in Nat
        /\ \A i \in 1..Len(attempted) : attempted[i] \in Calls
    OBVIOUS
  <1>1. ASSUME UNCHANGED <<recordChan, hand, accepted, attempted>>,
               \A c \in Calls : Ended(c) => Ended(c)'
        PROVE  Goal
    BY <1>0, <1>1 DEF AcceptedInOrder, InHand, AttemptedEnded
  <1>2. ASSUME NEW c \in Calls, RecordRequest(c) PROVE Goal
    <2>1. \A d \in Calls : Ended(d) => Ended(d)'
      BY <1>2 DEF RecordRequest, Ended
    <2> QED
      BY <1>1, <1>2, <2>1 DEF RecordRequest
  <1>3. ASSUME NEW c \in Calls, TakePending(c) PROVE Goal
    BY <1>1, <1>3 DEF TakePending, Ended
  <1>4. ASSUME NEW c \in Calls, TakePendingNilResponse(c) PROVE Goal
    <2>1. \A d \in Calls : Ended(d) => Ended(d)'
      BY <1>4 DEF TakePendingNilResponse, Ended
    <2> QED
      BY <1>1, <1>4, <2>1 DEF TakePendingNilResponse
  <1>5. ASSUME NEW c \in Calls, Send(c) PROVE Goal
    <2>1. /\ held[c] \in Calls
          /\ recordChan' = Append(recordChan, held[c])
          /\ accepted' = Append(accepted, held[c])
          /\ UNCHANGED <<hand, attempted, fate>>
      BY <1>5 DEF Send, Holding
    <2>2. /\ Len(recordChan') = Len(recordChan) + 1
          /\ \A i \in 1..Len(recordChan) : recordChan'[i] = recordChan[i]
          /\ recordChan'[Len(recordChan) + 1] = held[c]
      BY <2>1, AppendProperties
    <2>3. /\ Len(accepted') = Len(accepted) + 1
          /\ \A i \in 1..Len(accepted) : accepted'[i] = accepted[i]
          /\ accepted'[Len(accepted) + 1] = held[c]
      BY <2>1, AppendProperties
    <2>4. AcceptedInOrder'
      <3>1. AcceptedInOrder /\ InHand \in {0, 1} /\ InHand' = InHand
        BY <2>1 DEF InHand
      <3>2. hand # NoRecord => InHand = 1
        BY DEF InHand
      <3> HIDE DEF IInv, TypeOK, InHand
      <3>3. Len(accepted') = Len(attempted') + InHand' + Len(recordChan')
        BY <1>0, <2>1, <2>2, <2>3, <3>1 DEF AcceptedInOrder
      <3>4. \A i \in 1..Len(attempted') : accepted'[i] = attempted'[i]
        BY <1>0, <2>1, <2>3, <3>1 DEF AcceptedInOrder
      <3>5. hand' # NoRecord => accepted'[Len(attempted') + 1] = hand'
        BY <1>0, <2>1, <2>3, <3>1, <3>2 DEF AcceptedInOrder
      <3>6. ASSUME NEW i \in 1..Len(recordChan')
            PROVE  accepted'[Len(attempted') + InHand' + i] = recordChan'[i]
        <4>1. CASE i \in 1..Len(recordChan)
          <5>1. accepted[Len(attempted) + InHand + i] = recordChan[i]
            BY <3>1, <4>1 DEF AcceptedInOrder
          <5>2. Len(attempted) + InHand + i \in 1..Len(accepted)
            BY <1>0, <3>1, <4>1 DEF AcceptedInOrder
          <5> QED
            BY <2>1, <2>2, <2>3, <3>1, <4>1, <5>1, <5>2
        <4>2. CASE i = Len(recordChan) + 1
          BY <1>0, <2>1, <2>2, <2>3, <3>1, <4>2 DEF AcceptedInOrder
        <4> QED
          BY <1>0, <2>2, <4>1, <4>2
      <3> QED
        BY <3>3, <3>4, <3>5, <3>6 DEF AcceptedInOrder
    <2>5. AttemptedEnded'
      BY <2>1 DEF AttemptedEnded, Ended
    <2> QED
      BY <2>4, <2>5
  <1>6. ASSUME NEW c \in Calls, Drop(c) PROVE Goal
    <2>1. \A d \in Calls : Ended(d) => Ended(d)'
      BY <1>6 DEF Drop, Ended
    <2> QED
      BY <1>1, <1>6, <2>1 DEF Drop
  <1>7. CASE Receive("select", "write") \/ Receive("drain", "drainWrite")
    <2>1. /\ UNCHANGED <<fate, accepted, attempted>>
          /\ recordChan # <<>>
          /\ hand = NoRecord
          /\ hand' = Head(recordChan)
          /\ recordChan' = Tail(recordChan)
      BY <1>7 DEF Receive, Holding
    <2>2. /\ Len(recordChan) > 0
          /\ hand' = recordChan[1]
          /\ hand' \in Calls
          /\ Len(recordChan') = Len(recordChan) - 1
          /\ \A i \in 1..Len(recordChan') : recordChan'[i] = recordChan[i + 1]
      BY <2>1, HeadTailProperties, EmptySeq
    <2>3. InHand = 0 /\ InHand' = 1
      BY <2>1, <2>2 DEF InHand
    <2>4. AcceptedInOrder'
      <3>1. AcceptedInOrder
        OBVIOUS
      <3> HIDE DEF IInv, TypeOK, InHand
      <3>2. Len(accepted') = Len(attempted') + InHand' + Len(recordChan')
        BY <1>0, <2>1, <2>2, <2>3, <3>1 DEF AcceptedInOrder
      <3>3. \A i \in 1..Len(attempted') : accepted'[i] = attempted'[i]
        BY <2>1, <3>1 DEF AcceptedInOrder
      <3>4. accepted'[Len(attempted') + 1] = hand'
        BY <1>0, <2>1, <2>2, <2>3, <3>1 DEF AcceptedInOrder
      <3>5. ASSUME NEW i \in 1..Len(recordChan')
            PROVE  accepted'[Len(attempted') + InHand' + i] = recordChan'[i]
        <4>1. i + 1 \in 1..Len(recordChan)
          BY <1>0, <2>2
        <4>2. accepted[Len(attempted) + InHand + (i + 1)] = recordChan[i + 1]
          BY <3>1, <4>1 DEF AcceptedInOrder
        <4> QED
          BY <1>0, <2>1, <2>2, <2>3, <4>1, <4>2
      <3> QED
        BY <3>2, <3>3, <3>4, <3>5 DEF AcceptedInOrder
    <2>5. AttemptedEnded'
      BY <2>1 DEF AttemptedEnded, Ended
    <2> QED
      BY <2>4, <2>5
  <1>8. CASE WriteRecord("write", "select") \/ WriteRecord("drainWrite", "drain")
    <2>1. /\ UNCHANGED <<recordChan, accepted>>
          /\ hand \in Calls
          /\ attempted' = Append(attempted, hand)
          /\ hand' = NoRecord
      BY <1>8 DEF WriteRecord, Holding
    <2>2. /\ Len(attempted') = Len(attempted) + 1
          /\ \A i \in 1..Len(attempted) : attempted'[i] = attempted[i]
          /\ attempted'[Len(attempted) + 1] = hand
      BY <2>1, AppendProperties
    <2>3. InHand = 1 /\ InHand' = 0 /\ hand # NoRecord
      BY <2>1 DEF InHand
    <2>4. AcceptedInOrder'
      <3>1. AcceptedInOrder
        OBVIOUS
      <3> HIDE DEF IInv, TypeOK, InHand
      <3>2. Len(accepted') = Len(attempted') + InHand' + Len(recordChan')
        BY <1>0, <2>1, <2>2, <2>3, <3>1 DEF AcceptedInOrder
      <3>3. \A i \in 1..Len(attempted') : accepted'[i] = attempted'[i]
        BY <1>0, <2>1, <2>2, <2>3, <3>1 DEF AcceptedInOrder
      <3>4. ASSUME NEW i \in 1..Len(recordChan')
            PROVE  accepted'[Len(attempted') + InHand' + i] = recordChan'[i]
        <4>1. accepted[Len(attempted) + InHand + i] = recordChan[i]
          BY <2>1, <3>1 DEF AcceptedInOrder
        <4> QED
          BY <1>0, <2>1, <2>2, <2>3, <4>1
      <3> QED
        BY <2>1, <3>2, <3>3, <3>4 DEF AcceptedInOrder
    <2>5. PICK result \in {"stored", "storeFailed"} : fate' = [fate EXCEPT ![hand] = result]
      BY <1>8 DEF WriteRecord
    <2>6. AttemptedEnded'
      <3>1. /\ fate'[hand] # "live"
            /\ \A d \in Calls : Ended(d) => fate'[d] # "live"
        BY <2>1, <2>5 DEF Ended
      <3>2. AttemptedEnded
        OBVIOUS
      <3> HIDE DEF IInv, TypeOK
      <3>3. ASSUME NEW i \in 1..Len(attempted')
            PROVE  fate'[attempted'[i]] # "live"
        <4>1. CASE i \in 1..Len(attempted)
          BY <1>0, <2>2, <3>1, <3>2, <4>1 DEF AttemptedEnded, Ended
        <4>2. CASE i = Len(attempted) + 1
          BY <2>2, <3>1, <4>2
        <4> QED
          BY <1>0, <2>2, <4>1, <4>2
      <3> QED
        BY <3>3 DEF AttemptedEnded, Ended
    <2> QED
      BY <2>4, <2>6
  <1>9. CASE SeeDone \/ Exit \/ CloseSignal \/ CloseReturn \/ UNCHANGED vars
    BY <1>1, <1>9 DEF SeeDone, Exit, CloseSignal, CloseReturn, vars, Ended
  <1> QED
    BY <1>2, <1>3, <1>4, <1>5, <1>6, <1>7, <1>8, <1>9 DEF Next, Worker

(* Every step keeps what Close relies on: done, the worker and wg agree. *)
LEMMA ShutdownStep == IInv /\ [Next]_vars => Shutdown'
  <1> SUFFICES ASSUME IInv, [Next]_vars PROVE Shutdown'
    OBVIOUS
  <1> USE DEF IInv, TypeOK, Shutdown
  <1>0. Len(recordChan) \in Nat /\ Len(accepted) \in Nat /\ Len(attempted) \in Nat
    OBVIOUS
  <1>1. ASSUME NEW c \in Calls,
               RecordRequest(c) \/ TakePending(c) \/ TakePendingNilResponse(c) \/ Drop(c)
        PROVE  Shutdown'
    <2>1. UNCHANGED <<done, closer, worker, atClose, accepted, attempted>>
      BY <1>1 DEF RecordRequest, TakePending, TakePendingNilResponse, Drop
    <2> QED
      BY <2>1
  <1>2. ASSUME NEW c \in Calls, Send(c) PROVE Shutdown'
    <2>1. Len(accepted') = Len(accepted) + 1
      BY <1>2, AppendProperties DEF Send, Holding
    <2> QED
      BY <1>0, <1>2, <2>1 DEF Send
  <1>3. CASE Receive("select", "write") \/ Receive("drain", "drainWrite")
    BY <1>3 DEF Receive
  <1>4. CASE WriteRecord("write", "select") \/ WriteRecord("drainWrite", "drain")
    BY <1>4 DEF WriteRecord
  <1>5. CASE SeeDone \/ CloseReturn
    BY <1>5 DEF SeeDone, CloseReturn
  <1>6. CASE Exit
    <2>1. Len(attempted) = Len(accepted)
      BY <1>0, <1>6 DEF Exit, AcceptedInOrder, InHand, Holding
    <2> QED
      BY <1>0, <1>6, <2>1 DEF Exit
  <1>7. CASE CloseSignal
    BY <1>0, <1>7 DEF CloseSignal
  <1>8. CASE UNCHANGED vars
    BY <1>8 DEF vars
  <1> QED
    BY <1>1, <1>2, <1>3, <1>4, <1>5, <1>6, <1>7, <1>8 DEF Next, Worker

(* The inductive invariant holds in every state of the recorder. *)
THEOREM Invariance == Spec => []IInv
  <1>1. Init => IInv
    BY InitIInv
  <1>2. IInv /\ [Next]_vars => IInv'
    BY TypeStep, HoldingStep, PlacesStep, OrderStep, ShutdownStep DEF IInv
  <1> QED
    BY <1>1, <1>2, PTL DEF Spec
-----------------------------------------------------------------------------
(* The results *)

(* The recorder's state keeps its types: NewRecorder sets them up and no    *)
(* operation breaks them.                                                  *)
THEOREM TypeCorrect == Spec => []TypeOK
  BY Invariance, PTL DEF IInv

(* Every record RecordRequest created is in exactly one place. *)
THEOREM RecordConservation == Spec => []ExactlyOnePlace
  BY Invariance, PTL DEF IInv

(* Records reach storage.Store in the order of acceptance, none skipped or *)
(* repeated.                                                               *)
THEOREM FifoDelivery == Spec => []AcceptedInOrder
  BY Invariance, PTL DEF IInv

(* Close returns only after the records on the channel when done was       *)
(* closed were offered to storage.                                         *)
THEOREM DrainBeforeClose == Spec => []DrainedOnClose
  <1>1. IInv => DrainedOnClose
    BY DEF IInv, Shutdown, DrainedOnClose
  <1> QED
    BY <1>1, Invariance, PTL

(* No step changes how a record ended. *)
THEOREM FinalFates == Spec => FateIsFinal
  <1> DEFINE Final == \A c \in Calls : Ended(c) => fate'[c] = fate[c]
  <1>1. IInv /\ [Next]_vars => [Final]_vars
    <2> SUFFICES ASSUME IInv, Next PROVE Final
      OBVIOUS
    <2> USE DEF IInv, TypeOK, Ended
    <2>1. ASSUME NEW c \in Calls, RecordRequest(c) PROVE Final
      BY <2>1 DEF RecordRequest, ExactlyOnePlace, InPending
    <2>2. ASSUME NEW c \in Calls, TakePending(c) \/ Send(c) PROVE Final
      BY <2>2 DEF TakePending, Send
    <2>3. ASSUME NEW c \in Calls, TakePendingNilResponse(c) PROVE Final
      <3>1. ~Ended(pending[reqId[c]])
        BY <2>3 DEF TakePendingNilResponse, ExactlyOnePlace, InPending
      <3> QED
        BY <2>3, <3>1 DEF TakePendingNilResponse
    <2>4. ASSUME NEW c \in Calls, Drop(c) PROVE Final
      <3>1. ~Ended(held[c])
        BY <2>4 DEF Drop, Holding, ExactlyOnePlace, InSender
      <3> QED
        BY <2>4, <3>1 DEF Drop
    <2>5. CASE Worker
      <3>1. ASSUME NEW at, NEW next, WriteRecord(at, next), hand # NoRecord PROVE Final
        <4>1. PICK result \in {"stored", "storeFailed"} : fate' = [fate EXCEPT ![hand] = result]
          BY <3>1 DEF WriteRecord
        <4>2. ~Ended(hand)
          BY <3>1 DEF ExactlyOnePlace, InWorker
        <4> QED
          BY <4>1, <4>2
      <3>2. WriteRecord("write", "select") \/ WriteRecord("drainWrite", "drain") => hand # NoRecord
        BY DEF WriteRecord, Holding
      <3>3. \/ WriteRecord("write", "select") \/ WriteRecord("drainWrite", "drain")
            \/ fate' = fate
        BY <2>5 DEF Worker, Receive, SeeDone, Exit
      <3> QED
        BY <3>1, <3>2, <3>3
    <2>6. CASE CloseSignal \/ CloseReturn
      BY <2>6 DEF CloseSignal, CloseReturn
    <2> QED
      BY <2>1, <2>2, <2>3, <2>4, <2>5, <2>6 DEF Next
  <1> QED
    BY <1>1, Invariance, PTL DEF Spec, FateIsFinal

(* The recorder implements the accepted/attempted log of EvidenceLog. *)
THEOREM RecorderRefinesLog == Spec => ImplementsLog
  <1>1. Init => Log!LogInit
    BY DEF Init, Log!LogInit
  <1>2. IInv /\ [Next]_vars => [Log!LogNext]_(Log!logVars)
    <2> SUFFICES ASSUME IInv, [Next]_vars
                 PROVE  Log!LogNext \/ UNCHANGED <<accepted, attempted>>
      BY DEF Log!logVars
    <2> USE DEF IInv, TypeOK
    <2>0. /\ Len(recordChan) \in Nat /\ Len(accepted) \in Nat /\ Len(attempted) \in Nat
          /\ \A i \in 1..Len(attempted) : attempted[i] \in Calls
      OBVIOUS
    <2>1. ASSUME NEW c \in Calls, Send(c) PROVE Log!LogNext
      <3>1. held[c] \in Calls /\ InSender(held[c])
        BY <2>1 DEF Send, Holding, InSender
      <3>2. ~InChannel(held[c]) /\ ~InWorker(held[c]) /\ ~Ended(held[c])
        BY <3>1 DEF ExactlyOnePlace
      <3>3. ASSUME NEW i \in 1..Len(accepted) PROVE accepted[i] # held[c]
        <4>1. CASE i \in 1..Len(attempted)
          BY <3>2, <4>1 DEF AcceptedInOrder, AttemptedEnded
        <4>2. CASE hand # NoRecord /\ i = Len(attempted) + 1
          BY <3>2, <4>2 DEF AcceptedInOrder, InWorker
        <4>3. CASE i > Len(attempted) + InHand
          <5> DEFINE j == i - (Len(attempted) + InHand)
          <5>1. InHand \in {0, 1} /\ AcceptedInOrder
            BY DEF InHand
          <5>2. j \in 1..Len(recordChan)
            BY <2>0, <4>3, <5>1 DEF AcceptedInOrder
          <5>3. i = Len(attempted) + InHand + j
            BY <2>0, <5>1
          <5> HIDE DEF j
          <5> QED
            BY <3>2, <5>1, <5>2, <5>3 DEF AcceptedInOrder, InChannel
        <4>4. \/ i \in 1..Len(attempted)
              \/ hand # NoRecord /\ i = Len(attempted) + 1
              \/ i > Len(attempted) + InHand
          BY <2>0 DEF InHand
        <4> QED
          BY <4>1, <4>2, <4>3, <4>4
      <3>4. Log!Accept(held[c])
        BY <2>1, <3>3 DEF Send, Log!Accept
      <3> QED
        BY <3>1, <3>4 DEF Log!LogNext
    <2>2. CASE WriteRecord("write", "select") \/ WriteRecord("drainWrite", "drain")
      <3>1. /\ hand # NoRecord
            /\ attempted' = Append(attempted, hand)
            /\ accepted' = accepted
        BY <2>2 DEF WriteRecord, Holding
      <3>2. accepted[Len(attempted) + 1] = hand /\ Len(attempted) < Len(accepted)
        BY <2>0, <3>1 DEF AcceptedInOrder, InHand
      <3> QED
        BY <3>1, <3>2 DEF Log!LogNext, Log!Attempt
    <2>3. ASSUME NEW c \in Calls,
                 \/ RecordRequest(c) \/ TakePending(c) \/ TakePendingNilResponse(c)
                 \/ Drop(c)
          PROVE  UNCHANGED <<accepted, attempted>>
      BY <2>3 DEF RecordRequest, TakePending, TakePendingNilResponse, Drop
    <2>4. CASE \/ Receive("select", "write") \/ Receive("drain", "drainWrite")
               \/ SeeDone \/ Exit \/ CloseSignal \/ CloseReturn \/ UNCHANGED vars
      BY <2>4 DEF Receive, SeeDone, Exit, CloseSignal, CloseReturn, vars
    <2> QED
      BY <2>1, <2>2, <2>3, <2>4 DEF Next, Worker
  <1> QED
    BY <1>1, <1>2, Invariance, PTL DEF Spec, ImplementsLog, Log!LogSpec
=============================================================================
