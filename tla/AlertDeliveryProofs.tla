------------------------- MODULE AlertDeliveryProofs ------------------------
(***************************************************************************)
(* The promises of the delivery of alerts, for any number of senders and   *)
(* operators, any supply of tokens, any lease and any number of faults.    *)
(***************************************************************************)
EXTENDS AlertDelivery, FiniteSetTheorems, TLAPS

(* A sender that is busy has a token of its own; one that holds the claim  *)
(* of the row claimed this occurrence; and one that has lost the claim of  *)
(* a pending row has had it for its whole lease.                           *)
SenderInv(d) ==
    /\ Active(d) => token[d] \in Token
    /\ ~Active(d) => token[d] = NoToken /\ claimed[d] = 0 /\ held[d] = 0
    /\ claimed[d] <= occurrence
    /\ Active(d) /\ HoldsClaim(d) => Current(d)
    /\ (Active(d) /\ Current(d) /\ alert.status = "pending") =>
           \/ HoldsClaim(d) /\ held[d] + alert.lease = Lease
           \/ held[d] = Lease
    /\ (pc[d] = "complete" /\ Current(d)) => accepted > 0

TokensDiffer ==
    \A d, e \in Sender : d # e /\ Active(d) /\ Active(e) => token[d] # token[e]

(* Each acceptance of the occurrence is one that a sender owed, and a new  *)
(* debt needs a row that is free to be claimed: the first claim, the end   *)
(* of the debt of an earlier one, or a fault.                              *)
Owing == {d \in Sender : Current(d) /\ pc[d] \in {"post", "posting", "release"}}
Free == alert.status = "pending" /\ (alert.lease = 0 \/ StalledSenders = {})
Balance ==
    /\ IsFiniteSet(Owing)
    /\ accepted + Cardinality(Owing) + (IF Free THEN 1 ELSE 0) <= 1 + faults

IInv ==
    /\ TypeOK
    /\ \A d \in Sender : SenderInv(d)
    /\ TokensDiffer
    /\ OneSenderPerOccurrence
    /\ SentMeansDelivered
    /\ Balance
-----------------------------------------------------------------------------
(* What a row written without a claim looks like.                          *)
LEMMA UnclaimedRow ==
    ASSUME NEW status \in AlertStatus, DeliveryAssumption
    PROVE  /\ Unclaimed(status) \in Alert
           /\ Unclaimed(status).status = status
           /\ Unclaimed(status).lease = 0
           /\ Unclaimed(status).token = NoToken
BY DEF Unclaimed, Alert

LEMMA InitHolds == Init => IInv
<1> SUFFICES ASSUME Init PROVE IInv
  OBVIOUS
<1>1. /\ \A d \in Sender : /\ pc[d] = "idle" /\ token[d] = NoToken /\ timer[d] = 0
                           /\ claimed[d] = 0 /\ held[d] = 0
      /\ alert.status = "pending" /\ alert.lease = 0 /\ alert.token = NoToken
      /\ accepted = 0 /\ faults = 0 /\ occurrence = 1
  BY DEF Init
<1>2. TypeOK
  BY DeliveryAssumption DEF Init, TypeOK, Alert, AlertStatus, PC
<1>3. \A d \in Sender : ~Active(d) /\ SenderInv(d)
  BY <1>1 DEF Active, SenderInv
<1>4. Balance
  <2>1. Owing = {}
    BY <1>1 DEF Owing
  <2> QED BY <1>1, <2>1, FS_EmptySet DEF Balance
<1> QED BY <1>1, <1>2, <1>3, <1>4 DEF IInv, TokensDiffer, OneSenderPerOccurrence, SentMeansDelivered

(* The balance depends on the debts and on whether the row is free.        *)
LEMMA BalanceKept ==
    ASSUME Balance, TypeOK, Owing' \subseteq Owing,
           accepted' = accepted, faults' = faults, Free' => Free
    PROVE  Balance'
<1>1. IsFiniteSet(Owing') /\ Cardinality(Owing') <= Cardinality(Owing)
        /\ Cardinality(Owing) \in Nat /\ Cardinality(Owing') \in Nat
  BY FS_Subset, FS_CardinalityType DEF Balance
<1> QED BY <1>1 DEF Balance, TypeOK

(* What is said of one sender stays true while the sender and the row stay *)
(* as they are.                                                            *)
Same(d) == /\ pc'[d] = pc[d] /\ token'[d] = token[d]
           /\ claimed'[d] = claimed[d] /\ held'[d] = held[d]

LEMMA SenderKept ==
    ASSUME NEW d \in Sender, SenderInv(d), TypeOK, Same(d), occurrence' = occurrence,
           alert'.status = "pending" =>
             \/ alert' = alert
             \/ /\ alert.status = "pending"
                /\ Active(d) => token[d] # alert.token /\ token[d] # alert'.token,
           accepted' >= accepted, accepted' \in Nat
    PROVE  SenderInv(d)'
BY DEF SenderInv, Same, Active, HoldsClaim, Current, TypeOK

(* Only a claim gives a sender a token, and an occurrence, of its own.     *)
LEMMA PairsKept ==
    ASSUME TokensDiffer, OneSenderPerOccurrence,
           \A d \in Sender : Active(d)' =>
              /\ Active(d) /\ token'[d] = token[d] /\ claimed'[d] = claimed[d]
              /\ held[d] = Lease => held'[d] = Lease
    PROVE  TokensDiffer' /\ OneSenderPerOccurrence'
<1>1. TokensDiffer'
  BY DEF TokensDiffer
<1>2. OneSenderPerOccurrence'
  BY DEF OneSenderPerOccurrence
<1> QED BY <1>1, <1>2

(* The row is acknowledged, suppressed, resolved or deleted under senders. *)
LEMMA RowChangeKeeps ==
    ASSUME IInv, TypeOK', UNCHANGED <<sending, occurrence, accepted, faults>>,
           alert' = alert \/ alert'.status \notin {"pending", "sent"}
    PROVE  IInv'
<1>1. \A d \in Sender : Same(d) /\ (Active(d)' <=> Active(d))
  BY DEF sending, Same, Active
<1>2. ASSUME NEW d \in Sender PROVE SenderInv(d)'
  BY <1>1, SenderKept DEF IInv, TypeOK
<1>3. TokensDiffer' /\ OneSenderPerOccurrence'
  BY <1>1, PairsKept DEF IInv, Same
<1>4. SentMeansDelivered'
  BY DEF IInv, SentMeansDelivered
<1>5. Balance'
  <2>1. Owing' \subseteq Owing
    BY DEF Owing, Current, sending
  <2>2. Free' => Free
    BY <1>1 DEF Free, StalledSenders, HoldsClaim, Same
  <2> QED BY <2>1, <2>2, BalanceKept DEF IInv
<1> QED BY <1>2, <1>3, <1>4, <1>5 DEF IInv

LEMMA OperatorsKeep ==
    ASSUME IInv, \/ \E o \in Operator : OperatorReads(o) \/ OperatorWrites(o)
                 \/ Resolve \/ Delete
    PROVE  IInv'
<1> DEFINE Others == UNCHANGED <<sending, occurrence, accepted, faults>>
<1>1. ASSUME NEW o \in Operator, OperatorReads(o) PROVE IInv'
  <2>1. Others /\ alert' = alert /\ TypeOK'
    BY <1>1 DEF OperatorReads, sending, IInv, TypeOK, Alert
  <2> QED BY <2>1, RowChangeKeeps
<1>2. ASSUME NEW status \in AlertStatus \ {"pending", "sent"}, alert' = Unclaimed(status),
             Others, seen' \in [Operator -> AlertStatus]
      PROVE  IInv'
  <2>1. alert' \in Alert /\ alert'.status = status
    BY <1>2, UnclaimedRow, DeliveryAssumption
  <2>2. TypeOK'
    BY <1>2, <2>1 DEF sending, IInv, TypeOK
  <2> QED BY <1>2, <2>1, <2>2, RowChangeKeeps
<1>3. ASSUME NEW o \in Operator, OperatorWrites(o) PROVE IInv'
  <2>1. Others /\ seen' \in [Operator -> AlertStatus]
    BY <1>3 DEF OperatorWrites, IInv, TypeOK, AlertStatus
  <2>2. CASE UNCHANGED alert
    <3>1. TypeOK'
      BY <2>1, <2>2 DEF sending, IInv, TypeOK
    <3> QED BY <2>1, <2>2, <3>1, RowChangeKeeps
  <2>3. CASE \E to \in AlertStatus : OperatorTransition(seen[o], to) /\ alert' = Unclaimed(to)
    <3>1. PICK to \in AlertStatus : OperatorTransition(seen[o], to) /\ alert' = Unclaimed(to)
      BY <2>3
    <3>2. to \notin {"pending", "sent"}
      BY <3>1 DEF OperatorTransition, CanTransition
    <3> QED BY <1>2, <2>1, <3>1, <3>2
  <2> QED BY <1>3, <2>2, <2>3 DEF OperatorWrites
<1>4. CASE Resolve
  BY <1>2, <1>4 DEF Resolve, IInv, TypeOK, AlertStatus
<1>5. CASE Delete
  BY <1>2, <1>5 DEF Delete, IInv, TypeOK, AlertStatus
<1> QED BY <1>1, <1>3, <1>4, <1>5

(* A new occurrence: whatever senders hold belongs to an earlier one.      *)
LEMMA ReopenKeeps ==
    ASSUME IInv, Reopen
    PROVE  IInv'
<1>1. /\ alert'.status = "pending" /\ alert'.lease = 0 /\ alert'.token = NoToken /\ alert' \in Alert
      /\ occurrence' = occurrence + 1 /\ occurrence \in Nat /\ occurrence' \in 1 .. MaxOccurrence
      /\ accepted' = 0 /\ faults' = 0
  BY UnclaimedRow, DeliveryAssumption DEF Reopen, IInv, TypeOK, AlertStatus
<1>2. TypeOK'
  BY <1>1, DeliveryAssumption DEF Reopen, sending, IInv, TypeOK
<1>3. \A d \in Sender : Same(d) /\ (Active(d)' <=> Active(d))
  BY DEF Reopen, sending, Same, Active
<1>4. \A d \in Sender : claimed[d] \in Nat /\ claimed[d] <= occurrence
  BY DEF IInv, SenderInv, TypeOK
<1>5. ASSUME NEW d \in Sender PROVE ~Current(d)' /\ SenderInv(d)'
  <2>1. ~Current(d)' /\ claimed'[d] <= occurrence'
    BY <1>1, <1>3, <1>4 DEF Current, Same
  <2>2. ~(Active(d) /\ HoldsClaim(d))'
    BY <1>1, <1>3, DeliveryAssumption DEF HoldsClaim, IInv, SenderInv, Same
  <2> QED BY <1>3, <2>1, <2>2 DEF IInv, SenderInv, Same
<1>6. TokensDiffer' /\ OneSenderPerOccurrence'
  BY <1>3, PairsKept DEF IInv, Same
<1>7. SentMeansDelivered'
  BY <1>1 DEF SentMeansDelivered
<1>8. Balance'
  <2>1. Owing' = {}
    BY <1>5 DEF Owing
  <2> QED BY <1>1, <2>1, FS_EmptySet DEF Balance
<1> QED BY <1>2, <1>5, <1>6, <1>7, <1>8 DEF IInv

(* Time: a lease and what its holder has had of it add up to the lease.    *)
LEMMA TickKeeps ==
    ASSUME IInv, Tick
    PROVE  IInv'
<1>1. /\ alert'.status = alert.status /\ alert'.token = alert.token /\ alert'.lease = Less(alert.lease)
      /\ alert.lease \in 0 .. Lease /\ Lease \in Nat /\ alert' \in Alert
  BY DeliveryAssumption DEF Tick, Less, IInv, TypeOK, Alert
<1>2. UNCHANGED <<pc, token, seen, occurrence, claimed, accepted>>
  BY DEF Tick
<1>3. \A d \in Sender : /\ held[d] \in 0 .. Lease
                        /\ held'[d] = IF Active(d) /\ held[d] < Lease THEN held[d] + 1 ELSE held[d]
  BY DEF Tick, IInv, TypeOK
<1>4. TypeOK'
  <2>1. timer' \in [Sender -> 0 .. Timeout]
    BY DeliveryAssumption DEF Tick, Less, IInv, TypeOK
  <2>2. held' \in [Sender -> 0 .. Lease]
    BY <1>1 DEF Tick, IInv, TypeOK
  <2>3. faults' \in 0 .. MaxFaults
    BY DeliveryAssumption DEF Tick, IInv, TypeOK
  <2> QED BY <1>1, <1>2, <2>1, <2>2, <2>3 DEF IInv, TypeOK
<1>5. ASSUME NEW d \in Sender PROVE SenderInv(d)'
  <2>1. SenderInv(d)
    BY DEF IInv
  <2>2. (Active(d)' <=> Active(d)) /\ (HoldsClaim(d)' <=> HoldsClaim(d)) /\ (Current(d)' <=> Current(d))
    BY <1>1, <1>2 DEF Active, HoldsClaim, Current
  <2>3. ~Active(d) => held'[d] = held[d]
    BY <1>3
  <2>4. Active(d) /\ Current(d) /\ alert.status = "pending" =>
           \/ HoldsClaim(d) /\ held'[d] + alert'.lease = Lease
           \/ held'[d] = Lease
    <3> SUFFICES ASSUME Active(d), Current(d), alert.status = "pending"
                 PROVE  \/ HoldsClaim(d) /\ held'[d] + alert'.lease = Lease
                        \/ held'[d] = Lease
      OBVIOUS
    <3>1. CASE held[d] = Lease
      BY <1>1, <1>3, <3>1
    <3>2. CASE HoldsClaim(d) /\ held[d] + alert.lease = Lease /\ held[d] # Lease
      <4>1. held[d] < Lease /\ alert.lease > 0
        BY <1>1, <1>3, <3>2
      <4>2. held'[d] = held[d] + 1 /\ alert'.lease = alert.lease - 1
        BY <1>1, <1>3, <4>1 DEF Less
      <4> QED BY <1>1, <1>3, <3>2, <4>2
    <3> QED BY <2>1, <3>1, <3>2 DEF SenderInv
  <2> QED BY <1>1, <1>2, <2>1, <2>2, <2>3, <2>4 DEF SenderInv
<1>6. TokensDiffer' /\ OneSenderPerOccurrence'
  <2>1. \A d \in Sender : Active(d)' =>
              /\ Active(d) /\ token'[d] = token[d] /\ claimed'[d] = claimed[d]
              /\ held[d] = Lease => held'[d] = Lease
    BY <1>1, <1>2, <1>3 DEF Active
  <2> QED BY <2>1, PairsKept DEF IInv
<1>7. SentMeansDelivered'
  BY <1>1, <1>2 DEF IInv, SentMeansDelivered
<1>8. Balance'
  <2>1. Owing' = Owing /\ StalledSenders' = StalledSenders
    BY <1>1, <1>2 DEF Owing, Current, StalledSenders, HoldsClaim, Active
  <2>2. IsFiniteSet(Owing) /\ Cardinality(Owing) \in Nat /\ accepted \in Nat /\ faults \in Nat
          /\ accepted + Cardinality(Owing) + (IF Free THEN 1 ELSE 0) <= 1 + faults
    BY FS_CardinalityType DEF IInv, Balance, TypeOK
  <2>3. CASE alert.lease = 1 /\ StalledSenders # {}
    <3>1. faults' = faults + 1
      BY <2>3 DEF Tick
    <3>2. accepted' + Cardinality(Owing') + (IF Free' THEN 1 ELSE 0) <= 1 + faults'
      <4>1. accepted + Cardinality(Owing) + 1 <= 1 + (faults + 1)
        <5>1. CASE Free
          BY <2>2, <5>1
        <5>2. CASE ~Free
          BY <2>2, <5>2
        <5> QED BY <5>1, <5>2
      <4>2. CASE Free'
        BY <1>2, <2>1, <3>1, <4>1, <4>2
      <4>3. CASE ~Free'
        BY <1>2, <2>1, <2>2, <3>1, <4>1, <4>3
      <4> QED BY <4>2, <4>3
    <3> QED BY <2>1, <2>2, <3>2 DEF Balance
  <2>4. CASE ~(alert.lease = 1 /\ StalledSenders # {})
    <3>1. faults' = faults
      BY <2>4 DEF Tick
    <3>2. Free' => Free
      BY <1>1, <2>1, <2>4 DEF Free, Less
    <3> QED BY <1>2, <2>1, <3>1, <3>2, BalanceKept DEF IInv
  <2> QED BY <2>3, <2>4
<1> QED BY <1>4, <1>5, <1>6, <1>7, <1>8 DEF IInv
-----------------------------------------------------------------------------
(* The steps of one sender leave the others alone.                         *)
Alone(d) == \A e \in Sender \ {d} : Same(e)

LEMMA OthersKept ==
    ASSUME NEW d \in Sender, IInv, Alone(d), occurrence' = occurrence, accepted' \in Nat,
           accepted' >= accepted,
           \/ alert' = alert
           \/ alert'.status # "pending"
           \/ alert'.token = NoToken /\ HoldsClaim(d) /\ Active(d)
    PROVE  \A e \in Sender \ {d} : SenderInv(e)'
<1> SUFFICES ASSUME NEW e \in Sender \ {d} PROVE SenderInv(e)'
  OBVIOUS
<1>1. SenderInv(e) /\ Same(e) /\ TypeOK
  BY DEF IInv, Alone
<1>2. CASE alert'.token = NoToken /\ HoldsClaim(d) /\ Active(d)
  <2>1. alert.status = "pending" /\ token[d] = alert.token
    BY <1>2 DEF HoldsClaim
  <2>2. Active(e) => token[e] # token[d] /\ token[e] \in Token
    BY <1>1, <1>2 DEF IInv, TokensDiffer, SenderInv
  <2> QED BY <1>1, <1>2, <2>1, <2>2, SenderKept, DeliveryAssumption
<1>3. CASE alert' = alert \/ alert'.status # "pending"
  BY <1>1, <1>3, SenderKept
<1> QED BY <1>2, <1>3

LEMMA DebtPaid ==
    ASSUME NEW d \in Owing, IsFiniteSet(Owing), Owing' = Owing \ {d}
    PROVE  /\ IsFiniteSet(Owing') /\ Cardinality(Owing') \in Nat /\ Cardinality(Owing) \in Nat
           /\ Cardinality(Owing') = Cardinality(Owing) - 1
BY FS_RemoveElement, FS_CardinalityType

(* A sender goes on with what it holds.                                    *)
Progress(d) == /\ UNCHANGED <<alert, token, seen, occurrence, claimed, held>>
               /\ Alone(d) /\ pc' = [pc EXCEPT ![d] = pc'[d]]

LEMMA ProgressKeeps ==
    ASSUME NEW d \in Sender, IInv, Progress(d), TypeOK', Active(d)' <=> Active(d),
           accepted' >= accepted,
           (pc'[d] = "complete" /\ Current(d)) => accepted' > 0,
           IsFiniteSet(Owing'),
           accepted' + Cardinality(Owing') <= accepted + Cardinality(Owing) + (faults' - faults),
           accepted' + Cardinality(Owing') \in Nat
    PROVE  IInv'
<1>1. \A e \in Sender : Active(e)' <=> Active(e)
  BY DEF Progress, Alone, Same, Active
<1>2. SenderInv(d)'
  BY <1>1 DEF IInv, SenderInv, Progress, Current, HoldsClaim
<1>3. \A e \in Sender : SenderInv(e)'
  <2>1. Alone(d) /\ occurrence' = occurrence /\ alert' = alert /\ accepted' \in Nat
    BY DEF Progress, TypeOK
  <2>2. accepted' >= accepted
    OBVIOUS
  <2>3. \A e \in Sender \ {d} : SenderInv(e)'
    BY <2>1, <2>2, OthersKept
  <2> QED BY <1>2, <2>3
<1>4. TokensDiffer' /\ OneSenderPerOccurrence'
  BY <1>1, PairsKept DEF IInv, Progress
<1>5. SentMeansDelivered'
  BY DEF IInv, SentMeansDelivered, Progress, TypeOK
<1>6. Balance'
  <2>1. Free' <=> Free
    BY <1>1 DEF Progress, Free, StalledSenders, HoldsClaim
  <2>2. Cardinality(Owing) \in Nat /\ accepted \in Nat /\ faults \in Nat /\ faults' \in Nat
    BY FS_CardinalityType DEF IInv, Balance, TypeOK
  <2>3. accepted + Cardinality(Owing) + (IF Free THEN 1 ELSE 0) <= 1 + faults
    BY DEF IInv, Balance
  <2>4. accepted' + Cardinality(Owing') + (IF Free' THEN 1 ELSE 0) <= 1 + faults'
    <3>1. CASE Free
      BY <2>1, <2>2, <2>3, <3>1
    <3>2. CASE ~Free
      BY <2>1, <2>2, <2>3, <3>2
    <3> QED BY <3>1, <3>2
  <2> QED BY <2>4 DEF Balance
<1> QED BY <1>3, <1>4, <1>5, <1>6 DEF IInv

LEMMA PostingKeeps ==
    ASSUME NEW d \in Sender, IInv, Start(d) \/ Post(d) \/ PostSucceeds(d) \/ PostFails(d)
    PROVE  IInv'
<1>1. Progress(d)
  BY DEF Start, Post, PostSucceeds, PostFails, Goto, Progress, Alone, Same, IInv, TypeOK
<1>2. IsFiniteSet(Owing) /\ Cardinality(Owing) \in Nat /\ TypeOK /\ accepted \in Nat /\ faults \in Nat
  BY FS_CardinalityType DEF IInv, Balance, TypeOK
<1>3. \A e \in Sender : e # d => (e \in Owing' <=> e \in Owing)
  BY <1>1 DEF Progress, Alone, Same, Owing, Current
<1>4. Current(d)' <=> Current(d)
  BY <1>1 DEF Progress, Current
<1>5. CASE Start(d)
  <2>1. TypeOK' /\ pc[d] = "idle" /\ pc'[d] = "claim" /\ accepted' = accepted /\ faults' = faults
    BY <1>2, <1>5 DEF Start, Goto, TypeOK, PC
  <2>2. Owing' = Owing
    BY <1>3, <2>1 DEF Owing
  <2> QED BY <1>1, <1>2, <2>1, <2>2, ProgressKeeps DEF Active
<1>6. CASE Post(d)
  <2>1. TypeOK' /\ pc[d] = "post" /\ pc'[d] = "posting" /\ accepted' = accepted /\ faults' = faults
    BY <1>2, <1>6, DeliveryAssumption DEF Post, Goto, TypeOK, PC
  <2>2. Owing' = Owing
    BY <1>3, <1>4, <2>1 DEF Owing
  <2> QED BY <1>1, <1>2, <2>1, <2>2, ProgressKeeps DEF Active
<1>7. CASE PostSucceeds(d)
  <2>1. /\ TypeOK' /\ pc[d] = "posting" /\ pc'[d] = "complete" /\ faults' = faults
        /\ accepted' = IF Current(d) THEN accepted + 1 ELSE accepted
    BY <1>2, <1>7, DeliveryAssumption DEF PostSucceeds, Accept, Goto, TypeOK, PC
  <2>2. CASE Current(d)
    <3>1. d \in Owing /\ Owing' = Owing \ {d}
      BY <1>3, <2>1, <2>2 DEF Owing
    <3>2. /\ IsFiniteSet(Owing') /\ Cardinality(Owing') \in Nat
          /\ Cardinality(Owing') = Cardinality(Owing) - 1
      BY <1>2, <3>1, DebtPaid
    <3>3. Active(d)' <=> Active(d)
      BY <2>1 DEF Active
    <3>4. accepted' = accepted + 1
      BY <2>1, <2>2
    <3>5. /\ accepted' + Cardinality(Owing') \in Nat /\ accepted' >= accepted /\ accepted' > 0
          /\ accepted' + Cardinality(Owing') <= accepted + Cardinality(Owing) + (faults' - faults)
      BY <1>2, <2>1, <3>2, <3>4
    <3> QED BY <1>1, <2>1, <3>2, <3>3, <3>5, ProgressKeeps
  <2>3. CASE ~Current(d)
    <3>1. Owing' = Owing
      BY <1>3, <1>4, <2>3 DEF Owing
    <3> QED BY <1>1, <1>2, <2>1, <2>3, <3>1, ProgressKeeps DEF Active
  <2> QED BY <2>2, <2>3
<1>8. CASE PostFails(d)
  <2>1. /\ pc[d] = "posting" /\ pc'[d] = "release"
        /\ \/ accepted' = accepted /\ faults' = faults
           \/ Current(d) /\ accepted' = accepted + 1 /\ faults' = faults + 1
    BY <1>2, <1>8 DEF PostFails, Accept, Fault, Goto, TypeOK
  <2>2. TypeOK'
    <3>1. faults' \in 0 .. MaxFaults /\ accepted' \in Nat
      BY <1>2, <1>8, DeliveryAssumption DEF PostFails, Accept, Fault, TypeOK
    <3> QED BY <1>2, <1>8, <3>1, DeliveryAssumption DEF PostFails, Goto, TypeOK, PC
  <2>3. Owing' = Owing
    BY <1>3, <1>4, <2>1 DEF Owing
  <2> QED BY <1>1, <1>2, <2>1, <2>2, <2>3, ProgressKeeps DEF Active
<1> QED BY <1>5, <1>6, <1>7, <1>8

(* A claim takes the row when it is free, and no token is given twice.     *)
LEMMA ClaimKeeps ==
    ASSUME NEW d \in Sender, IInv, Claimable, pc[d] = "claim",
           NEW t \in Token \ ({alert.token} \cup {token[x] : x \in Sender}),
           alert' = [status |-> alert.status, lease |-> Lease, token |-> t],
           token' = [token EXCEPT ![d] = t],
           claimed' = [claimed EXCEPT ![d] = occurrence],
           Goto(d, "post"), UNCHANGED <<timer, held, seen, occurrence, accepted, faults>>
    PROVE  IInv'
<1>1. /\ TypeOK /\ alert.status = "pending" /\ alert.lease = 0 /\ Lease \in Nat /\ Lease > 0
      /\ alert' \in Alert
  BY DeliveryAssumption DEF IInv, TypeOK, Claimable, Alert
<1>2. /\ pc' = [pc EXCEPT ![d] = "post"] /\ ~Active(d) /\ Active(d)'
      /\ \A e \in Sender \ {d} : Same(e) /\ (Active(e)' <=> Active(e))
  BY <1>1 DEF Goto, Active, Same, TypeOK
<1>3. TypeOK'
  BY <1>1, <1>2, DeliveryAssumption DEF TypeOK, PC
<1>4. token'[d] = t /\ claimed'[d] = occurrence /\ held'[d] = 0 /\ pc'[d] = "post"
  BY <1>1, <1>2 DEF TypeOK, IInv, SenderInv
<1>5. \A e \in Sender \ {d} : token[e] # t
  OBVIOUS
<1>6. ASSUME NEW e \in Sender \ {d} PROVE Active(e) /\ Current(e) => held[e] = Lease
  BY <1>1 DEF IInv, SenderInv, TypeOK
<1>7. SenderInv(d)'
  BY <1>1, <1>2, <1>4 DEF SenderInv, Current, TypeOK, HoldsClaim
<1>8. ASSUME NEW e \in Sender \ {d} PROVE SenderInv(e)'
  <2>1. ~HoldsClaim(e)'
    BY <1>2, <1>5 DEF HoldsClaim, Same
  <2>2. Current(e)' <=> Current(e)
    BY <1>2 DEF Current, Same
  <2>3. SenderInv(e) /\ Same(e) /\ (Active(e)' <=> Active(e))
    BY <1>2 DEF IInv
  <2> QED BY <1>6, <2>1, <2>2, <2>3 DEF SenderInv, Same
<1>9. TokensDiffer'
  BY <1>2, <1>4, <1>5 DEF IInv, TokensDiffer, Same
<1>10. OneSenderPerOccurrence'
  <2>1. \A e \in Sender \ {d} : Active(e)' /\ claimed'[e] = occurrence => held'[e] = Lease
    BY <1>2, <1>6 DEF Same, Current
  <2>2. \A e, f \in Sender \ {d} : e # f /\ Active(e)' /\ Active(f)' /\ claimed'[e] = claimed'[f] =>
           held'[e] = Lease \/ held'[f] = Lease
    BY <1>2 DEF Same, IInv, OneSenderPerOccurrence
  <2> QED BY <1>4, <2>1, <2>2 DEF OneSenderPerOccurrence
<1>11. SentMeansDelivered'
  BY <1>1 DEF SentMeansDelivered
<1>12. Balance'
  <2>1. Owing' = Owing \cup {d} /\ d \notin Owing
    BY <1>2, <1>4 DEF Owing, Current, Same
  <2>2. /\ IsFiniteSet(Owing') /\ Cardinality(Owing') = Cardinality(Owing) + 1
        /\ Cardinality(Owing) \in Nat
    BY <2>1, FS_AddElement, FS_CardinalityType DEF IInv, Balance
  <2>3. Free /\ ~Free'
    BY <1>1, <1>2, <1>4 DEF Free, StalledSenders, HoldsClaim
  <2>4. accepted + Cardinality(Owing) + 1 <= 1 + faults
    BY <2>3 DEF IInv, Balance
  <2> QED BY <1>1, <2>2, <2>3, <2>4 DEF Balance, TypeOK
<1> QED BY <1>3, <1>7, <1>8, <1>9, <1>10, <1>11, <1>12 DEF IInv

(* A sender that stops gives up its token and its occurrence.              *)
LEMMA StopKeeps ==
    ASSUME NEW d \in Sender, IInv, Stop(d), occurrence' = occurrence, seen' = seen,
           alert' \in Alert, accepted' \in Nat, accepted' >= accepted, faults' \in 0 .. MaxFaults,
           \/ alert' = alert
           \/ alert'.status = "sent" /\ accepted > 0
           \/ alert'.status = "pending" /\ alert'.token = NoToken /\ HoldsClaim(d) /\ Active(d),
           Balance'
    PROVE  IInv'
<1>1. /\ TypeOK /\ pc'[d] = "idle" /\ token'[d] = NoToken /\ claimed'[d] = 0 /\ held'[d] = 0
      /\ Alone(d)
  BY DEF Stop, IInv, TypeOK, Alone, Same
<1>2. TypeOK'
  BY <1>1, DeliveryAssumption DEF Stop, TypeOK, PC
<1>3. ~Active(d)' /\ SenderInv(d)'
  BY <1>1 DEF Active, SenderInv, TypeOK
<1>4. \A e \in Sender \ {d} : SenderInv(e)'
  BY <1>1, OthersKept
<1>5. TokensDiffer' /\ OneSenderPerOccurrence'
  <2>1. \A e \in Sender : Active(e)' => Active(e) /\ Same(e)
    BY <1>1, <1>3 DEF Alone, Same, Active
  <2> QED BY <2>1, PairsKept DEF IInv, Same
<1>6. SentMeansDelivered'
  BY <1>1 DEF IInv, SentMeansDelivered, TypeOK
<1> QED BY <1>2, <1>3, <1>4, <1>5, <1>6 DEF IInv

(* Where the debts of the other senders stay as they are.                  *)
LEMMA StopDebts ==
    ASSUME NEW d \in Sender, IInv, Stop(d), occurrence' = occurrence
    PROVE  /\ Owing' = Owing \ {d}
           /\ IsFiniteSet(Owing') /\ Cardinality(Owing') \in Nat /\ Cardinality(Owing) \in Nat
           /\ Cardinality(Owing') = Cardinality(Owing) - (IF d \in Owing THEN 1 ELSE 0)
           /\ accepted \in Nat /\ faults \in Nat
           /\ accepted + Cardinality(Owing) + (IF Free THEN 1 ELSE 0) <= 1 + faults
           /\ (alert' = alert /\ ~(Active(d) /\ HoldsClaim(d))) => (Free' <=> Free)
<1>1. TypeOK /\ pc'[d] = "idle" /\ Alone(d)
  BY DEF Stop, IInv, TypeOK, Alone, Same
<1>2. Owing' = Owing \ {d}
  BY <1>1 DEF Owing, Alone, Same, Current
<1>3. /\ IsFiniteSet(Owing) /\ accepted \in Nat /\ faults \in Nat /\ Cardinality(Owing) \in Nat
      /\ accepted + Cardinality(Owing) + (IF Free THEN 1 ELSE 0) <= 1 + faults
  BY FS_CardinalityType DEF IInv, Balance, TypeOK
<1>4. /\ IsFiniteSet(Owing') /\ Cardinality(Owing') \in Nat
      /\ Cardinality(Owing') = Cardinality(Owing) - (IF d \in Owing THEN 1 ELSE 0)
  <2>1. CASE d \in Owing
    BY <1>2, <1>3, <2>1, DebtPaid
  <2>2. CASE d \notin Owing
    <3>1. Owing' = Owing
      BY <1>2, <2>2
    <3> QED BY <1>3, <2>2, <3>1
  <2> QED BY <2>1, <2>2
<1>5. ASSUME alert' = alert, ~(Active(d) /\ HoldsClaim(d)) PROVE Free' <=> Free
  <2>1. StalledSenders' = StalledSenders
    BY <1>1, <1>5 DEF StalledSenders, Active, HoldsClaim, Alone, Same
  <2> QED BY <1>5, <2>1 DEF Free
<1> QED BY <1>2, <1>3, <1>4, <1>5

LEMMA EndingKeeps ==
    ASSUME NEW d \in Sender, IInv,
           \/ pc[d] = "claim" /\ Stop(d) /\ UNCHANGED <<alert, seen, occurrence, accepted, faults>>
           \/ Complete(d) \/ Release(d) \/ Crash(d)
    PROVE  IInv'
<1>1. TypeOK /\ alert \in Alert /\ SenderInv(d) /\ accepted \in Nat /\ faults \in 0 .. MaxFaults
  BY DEF IInv, TypeOK
<1>2. Stop(d) /\ occurrence' = occurrence /\ seen' = seen
  BY DEF Complete, Release, Crash
<1>3. /\ IsFiniteSet(Owing') /\ Cardinality(Owing') \in Nat /\ Cardinality(Owing) \in Nat
      /\ Cardinality(Owing') = Cardinality(Owing) - (IF d \in Owing THEN 1 ELSE 0)
      /\ faults \in Nat
      /\ accepted + Cardinality(Owing) + (IF Free THEN 1 ELSE 0) <= 1 + faults
      /\ (alert' = alert /\ ~(Active(d) /\ HoldsClaim(d))) => (Free' <=> Free)
  BY <1>2, StopDebts
<1>4. ASSUME alert' = alert, ~(Active(d) /\ HoldsClaim(d)), accepted' = accepted, faults' = faults
      PROVE  IInv'
  <2>1. Balance'
    <3>1. accepted + Cardinality(Owing') + (IF Free' THEN 1 ELSE 0) <= 1 + faults
      BY <1>1, <1>3, <1>4
    <3> QED BY <1>3, <1>4, <3>1 DEF Balance
  <2> QED BY <1>1, <1>2, <1>4, <2>1, StopKeeps
<1>5. CASE pc[d] = "claim" /\ UNCHANGED <<alert, accepted, faults>>
  BY <1>4, <1>5 DEF Active
<1>6. CASE Complete(d)
  <2>1. pc[d] = "complete" /\ Active(d) /\ accepted' = accepted /\ faults' = faults
    BY <1>6 DEF Complete, Active
  <2>2. CASE HoldsClaim(d)
    <3>1. alert' \in Alert /\ alert'.status = "sent"
      BY <1>6, <2>2, UnclaimedRow, DeliveryAssumption DEF Complete, AlertStatus
    <3>2. accepted > 0
      BY <1>1, <2>1, <2>2 DEF SenderInv
    <3>3. Balance'
      <4>1. ~Free'
        BY <3>1 DEF Free
      <4>2. accepted + Cardinality(Owing') <= 1 + faults
        BY <1>1, <1>3
      <4>3. accepted' + Cardinality(Owing') + (IF Free' THEN 1 ELSE 0) <= 1 + faults'
        BY <1>1, <1>3, <2>1, <4>1, <4>2
      <4> QED BY <1>3, <4>3 DEF Balance
    <3> QED BY <1>1, <1>2, <2>1, <3>1, <3>2, <3>3, StopKeeps
  <2>3. CASE ~HoldsClaim(d)
    BY <1>4, <1>6, <2>1, <2>3 DEF Complete
  <2> QED BY <2>2, <2>3
<1>7. CASE Release(d)
  <2>1. pc[d] = "release" /\ Active(d) /\ accepted' = accepted /\ faults' = faults
    BY <1>7 DEF Release, Active
  <2>2. CASE HoldsClaim(d)
    <3>1. alert' \in Alert /\ alert'.status = "pending" /\ alert'.token = NoToken
      BY <1>7, <2>2, UnclaimedRow, DeliveryAssumption DEF Release, AlertStatus
    <3>2. d \in Owing
      BY <1>1, <2>1, <2>2 DEF SenderInv, Owing
    <3>3. Balance'
      <4>1. accepted + Cardinality(Owing') + 1 <= 1 + faults
        BY <1>1, <1>3, <3>2
      <4>2. accepted + Cardinality(Owing') + (IF Free' THEN 1 ELSE 0) <= 1 + faults
        BY <1>1, <1>3, <4>1
      <4> QED BY <1>3, <2>1, <4>2 DEF Balance
    <3> QED BY <1>1, <1>2, <2>1, <2>2, <3>1, <3>3, StopKeeps
  <2>3. CASE ~HoldsClaim(d)
    BY <1>4, <1>7, <2>1, <2>3 DEF Release
  <2> QED BY <2>2, <2>3
<1>8. CASE Crash(d)
  <2>1. /\ Active(d) /\ alert' = alert
        /\ \/ accepted' = accepted
           \/ pc[d] = "posting" /\ accepted' = IF Current(d) THEN accepted + 1 ELSE accepted
        /\ IF Current(d) THEN faults' = faults + 1 /\ faults < MaxFaults ELSE faults' = faults
    BY <1>8 DEF Crash, Fault, Accept
  <2>2. CASE Current(d)
    <3>1. accepted' = accepted \/ (d \in Owing /\ accepted' = accepted + 1)
      BY <2>1, <2>2 DEF Owing
    <3>2. faults' = faults + 1 /\ faults' \in 0 .. MaxFaults
      BY <1>1, <2>1, <2>2, DeliveryAssumption
    <3>3. accepted' \in Nat /\ accepted' >= accepted
      BY <1>1, <3>1
    <3>4. Balance'
      <4>1. accepted' + Cardinality(Owing') <= 1 + faults
        BY <1>1, <1>3, <3>1
      <4>2. accepted' + Cardinality(Owing') + (IF Free' THEN 1 ELSE 0) <= 1 + faults'
        BY <1>3, <3>2, <3>3, <4>1
      <4> QED BY <1>3, <4>2 DEF Balance
    <3> QED BY <1>1, <1>2, <2>1, <3>2, <3>3, <3>4, StopKeeps
  <2>3. CASE ~Current(d)
    BY <1>1, <1>4, <2>1, <2>3 DEF SenderInv
  <2> QED BY <2>2, <2>3
<1> QED BY <1>5, <1>6, <1>7, <1>8
-----------------------------------------------------------------------------
LEMMA StepKeeps == IInv /\ [Next]_vars => IInv'
<1> SUFFICES ASSUME IInv, [Next]_vars PROVE IInv'
  OBVIOUS
<1>1. CASE UNCHANGED vars
  BY <1>1 DEF vars, IInv, TypeOK, SenderInv, TokensDiffer, OneSenderPerOccurrence,
              SentMeansDelivered, Balance, Owing, Free, StalledSenders, Active, Current, HoldsClaim
<1>2. ASSUME NEW d \in Sender, SenderStep(d) PROVE IInv'
  <2>1. CASE Start(d) \/ Post(d) \/ PostSucceeds(d) \/ PostFails(d)
    BY <2>1, PostingKeeps
  <2>2. CASE Claim(d)
    <3>1. CASE Claimable
      <4>1. PICK t \in Token \ ({alert.token} \cup {token[x] : x \in Sender}) :
               /\ alert' = [status |-> alert.status, lease |-> Lease, token |-> t]
               /\ token' = [token EXCEPT ![d] = t]
        BY <2>2, <3>1 DEF Claim
      <4> QED BY <2>2, <3>1, <4>1, ClaimKeeps DEF Claim
    <3>2. CASE ~Claimable
      BY <2>2, <3>2, EndingKeeps DEF Claim
    <3> QED BY <3>1, <3>2
  <2>3. CASE Complete(d) \/ Release(d) \/ Crash(d)
    BY <2>3, EndingKeeps
  <2> QED BY <1>2, <2>1, <2>2, <2>3 DEF SenderStep
<1>3. CASE \/ \E o \in Operator : OperatorReads(o) \/ OperatorWrites(o)
           \/ Resolve \/ Delete
  BY <1>3, OperatorsKeep
<1>4. CASE Reopen
  BY <1>4, ReopenKeeps
<1>5. CASE Tick
  BY <1>5, TickKeeps
<1> QED BY <1>1, <1>2, <1>3, <1>4, <1>5 DEF Next

LEMMA Invariant == Spec => []IInv
BY InitHolds, StepKeeps, PTL DEF Spec

\* The alert and its senders keep their types: only a pending row carries a claim,
\* and no post outlives its abort.
THEOREM TypeCorrect == Spec => []TypeOK
BY Invariant, PTL DEF IInv

\* A row says "sent" only when the webhook of this occurrence was accepted,
\* whatever number of senders, operators and crashes there is.
THEOREM SentWasDelivered == Spec => []SentMeansDelivered
BY Invariant, PTL DEF IInv

\* Two senders are busy with one occurrence only if one of them has had its claim
\* for the whole lease.
THEOREM NobodySendsBeside == Spec => []OneSenderPerOccurrence
BY Invariant, PTL DEF IInv

\* Duplicates of a notification never outnumber the faults of its claims.
THEOREM DuplicatesAreFaults == Spec => []DuplicatesNeedFaults
<1>1. IInv => DuplicatesNeedFaults
  BY FS_CardinalityType DEF IInv, Balance, TypeOK, DuplicatesNeedFaults
<1> QED BY <1>1, Invariant, PTL

-----------------------------------------------------------------------------
(* A legal move of the alert is an answer in AlertLifecycle.               *)
LEMMA AnswersAreMoves ==
    ASSUME NEW to \in AlertStatus, AlertTransition(alert.status, to), alert'.status = to
    PROVE  Alerts!Answer
<1>1. to \in Alerts!AlertStatus
  BY DEF AlertStatus, Alerts!AlertStatus
<1>2. Alerts!AlertTransition(alert.status, to)
  BY DEF AlertTransition, OperatorTransition, CanTransition,
         Alerts!AlertTransition, Alerts!OperatorTransition, Alerts!CanTransition
<1> QED BY <1>1, <1>2 DEF Alerts!Answer

(* Every step moves the alert as AlertLifecycle allows.                    *)
LEMMA AlertMoves == IInv /\ [Next]_vars => [Alerts!Next]_(alert.status)
<1> SUFFICES ASSUME IInv, [Next]_vars, alert'.status # alert.status
             PROVE  Alerts!Next
  OBVIOUS
<1>1. alert.status \in AlertStatus /\ DeliveryAssumption
  BY DeliveryAssumption DEF IInv, TypeOK, Alert
<1>2. ASSUME NEW d \in Sender, SenderStep(d) PROVE Alerts!Answer
  <2>1. Complete(d) /\ HoldsClaim(d)
    <3>1. ~(Start(d) \/ Post(d) \/ PostSucceeds(d) \/ PostFails(d) \/ Crash(d))
      BY DEF Start, Post, PostSucceeds, PostFails, Crash
    <3>2. ~Claim(d)
      BY DEF Claim
    <3>3. ~Release(d)
      BY <1>1, UnclaimedRow DEF Release, HoldsClaim, AlertStatus
    <3>4. Complete(d)
      BY <1>2, <3>1, <3>2, <3>3 DEF SenderStep
    <3> QED BY <3>4 DEF Complete
  <2>2. alert.status = "pending" /\ alert' = Unclaimed("sent") /\ "sent" \in AlertStatus
    BY <2>1 DEF Complete, HoldsClaim, AlertStatus
  <2>3. alert'.status = "sent"
    BY <1>1, <2>2, UnclaimedRow
  <2> QED BY <2>2, <2>3, AnswersAreMoves DEF AlertTransition
<1>3. ASSUME NEW o \in Operator, OperatorWrites(o) PROVE Alerts!Answer
  <2>1. PICK to \in AlertStatus : /\ alert.status = seen[o]
                                  /\ OperatorTransition(seen[o], to)
                                  /\ alert' = Unclaimed(to)
    BY <1>3 DEF OperatorWrites, StillAsRead
  <2>2. alert'.status = to
    BY <1>1, <2>1, UnclaimedRow
  <2> QED BY <2>1, <2>2, AnswersAreMoves DEF AlertTransition
<1>4. ~(\E o \in Operator : OperatorReads(o))
  BY DEF OperatorReads
<1>5. CASE Resolve
  <2>1. alert'.status = "resolved"
    BY <1>1, <1>5, UnclaimedRow DEF Resolve, AlertStatus
  <2> QED BY <1>5, <2>1 DEF Resolve, Alerts!Next, Alerts!Close
<1>6. CASE Reopen
  <2>1. alert'.status = "pending"
    BY <1>1, <1>6, UnclaimedRow DEF Reopen, AlertStatus
  <2> QED BY <1>6, <2>1 DEF Reopen, Alerts!Next, Alerts!Notify
<1>7. CASE Delete
  <2>1. alert'.status = "none"
    BY <1>1, <1>7, UnclaimedRow DEF Delete, AlertStatus
  <2> QED BY <1>7, <2>1 DEF Delete, Alerts!Next, Alerts!Delete
<1>8. ~Tick
  BY DEF Tick, IInv, TypeOK, Alert
<1>9. ~UNCHANGED vars
  BY DEF vars
<1> QED BY <1>2, <1>3, <1>4, <1>5, <1>6, <1>7, <1>8, <1>9 DEF Next, Alerts!Next

\* The delivery implements the life of an alert that ConditionStore takes for
\* granted: of all that senders and operators decide on a row they read earlier,
\* only legal moves of the row as it now is come through.
THEOREM DeliveryRefinement == Spec => ImplementsAlertLifecycle
<1>1. Init => Alerts!Init
  BY DEF Init, Alerts!Init
<1> QED BY <1>1, AlertMoves, Invariant, PTL DEF Spec, ImplementsAlertLifecycle, Alerts!Spec
=============================================================================
