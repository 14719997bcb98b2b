---------------------------- MODULE AdmissionProofs ----------------------------
(* What decides that a call is let through: the idempotency keys of the MCP  *)
(* commands, for every set of callers, keys and inputs; the token bucket of  *)
(* the scan quota and of the collector's rate limiter, for every size and    *)
(* window; and the circuit breaker of the collector proxy, for every         *)
(* threshold and cooldown and every pattern of requests.                     *)
EXTENDS McpCommands, TokenBucket, CollectorCircuit, TLAPS


(* A caller owns the command of its key from its insert to its completion: *)
(* nobody else may perform it.                                             *)
Owns(c) == pc[c] \in {"charge", "perform", "complete"}

OwnerFacts(c) ==
    Owns(c) =>
        /\ command[KeyOf(c)].status = "PENDING"
        /\ command[KeyOf(c)].input = InputOf(c)
        /\ pc[c] = "charge" => charged[KeyOf(c)] = 0
        /\ pc[c] \in {"charge", "perform"} => effects[KeyOf(c)] = 0
        /\ pc[c] = "complete" => /\ result[c] \in Response
                                 /\ result[c] = "ok" => effects[KeyOf(c)] = 1

OneOwner == \A c, d \in Caller : c # d /\ Owns(c) /\ Owns(d) => KeyOf(c) # KeyOf(d)

RowFacts(k) ==
    /\ command[k].status = "NONE" => effects[k] = 0 /\ charged[k] = 0
    /\ command[k].status = "COMPLETED" => command[k].response = "ok" /\ effects[k] = 1
    /\ command[k].status = "FAILED" => command[k].response = "error"

IInv ==
    /\ TypeOK
    /\ \A c \in Caller : OwnerFacts(c)
    /\ OneOwner
    /\ \A k \in Key : RowFacts(k)
    /\ CommandRunsOnce
    /\ AnswersAgree

-----------------------------------------------------------------------------
(* The empty row is a row.                                                 *)
LEMMA NoRowType == NoRow \in Row
  <1>1. (CHOOSE i \in Input : TRUE) \in Input BY CommandAssumption
  <1> QED BY <1>1 DEF NoRow, Row

(* The key and the input of a call have their types.                       *)
LEMMA CallTypes ==
    ASSUME TypeOK, NEW c \in Caller
    PROVE  KeyOf(c) \in Key /\ InputOf(c) \in Input
  BY DEF TypeOK, KeyOf, InputOf

(* A call that gives up keeps the types of its variables.                  *)
LEMMA GiveUpTypes ==
    ASSUME TypeOK, NEW c \in Caller, GiveUp(c)
    PROVE  /\ pc' \in [Caller -> {"idle", "find", "insert", "find again",
                                  "charge", "perform", "complete"}]
           /\ result' \in [Caller -> Response \cup {NoResponse}]
           /\ pc'[c] = "idle"
           /\ \A d \in Caller \ {c} : pc'[d] = pc[d] /\ result'[d] = result[d]
  BY DEF TypeOK, GiveUp, Goto

(* The invariant holds at first.                                           *)
LEMMA InitIInv == Init => IInv
  <1> SUFFICES ASSUME Init PROVE IInv
    OBVIOUS
  <1>1. command \in [Key -> Row] BY NoRowType DEF Init
  <1>2. TypeOK BY <1>1 DEF Init, TypeOK, Response
  <1>3. \A c \in Caller : ~Owns(c) BY DEF Init, Owns
  <1>4. \A k \in Key : command[k].status = "NONE" /\ effects[k] = 0 /\ charged[k] = 0
    BY DEF Init, NoRow
  <1>5. \A k \in Key : RowFacts(k) BY <1>4 DEF RowFacts
  <1>6. AnswersAgree BY DEF Init, AnswersAgree
  <1>7. CommandRunsOnce BY <1>4 DEF CommandRunsOnce
  <1> QED BY <1>2, <1>3, <1>5, <1>6, <1>7 DEF IInv, OwnerFacts, OneOwner

(* A step that changes only the variables of a caller, leaving it without  *)
(* a command, keeps what is known of owners.                               *)
LEMMA NotAnOwner ==
    ASSUME IInv, NEW c \in Caller, ~Owns(c)', UNCHANGED <<command, effects, charged>>,
           \A d \in Caller \ {c} :
              pc'[d] = pc[d] /\ result'[d] = result[d] /\ call'[d] = call[d]
    PROVE  /\ \A d \in Caller : OwnerFacts(d)'
           /\ OneOwner'
           /\ \A k \in Key : RowFacts(k)'
           /\ CommandRunsOnce'
  <1>1. ASSUME NEW d \in Caller PROVE OwnerFacts(d)'
    <2>1. CASE d = c BY <2>1 DEF OwnerFacts
    <2>2. CASE d # c BY <2>2 DEF IInv, OwnerFacts, Owns, KeyOf, InputOf
    <2> QED BY <2>1, <2>2
  <1>2. OneOwner' BY DEF IInv, OneOwner, Owns, KeyOf
  <1>3. \A k \in Key : RowFacts(k)' BY DEF IInv, RowFacts
  <1>4. CommandRunsOnce' BY DEF IInv, CommandRunsOnce
  <1> QED BY <1>1, <1>2, <1>3, <1>4

(* Starting a call keeps the invariant.                                    *)
LEMMA StartInv ==
    ASSUME IInv, NEW c \in Caller, Start(c)
    PROVE  IInv'
  <1>1. call' \in [Caller -> Key \X Input]
    <2>1. PICK k \in Key, i \in Input : call' = [call EXCEPT ![c] = <<k, i>>]
      BY DEF Start
    <2>2. <<k, i>> \in Key \X Input OBVIOUS
    <2> QED BY <2>1, <2>2 DEF IInv, TypeOK
  <1>2. TypeOK' BY <1>1 DEF IInv, TypeOK, Start, Goto
  <1>3. ~Owns(c)' BY DEF IInv, TypeOK, Start, Goto, Owns
  <1>4. \A d \in Caller \ {c} :
           pc'[d] = pc[d] /\ result'[d] = result[d] /\ call'[d] = call[d]
    BY DEF IInv, TypeOK, Start, Goto
  <1>5. UNCHANGED <<command, effects, charged, answers>> BY DEF Start
  <1>6. AnswersAgree' BY <1>5 DEF IInv, AnswersAgree
  <1> QED BY <1>2, <1>3, <1>4, <1>5, <1>6, NotAnOwner DEF IInv

(* Looking for the row, and answering from it, keeps the invariant.        *)
LEMMA FindInv ==
    ASSUME IInv, NEW c \in Caller, Find(c)
    PROVE  IInv'
  <1> DEFINE k == KeyOf(c)
  <1>1. k \in Key /\ InputOf(c) \in Input BY CallTypes DEF IInv
  <1>2. UNCHANGED <<command, call, effects, charged>> BY DEF Find
  <1>3. CASE command[k].status # "NONE"
    <2>1. ResolveExisting(c, command[k]) BY <1>3 DEF Find
    <2>2. GiveUp(c) BY <2>1 DEF ResolveExisting
    <2>3. TypeOK' /\ AnswersAgree'
      <3>1. CASE SameInput(command[k], InputOf(c)) /\ Settled(command[k])
        <4>1. answers' = answers \cup {<<k, InputOf(c), command[k].response>>}
          BY <2>1, <3>1 DEF ResolveExisting, Answer
        <4>2. command[k].response \in Response
          BY <1>1, <3>1 DEF IInv, TypeOK, Row, Settled
        <4>3. TypeOK'
          <5>1. <<k, InputOf(c), command[k].response>> \in Key \X Input \X Response
            BY <1>1, <4>2
          <5>2. answers' \in SUBSET (Key \X Input \X Response)
            BY <4>1, <5>1 DEF IInv, TypeOK
          <5> QED BY <1>2, <2>2, <5>2, GiveUpTypes DEF IInv, TypeOK
        <4>4. RowFacts(k) BY <1>1 DEF IInv
        <4>5. ASSUME NEW a \in answers'
              PROVE  /\ command[a[1]].status = IF a[3] = "ok" THEN "COMPLETED" ELSE "FAILED"
                     /\ command[a[1]].input = a[2]
                     /\ a[3] = "ok" => effects[a[1]] = 1
          <5>1. CASE a \in answers BY <5>1 DEF IInv, AnswersAgree
          <5>2. CASE a = <<k, InputOf(c), command[k].response>>
            BY <3>1, <4>4, <5>2 DEF RowFacts, SameInput, Settled
          <5> QED BY <4>1, <4>5, <5>1, <5>2
        <4>6. AnswersAgree' BY <1>2, <4>5 DEF AnswersAgree
        <4> QED BY <4>3, <4>6
      <3>2. CASE ~(SameInput(command[k], InputOf(c)) /\ Settled(command[k]))
        <4>1. answers' = answers BY <2>1, <3>2 DEF ResolveExisting
        <4>2. TypeOK' BY <1>2, <2>2, <4>1, GiveUpTypes DEF IInv, TypeOK
        <4>3. AnswersAgree' BY <1>2, <4>1 DEF IInv, AnswersAgree
        <4> QED BY <4>2, <4>3
      <3> QED BY <3>1, <3>2
    <2>4. ~Owns(c)' BY <2>2, GiveUpTypes DEF IInv, Owns
    <2>5. \A d \in Caller \ {c} :
             pc'[d] = pc[d] /\ result'[d] = result[d] /\ call'[d] = call[d]
      BY <1>2, <2>2, GiveUpTypes DEF IInv
    <2> QED BY <1>2, <2>3, <2>4, <2>5, NotAnOwner DEF IInv
  <1>4. CASE ~(command[k].status # "NONE")
    <2>1. Goto(c, "insert") /\ UNCHANGED <<result, answers>> BY <1>4 DEF Find
    <2>2. TypeOK' BY <1>2, <2>1 DEF IInv, TypeOK, Goto
    <2>3. ~Owns(c)' BY <2>1 DEF IInv, TypeOK, Goto, Owns
    <2>4. \A d \in Caller \ {c} :
             pc'[d] = pc[d] /\ result'[d] = result[d] /\ call'[d] = call[d]
      BY <1>2, <2>1 DEF IInv, TypeOK, Goto
    <2>5. AnswersAgree' BY <1>2, <2>1 DEF IInv, AnswersAgree
    <2> QED BY <1>2, <2>2, <2>3, <2>4, <2>5, NotAnOwner DEF IInv
  <1> QED BY <1>3, <1>4

(* A step on the command of one caller leaves the other callers' commands  *)
(* alone, as long as no other caller owns its key.                         *)
LEMMA OthersKeep ==
    ASSUME IInv, NEW c \in Caller, UNCHANGED call,
           \A d \in Caller \ {c} : pc'[d] = pc[d] /\ result'[d] = result[d],
           \A k \in Key \ {KeyOf(c)} : /\ command'[k] = command[k]
                                      /\ effects'[k] = effects[k]
                                      /\ charged'[k] = charged[k],
           \A d \in Caller \ {c} : Owns(d) => KeyOf(d) # KeyOf(c)
    PROVE  /\ \A d \in Caller \ {c} : OwnerFacts(d)'
           /\ OneOwner'
           /\ \A k \in Key \ {KeyOf(c)} :
                 RowFacts(k)' /\ effects'[k] <= 1 /\ charged'[k] <= 1
  <1>1. ASSUME NEW d \in Caller \ {c} PROVE OwnerFacts(d)'
    <2>1. CASE Owns(d)
      <3>1. KeyOf(d) # KeyOf(c) /\ KeyOf(d) \in Key BY <2>1, CallTypes DEF IInv
      <3>2. KeyOf(d)' = KeyOf(d) /\ InputOf(d)' = InputOf(d) BY DEF KeyOf, InputOf
      <3> QED BY <3>1, <3>2 DEF IInv, OwnerFacts, Owns
    <2>2. CASE ~Owns(d) BY <2>2 DEF OwnerFacts, Owns
    <2> QED BY <2>1, <2>2
  <1>2. OneOwner' BY DEF IInv, OneOwner, Owns, KeyOf
  <1>3. \A k \in Key \ {KeyOf(c)} :
           RowFacts(k)' /\ effects'[k] <= 1 /\ charged'[k] <= 1
    BY DEF IInv, RowFacts, CommandRunsOnce
  <1> QED BY <1>1, <1>2, <1>3

(* Nobody else owns the key of an owner.                                   *)
LEMMA OwnersAreAlone ==
    ASSUME IInv, NEW c \in Caller, Owns(c)
    PROVE  \A d \in Caller \ {c} : Owns(d) => KeyOf(d) # KeyOf(c)
  BY DEF IInv, OneOwner

(* Answers were given for settled rows only, so a step on another row      *)
(* keeps them in agreement.                                                *)
LEMMA AnswersKeep ==
    ASSUME IInv, NEW k \in Key, command[k].status \in {"NONE", "PENDING"},
           answers' = answers,
           \A j \in Key \ {k} : command'[j] = command[j] /\ effects'[j] = effects[j]
    PROVE  AnswersAgree'
  <1>1. ASSUME NEW a \in answers
        PROVE  a[1] \in Key \ {k}
    <2>1. a[1] \in Key BY DEF IInv, TypeOK
    <2>2. command[a[1]].status \in {"COMPLETED", "FAILED"} BY DEF IInv, AnswersAgree
    <2> QED BY <2>1, <2>2
  <1> QED BY <1>1 DEF IInv, AnswersAgree

(* Inserting the row, or finding it taken, keeps the invariant.            *)
LEMMA InsertInv ==
    ASSUME IInv, NEW c \in Caller, Insert(c)
    PROVE  IInv'
  <1>0. KeyOf(c) \in Key BY CallTypes DEF IInv
  <1>k. PICK k \in Key : k = KeyOf(c) BY <1>0
  <1>1. k \in Key /\ InputOf(c) \in Input BY CallTypes DEF IInv
  <1>2. UNCHANGED <<call, result, effects, charged, answers>> BY DEF Insert
  <1>3. CASE KeyIsFree(k)
    <2> DEFINE row == [status |-> "PENDING", input |-> InputOf(c), response |-> NoResponse]
    <2>1. command' = [command EXCEPT ![k] = row] BY <1>k, <1>3 DEF Insert
    <2>2. row \in Row BY <1>1 DEF Row
    <2>3. pc' = [pc EXCEPT ![c] = IF k \in ScanKey THEN "charge" ELSE "perform"]
      BY <1>k, <1>3 DEF Insert, Goto
    <2>4. pc' \in [Caller -> {"idle", "find", "insert", "find again",
                              "charge", "perform", "complete"}]
      BY <2>3 DEF IInv, TypeOK
    <2>5. command' \in [Key -> Row] BY <2>1, <2>2 DEF IInv, TypeOK
    <2>6. TypeOK' BY <1>2, <2>4, <2>5 DEF IInv, TypeOK
    <2>7. command'[k] = row BY <1>1, <2>1 DEF IInv, TypeOK
    <2>8. \A j \in Key \ {k} : command'[j] = command[j] BY <2>1 DEF IInv, TypeOK
    <2>9. \A d \in Caller \ {c} : pc'[d] = pc[d] BY <2>3 DEF IInv, TypeOK
    <2>10. command[k].status = "NONE" /\ effects[k] = 0 /\ charged[k] = 0
      BY <1>1, <1>3 DEF IInv, RowFacts, KeyIsFree
    <2>11. \A d \in Caller \ {c} : Owns(d) => KeyOf(d) # k
      BY <2>10 DEF IInv, OwnerFacts
    <2>12. /\ \A d \in Caller \ {c} : OwnerFacts(d)'
           /\ OneOwner'
           /\ \A j \in Key \ {k} : RowFacts(j)' /\ effects'[j] <= 1 /\ charged'[j] <= 1
      BY <1>k, <1>2, <2>8, <2>9, <2>11, OthersKeep
    <2>13. OwnerFacts(c)'
      <3>1. KeyOf(c)' = k /\ InputOf(c)' = InputOf(c) BY <1>k, <1>2 DEF KeyOf, InputOf
      <3>2. pc'[c] \in {"charge", "perform"} BY <2>3 DEF IInv, TypeOK
      <3> QED BY <1>2, <2>7, <2>10, <3>1, <3>2 DEF OwnerFacts
    <2>14. RowFacts(k)' BY <2>7 DEF RowFacts
    <2>15. CommandRunsOnce' BY <1>2 DEF IInv, CommandRunsOnce
    <2>16. AnswersAgree' BY <1>1, <1>2, <2>8, <2>10, AnswersKeep
    <2> QED BY <2>6, <2>12, <2>13, <2>14, <2>15, <2>16 DEF IInv
  <1>4. CASE ~KeyIsFree(k)
    <2>1. Goto(c, "find again") /\ UNCHANGED command BY <1>k, <1>4 DEF Insert
    <2>2. TypeOK' BY <1>2, <2>1 DEF IInv, TypeOK, Goto
    <2>3. ~Owns(c)' BY <2>1 DEF IInv, TypeOK, Goto, Owns
    <2>4. \A d \in Caller \ {c} :
             pc'[d] = pc[d] /\ result'[d] = result[d] /\ call'[d] = call[d]
      BY <1>2, <2>1 DEF IInv, TypeOK, Goto
    <2>5. AnswersAgree' BY <1>2, <2>1 DEF IInv, AnswersAgree
    <2> QED BY <1>2, <2>1, <2>2, <2>3, <2>4, <2>5, NotAnOwner DEF IInv
  <1> QED BY <1>3, <1>4

(* The quota allows or refuses the command of its owner.                   *)
LEMMA ChargeInv ==
    ASSUME IInv, NEW c \in Caller, Charge(c)
    PROVE  IInv'
  <1>0. KeyOf(c) \in Key BY CallTypes DEF IInv
  <1>k. PICK k \in Key : k = KeyOf(c) BY <1>0
  <1>1. UNCHANGED <<command, call, effects, answers>> BY DEF Charge
  <1>2. Owns(c) BY DEF Charge, Owns
  <1>3. command[k].status = "PENDING" /\ command[k].input = InputOf(c)
    BY <1>k, <1>2 DEF IInv, OwnerFacts
  <1>4. charged[k] = 0 /\ effects[k] = 0 BY <1>k, <1>2 DEF IInv, OwnerFacts, Charge
  <1>5. TypeOK /\ TypeOK'
    <2>1. CASE charged' = [charged EXCEPT ![KeyOf(c)] = @ + 1] /\ Goto(c, "perform") /\ UNCHANGED result
      <3>0. charged[k] + 1 = 1 BY <1>4
      <3>1. charged' = [charged EXCEPT ![k] = 1] BY <1>k, <2>1, <3>0
      <3>2. charged' \in [Key -> Nat] BY <3>1 DEF IInv, TypeOK
      <3> QED BY <1>1, <2>1, <3>2 DEF IInv, TypeOK, Goto
    <2>2. CASE result' = [result EXCEPT ![c] = "error"] /\ Goto(c, "complete") /\ UNCHANGED charged
      BY <1>1, <2>2 DEF IInv, TypeOK, Goto, Response
    <2> QED BY <2>1, <2>2 DEF Charge
  <1>6. \A d \in Caller \ {c} : pc'[d] = pc[d] /\ result'[d] = result[d]
    BY DEF IInv, TypeOK, Charge, Goto
  <1>7. \A j \in Key \ {k} : charged'[j] = charged[j]
    BY <1>k, <1>0 DEF IInv, TypeOK, Charge
  <1>8. charged'[k] <= 1
    <2>1. charged'[k] = charged[k] + 1 \/ charged'[k] = charged[k]
      BY <1>k DEF IInv, TypeOK, Charge
    <2> QED BY <1>4, <2>1
  <1>9. \A d \in Caller \ {c} : Owns(d) => KeyOf(d) # KeyOf(c) BY <1>2, OwnersAreAlone
  <1>10. /\ \A d \in Caller \ {c} : OwnerFacts(d)'
         /\ OneOwner'
         /\ \A j \in Key \ {k} : RowFacts(j)' /\ effects'[j] <= 1 /\ charged'[j] <= 1
    BY <1>k, <1>1, <1>6, <1>7, <1>9, OthersKeep
  <1>11. OwnerFacts(c)'
    <2>1. KeyOf(c)' = k /\ InputOf(c)' = InputOf(c) BY <1>k, <1>1 DEF KeyOf, InputOf
    <2>2. \/ pc'[c] = "perform"
          \/ pc'[c] = "complete" /\ result'[c] = "error"
      BY DEF IInv, TypeOK, Charge, Goto
    <2> QED BY <1>1, <1>3, <1>4, <2>1, <2>2 DEF OwnerFacts, Response
  <1>12. RowFacts(k)' BY <1>1, <1>3 DEF RowFacts
  <1>13. effects'[k] <= 1 BY <1>1, <1>4
  <1>14. CommandRunsOnce' BY <1>8, <1>10, <1>13 DEF CommandRunsOnce
  <1>15. AnswersAgree' BY <1>1 DEF IInv, AnswersAgree
  <1> QED BY <1>5, <1>10, <1>11, <1>12, <1>14, <1>15 DEF IInv

(* The owner performs the command, once.                                   *)
LEMMA PerformInv ==
    ASSUME IInv, NEW c \in Caller, Perform(c)
    PROVE  IInv'
  <1>0. KeyOf(c) \in Key BY CallTypes DEF IInv
  <1>k. PICK k \in Key : k = KeyOf(c) BY <1>0
  <1>p. PICK response \in Response, done \in BOOLEAN :
           /\ response = "ok" => done
           /\ result' = [result EXCEPT ![c] = response]
           /\ effects' = IF done THEN [effects EXCEPT ![KeyOf(c)] = @ + 1] ELSE effects
    BY DEF Perform
  <1>1. UNCHANGED <<command, call, charged, answers>> BY DEF Perform
  <1>2. Owns(c) /\ pc[c] = "perform" BY DEF Perform, Owns
  <1>3. command[k].status = "PENDING" /\ command[k].input = InputOf(c) /\ effects[k] = 0
    BY <1>k, <1>2 DEF IInv, OwnerFacts
  <1>4. pc' = [pc EXCEPT ![c] = "complete"] BY DEF Perform, Goto
  <1>5. /\ effects' \in [Key -> Nat]
        /\ \A j \in Key \ {k} : effects'[j] = effects[j]
        /\ effects'[k] = IF done THEN 1 ELSE 0
    <2>1. CASE done
      <3>1. effects' = [effects EXCEPT ![k] = 1] BY <1>k, <1>p, <1>3, <2>1
      <3> QED BY <2>1, <3>1 DEF IInv, TypeOK
    <2>2. CASE ~done BY <1>p, <1>3, <2>2 DEF IInv, TypeOK
    <2> QED BY <2>1, <2>2
  <1>6. TypeOK' BY <1>1, <1>p, <1>4, <1>5 DEF IInv, TypeOK
  <1>7. \A d \in Caller \ {c} : pc'[d] = pc[d] /\ result'[d] = result[d]
    BY <1>p, <1>4 DEF IInv, TypeOK
  <1>8. \A d \in Caller \ {c} : Owns(d) => KeyOf(d) # KeyOf(c) BY <1>2, OwnersAreAlone
  <1>9. /\ \A d \in Caller \ {c} : OwnerFacts(d)'
        /\ OneOwner'
        /\ \A j \in Key \ {k} : RowFacts(j)' /\ effects'[j] <= 1 /\ charged'[j] <= 1
    BY <1>k, <1>1, <1>5, <1>7, <1>8, OthersKeep
  <1>10. OwnerFacts(c)'
    <2>1. KeyOf(c)' = k /\ InputOf(c)' = InputOf(c) BY <1>k, <1>1 DEF KeyOf, InputOf
    <2>2. pc'[c] = "complete" /\ result'[c] = response
      BY <1>p, <1>4 DEF IInv, TypeOK
    <2> QED BY <1>1, <1>3, <1>5, <1>p, <2>1, <2>2 DEF OwnerFacts
  <1>11. RowFacts(k)' BY <1>1, <1>3 DEF RowFacts
  <1>12. effects'[k] <= 1 BY <1>5
  <1>13. charged'[k] <= 1 BY <1>1 DEF IInv, CommandRunsOnce
  <1>14. CommandRunsOnce' BY <1>9, <1>12, <1>13 DEF CommandRunsOnce
  <1>15. AnswersAgree' BY <1>k, <1>1, <1>3, <1>5, AnswersKeep
  <1> QED BY <1>6, <1>9, <1>10, <1>11, <1>14, <1>15 DEF IInv

(* Completing the row, and answering, keeps the invariant.                 *)
LEMMA CompleteInv ==
    ASSUME IInv, NEW c \in Caller, Complete(c)
    PROVE  IInv'
  <1>0. KeyOf(c) \in Key /\ InputOf(c) \in Input BY CallTypes DEF IInv
  <1>k. PICK k \in Key : k = KeyOf(c) BY <1>0
  <1>r. PICK response \in Response : response = result[c]
    BY DEF IInv, OwnerFacts, Owns, Complete
  <1>1. UNCHANGED <<call, effects, charged>> /\ GiveUp(c) BY DEF Complete
  <1>2. Owns(c) /\ pc[c] = "complete" BY DEF Complete, Owns
  <1>3. /\ command[k].status = "PENDING" /\ command[k].input = InputOf(c)
        /\ response = "ok" => effects[k] = 1
    BY <1>k, <1>r, <1>2 DEF IInv, OwnerFacts
  <1> DEFINE row == [status |-> IF response = "ok" THEN "COMPLETED" ELSE "FAILED",
                     input |-> command[k].input, response |-> response]
  <1>4. command' = [command EXCEPT ![k] = row] BY <1>k, <1>r, <1>3 DEF Complete
  <1>5. /\ row \in Row
        /\ row.status = IF response = "ok" THEN "COMPLETED" ELSE "FAILED"
        /\ row.input = InputOf(c)
        /\ row.response = response
    BY <1>0, <1>3 DEF Row
  <1>6. command' \in [Key -> Row] BY <1>4, <1>5 DEF IInv, TypeOK
  <1>7. command'[k] = row BY <1>4 DEF IInv, TypeOK
  <1>8. \A j \in Key \ {k} : command'[j] = command[j] BY <1>4 DEF IInv, TypeOK
  <1> HIDE DEF row
  <1>9. answers' = answers \cup {<<k, InputOf(c), response>>} \/ answers' = answers
    BY <1>k, <1>r, <1>3 DEF Complete, Answer
  <1>10. <<k, InputOf(c), response>> \in Key \X Input \X Response BY <1>0
  <1>11. answers' \in SUBSET (Key \X Input \X Response)
    BY <1>9, <1>10 DEF IInv, TypeOK
  <1>12. TypeOK' BY <1>1, <1>6, <1>11, GiveUpTypes DEF IInv, TypeOK
  <1>13. \A d \in Caller \ {c} : pc'[d] = pc[d] /\ result'[d] = result[d]
    BY <1>1, GiveUpTypes DEF IInv
  <1>14. \A d \in Caller \ {c} : Owns(d) => KeyOf(d) # KeyOf(c) BY <1>2, OwnersAreAlone
  <1>15. /\ \A d \in Caller \ {c} : OwnerFacts(d)'
         /\ OneOwner'
         /\ \A j \in Key \ {k} : RowFacts(j)' /\ effects'[j] <= 1 /\ charged'[j] <= 1
    BY <1>k, <1>1, <1>8, <1>13, <1>14, OthersKeep
  <1>16. ~Owns(c)' BY <1>1, GiveUpTypes DEF IInv, Owns
  <1>17. OwnerFacts(c)' BY <1>16 DEF OwnerFacts
  <1>18. RowFacts(k)' BY <1>1, <1>3, <1>5, <1>7 DEF RowFacts, Response
  <1>19. CommandRunsOnce' BY <1>1 DEF IInv, CommandRunsOnce
  <1>20. ASSUME NEW a \in answers'
         PROVE  /\ command'[a[1]].status = IF a[3] = "ok" THEN "COMPLETED" ELSE "FAILED"
                /\ command'[a[1]].input = a[2]
                /\ a[3] = "ok" => effects'[a[1]] = 1
    <2>1. CASE a = <<k, InputOf(c), response>> BY <1>1, <1>3, <1>5, <1>7, <2>1
    <2>2. CASE a \in answers
      <3>1. a[1] \in Key BY <2>2 DEF IInv, TypeOK
      <3>2. a[1] # k BY <1>3, <2>2 DEF IInv, AnswersAgree
      <3> QED BY <1>1, <1>8, <2>2, <3>1, <3>2 DEF IInv, AnswersAgree
    <2> QED BY <1>9, <2>1, <2>2
  <1>21. AnswersAgree' BY <1>20 DEF AnswersAgree
  <1> QED BY <1>12, <1>15, <1>17, <1>18, <1>19, <1>21 DEF IInv

(* Losing a call keeps the invariant: its row stays PENDING, so nobody     *)
(* performs the command again.                                             *)
LEMMA CrashInv ==
    ASSUME IInv, NEW c \in Caller, Crash(c)
    PROVE  IInv'
  <1>0. KeyOf(c) \in Key BY CallTypes DEF IInv
  <1>k. PICK k \in Key : k = KeyOf(c) BY <1>0
  <1>1. UNCHANGED <<command, call, charged, answers>> /\ GiveUp(c) BY DEF Crash
  <1>2. ~Owns(c)' BY <1>1, GiveUpTypes DEF IInv, Owns
  <1>3. \A d \in Caller \ {c} :
           pc'[d] = pc[d] /\ result'[d] = result[d] /\ call'[d] = call[d]
    BY <1>1, GiveUpTypes DEF IInv
  <1>4. CASE UNCHANGED effects
    <2>1. TypeOK' BY <1>1, <1>4, GiveUpTypes DEF IInv, TypeOK
    <2>2. AnswersAgree' BY <1>1, <1>4 DEF IInv, AnswersAgree
    <2> QED BY <1>1, <1>2, <1>3, <1>4, <2>1, <2>2, NotAnOwner DEF IInv
  <1>5. CASE pc[c] = "perform" /\ effects' = [effects EXCEPT ![KeyOf(c)] = @ + 1]
    <2>1. Owns(c) BY <1>5 DEF Owns
    <2>2. command[k].status = "PENDING" /\ effects[k] = 0
      BY <1>k, <1>5, <2>1 DEF IInv, OwnerFacts
    <2>3. effects' = [effects EXCEPT ![k] = 1] BY <1>k, <1>5, <2>2
    <2>4. /\ effects' \in [Key -> Nat]
          /\ effects'[k] = 1
          /\ \A j \in Key \ {k} : effects'[j] = effects[j]
      BY <2>3 DEF IInv, TypeOK
    <2>5. TypeOK' BY <1>1, <2>4, GiveUpTypes DEF IInv, TypeOK
    <2>6. \A d \in Caller \ {c} : Owns(d) => KeyOf(d) # KeyOf(c) BY <2>1, OwnersAreAlone
    <2>7. /\ \A d \in Caller \ {c} : OwnerFacts(d)'
          /\ OneOwner'
          /\ \A j \in Key \ {k} : RowFacts(j)' /\ effects'[j] <= 1 /\ charged'[j] <= 1
      BY <1>k, <1>1, <1>3, <2>4, <2>6, OthersKeep
    <2>8. OwnerFacts(c)' BY <1>2 DEF OwnerFacts
    <2>9. RowFacts(k)' BY <1>1, <2>2 DEF RowFacts
    <2>10. charged'[k] <= 1 BY <1>1 DEF IInv, CommandRunsOnce
    <2>11. effects'[k] <= 1 BY <2>4
    <2>12. CommandRunsOnce' BY <2>7, <2>10, <2>11 DEF CommandRunsOnce
    <2>13. AnswersAgree' BY <1>1, <2>2, <2>4, AnswersKeep
    <2> QED BY <2>5, <2>7, <2>8, <2>9, <2>12, <2>13 DEF IInv
  <1> QED BY <1>4, <1>5 DEF Crash
-----------------------------------------------------------------------------
(* The invariant holds in every state: each step keeps it.                 *)
LEMMA Invariance == Spec => []IInv
  <1>1. IInv /\ [Next]_vars => IInv'
    <2> SUFFICES ASSUME IInv, [Next]_vars PROVE IInv'
      OBVIOUS
    <2>1. CASE UNCHANGED vars
      BY <2>1 DEF vars, IInv, TypeOK, OwnerFacts, OneOwner, Owns, KeyOf, InputOf, RowFacts,
                  CommandRunsOnce, AnswersAgree
    <2>2. CASE \E c \in Caller : Start(c) BY <2>2, StartInv
    <2>3. CASE \E c \in Caller : Find(c) BY <2>3, FindInv
    <2>4. CASE \E c \in Caller : Insert(c) BY <2>4, InsertInv
    <2>5. CASE \E c \in Caller : Charge(c) BY <2>5, ChargeInv
    <2>6. CASE \E c \in Caller : Perform(c) BY <2>6, PerformInv
    <2>7. CASE \E c \in Caller : Complete(c) BY <2>7, CompleteInv
    <2>8. CASE \E c \in Caller : Crash(c) BY <2>8, CrashInv
    <2> QED BY <2>1, <2>2, <2>3, <2>4, <2>5, <2>6, <2>7, <2>8 DEF Next
  <1> QED BY InitIInv, <1>1, PTL DEF Spec

(* Every variable has its type in every reachable state: the rows of       *)
(* mcp_commands, the steps of the callers and the answers given.           *)
THEOREM TypeCorrect == Spec => []TypeOK
  <1>1. IInv => TypeOK BY DEF IInv
  <1> QED BY Invariance, <1>1, PTL

(* The command of a key takes effect at most once and is charged at most   *)
(* once, for any number of callers, retries and losses: whoever inserted   *)
(* the row is alone with it until the row is settled, and then for good.   *)
THEOREM RunsOnce == Spec => []CommandRunsOnce
  <1>1. IInv => CommandRunsOnce BY DEF IInv
  <1> QED BY Invariance, <1>1, PTL

(* All answers given for a key agree with its row and were given for one   *)
(* input, and success was reported only for commands that took effect.     *)
THEOREM OneAnswer == Spec => []AnswersAgree
  <1>1. IInv => AnswersAgree BY DEF IInv
  <1> QED BY Invariance, <1>1, PTL

------------------------------------------------------------------------------
(* Products of variables are stated once, so that what follows is linear.    *)
LEMMA Distributes ==
  \A x, y, w \in Int : (x + y) * w = x * w + y * w /\ (x - 1) * w = x * w - w
OBVIOUS

LEMMA Monotone ==
  \A x, y \in Int, w \in Nat : x <= y => x * w <= y * w
OBVIOUS

LEMMA Division ==
  \A x \in Nat, w \in Nat \ {0} :
    /\ x \div w \in Nat
    /\ (x \div w) * w <= x
    /\ x < (x \div w) * w + w
OBVIOUS

Types ==
  /\ now \in Nat
  /\ tokens \in [Keys -> Int]
  /\ lastRefill \in [Keys -> Nat]
  /\ deniedAt \in [Keys -> Int]
  /\ exact \in [Keys -> Int]
  /\ half \in [Keys -> Int]

(* What time has added since the last refill is owed by the bucket, not      *)
(* counted in its tokens yet.                                                *)
Owed(k) == (now - lastRefill[k]) * Limit

(* After a request a bucket in use is not full, because the request took a   *)
(* token: capping and flooring only ever forget what the exact bucket has.   *)
(* What they forget at most is what the bucket of half the rate never got.   *)
Fresh(k) == tokens[k] = None /\ exact[k] = Limit * Window /\ deniedAt[k] = None

InUse(k) ==
  /\ 0 <= tokens[k] /\ tokens[k] < Limit
  /\ lastRefill[k] <= now
  /\ Limit * Window <= exact[k] \/ tokens[k] * Window + Owed(k) <= exact[k]
  /\ half[k] <= 2 * (tokens[k] * Window) + Owed(k)
  /\ deniedAt[k] # None => tokens[k] = 0 /\ lastRefill[k] <= deniedAt[k]

Bucket(k) ==
  /\ 0 <= half[k] /\ half[k] <= 2 * (Limit * Window)
  /\ Fresh(k) \/ InUse(k)

BucketsInv == Types /\ \A k \in Keys : Bucket(k)

-----------------------------------------------------------------------------
(* What Refilled, RefilledAt and Added are of a bucket in use.               *)
LEMMA RefillOfUsed ==
  ASSUME Types, NEW k \in Keys, InUse(k)
  PROVE  /\ Added(k) \in Nat /\ Owed(k) \in Nat /\ tokens[k] \in Nat
         /\ Added(k) * Window <= Owed(k)
         /\ Owed(k) < Added(k) * Window + Window
         /\ Added(k) = 0 => Refilled(k) = tokens[k] /\ RefilledAt(k) = lastRefill[k]
         /\ Added(k) # 0 => /\ Refilled(k) = Least(Limit, tokens[k] + Added(k))
                            /\ RefilledAt(k) = now
<1>1. tokens[k] \in Nat /\ lastRefill[k] \in Nat /\ now \in Nat /\ lastRefill[k] <= now
  BY DEF Types, InUse
<1>2. tokens[k] # None /\ Held(k) = tokens[k] /\ Since(k) = lastRefill[k]
  BY <1>1 DEF None, Held, Since
<1>3. Limit \in Nat /\ Window \in Nat \ {0}
  BY LimitAssumption
<1>4. now - lastRefill[k] \in Nat
  BY <1>1
<1>5. Owed(k) \in Nat
  BY <1>3, <1>4 DEF Owed
<1>6. Added(k) = Owed(k) \div Window
  BY <1>2 DEF Added, Owed
<1>7. Added(k) \in Nat /\ Added(k) * Window <= Owed(k) /\ Owed(k) < Added(k) * Window + Window
  BY <1>3, <1>5, <1>6, Division
<1>8. Added(k) = 0 => Refilled(k) = tokens[k] /\ RefilledAt(k) = lastRefill[k]
  BY <1>2, <1>7 DEF Refilled, RefilledAt
<1>9. Added(k) # 0 => Refilled(k) = Least(Limit, tokens[k] + Added(k)) /\ RefilledAt(k) = now
  BY <1>2, <1>7 DEF Refilled, RefilledAt, Capped
<1> QED BY <1>1, <1>5, <1>7, <1>8, <1>9

LEMMA RefillOfFresh ==
  ASSUME Types, NEW k \in Keys, Fresh(k)
  PROVE  Added(k) = 0 /\ Refilled(k) = Limit /\ RefilledAt(k) = now
<1>1. Held(k) = Limit /\ Since(k) = now
  BY DEF Fresh, Held, Since
<1>2. (now - now) * Limit = 0
  BY LimitAssumption DEF Types
<1>3. 0 \div Window = 0
  BY LimitAssumption
<1>4. Added(k) = 0
  BY <1>1, <1>2, <1>3 DEF Added
<1> QED BY <1>1, <1>4 DEF Refilled, RefilledAt

LEMMA Constants ==
  /\ Limit \in Nat /\ Window \in Nat /\ Limit >= 1 /\ Window >= 1
  /\ Limit * Window \in Nat
  /\ 2 * Limit * Window = 2 * (Limit * Window) /\ 2 * Window = Window + Window
BY LimitAssumption

LEMMA BucketInitHolds == BucketInit => BucketsInv
<1> SUFFICES ASSUME BucketInit PROVE BucketsInv
  OBVIOUS
<1>1. Types
  BY Constants DEF BucketInit, Types, None
<1>2. ASSUME NEW k \in Keys PROVE Bucket(k)
  <2>1. half[k] = 2 * (Limit * Window) /\ exact[k] = Limit * Window /\ tokens[k] = None /\ deniedAt[k] = None
    BY Constants DEF BucketInit
  <2> QED BY <2>1, Constants DEF Bucket, Fresh
<1> QED BY <1>1, <1>2 DEF BucketsInv

(* A bucket that nobody touches and no clock moves stays as it is.           *)
LEMMA Untouched ==
  ASSUME NEW k \in Keys, Bucket(k), now' = now, tokens'[k] = tokens[k], lastRefill'[k] = lastRefill[k],
         deniedAt'[k] = deniedAt[k], exact'[k] = exact[k], half'[k] = half[k]
  PROVE  Bucket(k)'
BY DEF Bucket, Fresh, InUse, Owed

LEMMA TickKeeps ==
  ASSUME BucketsInv, Tick
  PROVE  BucketsInv'
<1>1. Types'
  BY LimitAssumption, Constants DEF BucketsInv, Types, Tick, Least
<1>2. ASSUME NEW k \in Keys PROVE Bucket(k)'
  <2>1. /\ exact'[k] = Least(Limit * Window, exact[k] + Limit)
        /\ half'[k] = Least(2 * (Limit * Window), half[k] + Limit)
        /\ now' = now + 1 /\ tokens' = tokens /\ lastRefill' = lastRefill /\ deniedAt' = deniedAt
    BY <1>2, Constants DEF Tick
  <2>2. now \in Nat /\ lastRefill[k] \in Nat /\ exact[k] \in Int /\ half[k] \in Int /\ tokens[k] \in Int
          /\ deniedAt[k] \in Int
    BY DEF BucketsInv, Types
  <2>3. 0 <= half'[k] /\ half'[k] <= 2 * (Limit * Window) /\ half'[k] <= half[k] + Limit
    BY <2>1, <2>2, Constants DEF Least, BucketsInv, Bucket
  <2>4. CASE Fresh(k)
    <3>1. exact'[k] = Limit * Window
      BY <2>1, <2>4, Constants DEF Least, Fresh
    <3> QED BY <2>1, <2>3, <2>4, <3>1 DEF Bucket, Fresh
  <2>5. CASE InUse(k)
    <3>1. Owed(k)' = Owed(k) + Limit
      <4>1. now + 1 - lastRefill[k] = (now - lastRefill[k]) + 1 /\ now - lastRefill[k] \in Int
        BY <2>2
      <4>2. ((now - lastRefill[k]) + 1) * Limit = (now - lastRefill[k]) * Limit + 1 * Limit
        BY <4>1, Constants, Distributes
      <4>3. 1 * Limit = Limit
        BY Constants
      <4>4. Owed(k)' = (now + 1 - lastRefill[k]) * Limit
        <5>1. now' - lastRefill'[k] = now + 1 - lastRefill[k]
          <6>1. now' = now + 1 /\ lastRefill'[k] = lastRefill[k]
            BY <2>1
          <6> QED BY <2>2, <6>1
        <5> QED BY <5>1 DEF Owed
      <4>5. Owed(k) = (now - lastRefill[k]) * Limit
        BY DEF Owed
      <4> QED BY <4>1, <4>2, <4>3, <4>4, <4>5
    <3>2. Owed(k) \in Int /\ tokens[k] * Window \in Int
      BY <2>2, Constants DEF Owed
    <3>3. Limit * Window <= exact'[k] \/ tokens[k] * Window + Owed(k)' <= exact'[k]
      <4> DEFINE full == Limit * Window
                 counted == tokens[k] * Window
                 owed == Owed(k)
      <4>1. full \in Int /\ counted \in Int /\ owed \in Int /\ Limit \in Int
        BY <3>2, Constants
      <4>2. full <= exact[k] \/ counted + owed <= exact[k]
        BY <2>5 DEF InUse
      <4>3. exact'[k] = full \/ exact'[k] = exact[k] + Limit
        BY <2>1 DEF Least
      <4>4. Limit >= 0
        BY Constants
      <4>5. Owed(k)' = owed + Limit
        BY <3>1
      <4> HIDE DEF full, counted, owed
      <4>6. full <= exact'[k] \/ counted + (owed + Limit) <= exact'[k]
        BY <2>2, <4>1, <4>2, <4>3, <4>4
      <4> QED BY <4>5, <4>6 DEF full, counted
    <3>4. half'[k] <= 2 * (tokens[k] * Window) + Owed(k)'
      <4> DEFINE counted == tokens[k] * Window
                 owed == Owed(k)
      <4>1. counted \in Int /\ owed \in Int /\ Limit \in Int /\ half'[k] \in Int
        BY <1>1, <3>2, Constants DEF Types
      <4>2. half[k] <= 2 * counted + owed
        BY <2>5 DEF InUse
      <4>3. Owed(k)' = owed + Limit
        BY <3>1
      <4> HIDE DEF counted, owed
      <4>4. half'[k] <= 2 * counted + (owed + Limit)
        BY <2>2, <2>3, <4>1, <4>2
      <4> QED BY <4>3, <4>4 DEF counted
    <3>5. lastRefill[k] <= now'
      BY <2>1, <2>2, <2>5 DEF InUse
    <3>6. InUse(k)'
      BY <2>1, <2>5, <3>3, <3>4, <3>5 DEF InUse
    <3> QED BY <2>3, <3>6 DEF Bucket
  <2> QED BY <2>4, <2>5 DEF BucketsInv, Bucket
<1> QED BY <1>1, <1>2 DEF BucketsInv

(* The bucket of the key whose request is admitted.  When time adds tokens   *)
(* the exact bucket has got at least as much, and at most twice as much.     *)
LEMMA AdmitKeepsBucket ==
  ASSUME BucketsInv, NEW k \in Keys, Admit(k)
  PROVE  Bucket(k)'
<1>1. /\ tokens'[k] = Refilled(k) - 1 /\ lastRefill'[k] = RefilledAt(k) /\ deniedAt'[k] = None
      /\ exact'[k] = exact[k] - Window /\ half'[k] = Most(0, half[k] - (Window + Window)) /\ now' = now
  BY Constants DEF Admit, BucketsInv, Types
<1>2. Types /\ Bucket(k)
  BY DEF BucketsInv
<1>3. /\ now \in Nat /\ lastRefill[k] \in Nat /\ tokens[k] \in Int /\ exact[k] \in Int /\ half[k] \in Int
      /\ Limit \in Nat /\ Window \in Nat /\ Limit >= 1 /\ Window >= 1
  BY <1>2, Constants DEF Types
<1>4. 0 <= half'[k] /\ half'[k] <= 2 * (Limit * Window)
        /\ (half'[k] = 0 \/ half'[k] = half[k] - (Window + Window))
  BY <1>1, <1>2, <1>3, Constants DEF Bucket, Most
<1>5. CASE Fresh(k)
  <2>1. Refilled(k) = Limit /\ RefilledAt(k) = now
    BY <1>2, <1>5, RefillOfFresh
  <2>2. tokens'[k] = Limit - 1 /\ lastRefill'[k] = now'
    BY <1>1, <2>1
  <2>3. (Limit - 1) * Window = Limit * Window - Window
    BY <1>3, Distributes
  <2>4. Owed(k)' = 0
    <3>1. now' - lastRefill'[k] = 0 /\ 0 * Limit = 0
      BY <1>1, <1>3, <2>1
    <3> QED BY <3>1 DEF Owed
  <2>5. exact'[k] = (tokens[k] * Window)' + Owed(k)'
    <3>1. exact'[k] = Limit * Window - Window /\ Limit * Window \in Int
      BY <1>1, <1>5, Constants DEF Fresh
    <3>2. tokens'[k] * Window = Limit * Window - Window
      BY <2>2, <2>3
    <3> QED BY <1>3, <2>4, <3>1, <3>2
  <2>6. half'[k] <= 2 * (tokens'[k] * Window) + Owed(k)'
    <3> DEFINE full == Limit * Window
               counted == tokens'[k] * Window
               h == half'[k]
    <3>1. full \in Nat /\ counted = full - Window /\ counted \in Int
      BY <1>3, <2>2, <2>3, Constants
    <3>2. counted >= 0
      <4>1. 0 * Window = 0 /\ 0 \in Int /\ Limit - 1 \in Int /\ 0 <= Limit - 1
        BY <1>3
      <4>2. 0 * Window <= (Limit - 1) * Window
        BY <1>3, <4>1, Monotone
      <4> QED BY <2>2, <4>1, <4>2
    <3>3. half[k] <= 2 * full
      BY <1>2 DEF Bucket
    <3>4. h = 0 \/ h = half[k] - (Window + Window)
      BY <1>4
    <3> HIDE DEF full, counted, h
    <3>5. h <= 2 * counted + 0
      BY <1>3, <3>1, <3>2, <3>3, <3>4
    <3> QED BY <2>4, <3>5 DEF counted, h
  <2>7. InUse(k)'
    <3>1. 0 <= tokens'[k] /\ tokens'[k] < Limit /\ lastRefill'[k] <= now'
      BY <1>1, <1>3, <2>2
    <3>2. Limit * Window <= exact'[k] \/ tokens'[k] * Window + Owed(k)' <= exact'[k]
      <4>1. exact'[k] \in Int
        BY <1>1, <1>3
      <4> QED BY <2>5, <4>1
    <3> QED BY <1>1, <2>6, <3>1, <3>2 DEF InUse
  <2> QED BY <1>4, <2>7 DEF Bucket
<1>6. CASE InUse(k) /\ Added(k) = 0
  <2>1. /\ tokens'[k] = tokens[k] - 1 /\ lastRefill'[k] = lastRefill[k] /\ tokens[k] >= 1
        /\ Owed(k) \in Nat /\ Owed(k) < Window
    <3>1. Refilled(k) = tokens[k] /\ RefilledAt(k) = lastRefill[k] /\ Owed(k) \in Nat
            /\ Owed(k) < Added(k) * Window + Window /\ 0 * Window = 0
      BY <1>2, <1>3, <1>6, RefillOfUsed
    <3> QED BY <1>1, <1>3, <1>6, <3>1 DEF Admit
  <2> DEFINE full == Limit * Window
             counted == tokens[k] * Window
             owed == Owed(k)
             h == half'[k]
  <2>2. full \in Nat /\ counted \in Int /\ tokens'[k] * Window = counted - Window
    BY <1>3, <2>1, Constants, Distributes
  <2>3. counted <= full - Window
    <3>1. tokens[k] <= Limit - 1 /\ Limit - 1 \in Int
      BY <1>3, <1>6 DEF InUse
    <3>2. tokens[k] * Window <= (Limit - 1) * Window
      BY <1>3, <3>1, Monotone
    <3>3. (Limit - 1) * Window = Limit * Window - Window
      BY <1>3, Distributes
    <3> QED BY <3>2, <3>3
  <2>4. counted - Window >= 0
    <3>1. 0 * Window = 0 /\ 0 \in Int /\ tokens'[k] \in Int /\ 0 <= tokens'[k]
      BY <1>3, <2>1
    <3>2. 0 * Window <= tokens'[k] * Window
      BY <1>3, <3>1, Monotone
    <3> QED BY <2>2, <3>1, <3>2
  <2>5. Owed(k)' = owed
    BY <1>1, <2>1 DEF Owed
  <2>6. /\ full <= exact[k] \/ counted + owed <= exact[k]
        /\ half[k] <= 2 * counted + owed
        /\ lastRefill[k] <= now /\ tokens[k] < Limit
    BY <1>6 DEF InUse
  <2>7. owed \in Nat /\ owed < Window /\ (h = 0 \/ h = half[k] - (Window + Window))
    BY <1>4, <2>1
  <2> HIDE DEF full, counted, owed, h
  <2>8. (counted - Window) + owed <= exact[k] - Window
    BY <1>3, <2>2, <2>3, <2>6, <2>7
  <2>9. h <= 2 * (counted - Window) + owed
    BY <1>3, <2>2, <2>4, <2>6, <2>7
  <2>10. InUse(k)'
    <3>1. 0 <= tokens'[k] /\ tokens'[k] < Limit /\ lastRefill'[k] <= now'
      BY <1>1, <1>3, <2>1, <2>6
    <3>2. tokens'[k] * Window + Owed(k)' <= exact'[k]
      BY <1>1, <2>2, <2>5, <2>8
    <3>3. half'[k] <= 2 * (tokens'[k] * Window) + Owed(k)'
      BY <2>2, <2>5, <2>9 DEF h
    <3> QED BY <1>1, <3>1, <3>2, <3>3 DEF InUse
  <2> QED BY <1>4, <2>10 DEF Bucket
<1>7. CASE InUse(k) /\ Added(k) # 0
  <2> DEFINE t == Refilled(k)
             a == Added(k)
             full == Limit * Window
             counted == tokens[k] * Window
             added == a * Window
             left == t * Window
             owed == Owed(k)
             h == half'[k]
  <2>1. /\ t = Least(Limit, tokens[k] + a) /\ tokens[k] \in Nat
        /\ a \in Nat /\ a >= 1 /\ lastRefill'[k] = now /\ tokens'[k] = t - 1
        /\ owed \in Nat /\ added <= owed /\ owed < added + Window
    BY <1>1, <1>2, <1>7, RefillOfUsed
  <2>2. t \in Nat /\ t >= 1 /\ (t = Limit \/ t = tokens[k] + a) /\ t <= Limit /\ t <= tokens[k] + a
    BY <1>3, <2>1 DEF Least
  <2>3. /\ full \in Nat /\ counted \in Int /\ added \in Int /\ left \in Int
        /\ tokens'[k] * Window = left - Window
    <3> HIDE DEF t, a
    <3>1. (t - 1) * Window = t * Window - Window
      BY <1>3, <2>2, Distributes
    <3> QED BY <1>3, <2>1, <2>2, <3>1, Constants
  <2>4. left = full \/ left = counted + added
    <3> HIDE DEF t, a
    <3>1. (tokens[k] + a) * Window = tokens[k] * Window + a * Window
      BY <1>3, <2>1, Distributes
    <3> QED BY <2>2, <3>1
  <2>5. left <= full /\ left <= counted + added /\ added >= Window /\ left >= Window
    <3> HIDE DEF t, a
    <3>1. t * Window <= Limit * Window /\ t * Window <= (tokens[k] + a) * Window
      <4>1. tokens[k] + a \in Int /\ t \in Int /\ Limit \in Int
        BY <1>3, <2>1, <2>2
      <4> QED BY <1>3, <2>2, <4>1, Monotone
    <3>2. (tokens[k] + a) * Window = tokens[k] * Window + a * Window
      BY <1>3, <2>1, Distributes
    <3>3. 1 * Window <= a * Window /\ 1 * Window <= t * Window /\ 1 * Window = Window
      <4>1. 1 \in Int /\ a \in Int /\ t \in Int
        BY <2>1, <2>2
      <4> QED BY <1>3, <2>1, <2>2, <4>1, Monotone
    <3> QED BY <3>1, <3>2, <3>3
  <2>6. Owed(k)' = 0
    <3>1. now' - lastRefill'[k] = 0 /\ 0 * Limit = 0
      BY <1>1, <1>3, <2>1
    <3> QED BY <3>1 DEF Owed
  <2>7. /\ full <= exact[k] \/ counted + owed <= exact[k]
        /\ half[k] <= 2 * counted + owed /\ half[k] <= 2 * full
    BY <1>2, <1>7 DEF InUse, Bucket
  <2>8. h = 0 \/ h = half[k] - (Window + Window)
    BY <1>4
  <2>9. owed \in Nat /\ added <= owed /\ owed < added + Window
    BY <2>1
  <2> HIDE DEF t, a, full, counted, added, left, owed, h
  <2>10. (left - Window) + 0 <= exact[k] - Window
    <3>1. left <= exact[k]
      BY <1>3, <2>3, <2>5, <2>7, <2>9
    <3> QED BY <1>3, <2>3, <3>1
  <2>11. h <= 2 * (left - Window) + 0
    <3>1. half[k] <= 2 * left
      <4>1. CASE left = full
        BY <2>7, <4>1
      <4>2. CASE left = counted + added
        BY <1>3, <2>3, <2>5, <2>7, <2>9, <4>2
      <4> QED BY <2>4, <4>1, <4>2
    <3> QED BY <1>3, <2>3, <2>5, <2>8, <3>1
  <2>12. InUse(k)'
    <3>1. 0 <= tokens'[k] /\ tokens'[k] < Limit /\ lastRefill'[k] <= now'
      BY <1>1, <1>3, <2>1, <2>2
    <3>2. tokens'[k] * Window + Owed(k)' <= exact'[k]
      BY <1>1, <2>3, <2>6, <2>10
    <3>3. half'[k] <= 2 * (tokens'[k] * Window) + Owed(k)'
      BY <2>3, <2>6, <2>11 DEF h
    <3> QED BY <1>1, <3>1, <3>2, <3>3 DEF InUse
  <2> QED BY <1>4, <2>12 DEF Bucket
<1> QED BY <1>2, <1>5, <1>6, <1>7 DEF Bucket

(* A refused bucket is empty, and its refill added nothing.                  *)
LEMMA RefuseKeepsBucket ==
  ASSUME BucketsInv, NEW k \in Keys, Refuse(k)
  PROVE  Bucket(k)' /\ tokens' = tokens /\ lastRefill' = lastRefill
<1>1. Types /\ Bucket(k) /\ Limit \in Nat /\ Limit >= 1 /\ now \in Nat /\ deniedAt[k] \in Int
  BY Constants DEF BucketsInv, Types
<1>2. InUse(k)
  BY <1>1, RefillOfFresh DEF Bucket, Refuse
<1>3. Added(k) = 0 /\ Refilled(k) = tokens[k] /\ RefilledAt(k) = lastRefill[k] /\ tokens[k] = 0
  <2>1. tokens[k] \in Nat /\ Added(k) \in Nat
    BY <1>1, <1>2, RefillOfUsed
  <2>2. Added(k) # 0 => Refilled(k) > 0
    BY <1>1, <1>2, <2>1, RefillOfUsed DEF Least
  <2>3. Refilled(k) <= 0
    BY DEF Refuse
  <2>4. Refilled(k) \in Int
    BY <1>1, <1>2, <2>1, RefillOfUsed DEF Least
  <2>5. Added(k) = 0
    BY <2>2, <2>3, <2>4
  <2>6. Refilled(k) = tokens[k] /\ RefilledAt(k) = lastRefill[k]
    BY <1>1, <1>2, <2>5, RefillOfUsed
  <2> QED BY <2>1, <2>3, <2>5, <2>6
<1>4. tokens' = tokens /\ lastRefill' = lastRefill
  BY <1>1, <1>3 DEF Refuse, Types
<1>5. now' = now /\ exact' = exact /\ half' = half
        /\ (deniedAt'[k] = deniedAt[k] \/ deniedAt'[k] = now)
  BY <1>1 DEF Refuse, Types
<1>6. InUse(k)'
  BY <1>1, <1>2, <1>3, <1>4, <1>5 DEF InUse, Owed
<1> QED BY <1>1, <1>4, <1>5, <1>6 DEF Bucket

LEMMA RequestKeeps ==
  ASSUME BucketsInv, NEW k \in Keys, Request(k)
  PROVE  BucketsInv'
<1>1. Refilled(k) \in Int /\ RefilledAt(k) \in Nat
  <2>1. CASE Fresh(k)
    BY <2>1, RefillOfFresh, Constants DEF BucketsInv, Types
  <2>2. CASE InUse(k)
    BY <2>2, RefillOfUsed, Constants DEF BucketsInv, Types, Least
  <2> QED BY <2>1, <2>2 DEF BucketsInv, Bucket
<1>2. Types'
  BY <1>1, Constants DEF BucketsInv, Types, Request, Admit, Refuse, None, Most
<1>3. Bucket(k)'
  BY AdmitKeepsBucket, RefuseKeepsBucket DEF Request
<1>4. ASSUME NEW j \in Keys \ {k} PROVE Bucket(j)'
  <2>1. /\ now' = now /\ tokens'[j] = tokens[j] /\ lastRefill'[j] = lastRefill[j]
        /\ deniedAt'[j] = deniedAt[j] /\ exact'[j] = exact[j] /\ half'[j] = half[j]
    BY DEF Request, Admit, Refuse, BucketsInv, Types
  <2> QED BY <2>1, Untouched DEF BucketsInv
<1> QED BY <1>2, <1>3, <1>4 DEF BucketsInv

LEMMA BucketInvariance == BucketSpec => []BucketsInv
<1>1. BucketsInv /\ [BucketNext]_bucketVars => BucketsInv'
  <2> SUFFICES ASSUME BucketsInv, [BucketNext]_bucketVars PROVE BucketsInv'
    OBVIOUS
  <2>1. CASE Tick
    BY <2>1, TickKeeps
  <2>2. CASE \E k \in Keys : Request(k)
    BY <2>2, RequestKeeps
  <2>3. CASE UNCHANGED bucketVars
    <3>1. Types'
      BY <2>3 DEF bucketVars, BucketsInv, Types
    <3>2. \A k \in Keys : Bucket(k)'
      BY <2>3, Untouched DEF bucketVars, BucketsInv
    <3> QED BY <3>1, <3>2 DEF BucketsInv
  <2> QED BY <2>1, <2>2, <2>3 DEF BucketNext
<1> QED BY BucketInitHolds, <1>1, PTL DEF BucketSpec

-----------------------------------------------------------------------------
(* The limiter admits no more than an exact token bucket would               *)
(* (refillTokens of rate-limit.ts with its Math.floor).                      *)
THEOREM NeverAdmitsTooMuch == BucketSpec => []NeverOverExact
<1>1. ASSUME BucketsInv, NEW k \in Keys PROVE exact[k] >= 0
  <2>1. exact[k] \in Int /\ Limit * Window \in Nat
    BY <1>1, Constants DEF BucketsInv, Types
  <2>2. CASE Fresh(k)
    BY <2>1, <2>2 DEF Fresh
  <2>3. CASE InUse(k)
    <3>1. tokens[k] \in Nat /\ Owed(k) \in Nat
      BY <1>1, <2>3, RefillOfUsed DEF BucketsInv
    <3>2. tokens[k] * Window \in Nat
      BY <3>1, Constants
    <3>3. tokens[k] * Window + Owed(k) \in Nat
      BY <3>1, <3>2
    <3> QED BY <2>1, <2>3, <3>3 DEF InUse
  <2> QED BY <1>1, <2>2, <2>3 DEF BucketsInv, Bucket
<1>2. BucketsInv => NeverOverExact
  BY <1>1 DEF NeverOverExact
<1> QED BY <1>2, BucketInvariance, PTL

(* However its requests are timed, a tenant gets half of the rate: the       *)
(* refill that forgets a fraction has added more than it forgets.            *)
THEOREM AdmitsHalfTheRate == BucketSpec => []HalfRateGuaranteed
<1>1. ASSUME BucketsInv, NEW k \in Keys, half[k] >= Window PROVE Refilled(k) > 0
  <2>1. half[k] \in Int /\ Limit \in Nat /\ Limit >= 1 /\ Window \in Nat /\ Window >= 1
    BY <1>1, Constants DEF BucketsInv, Types
  <2>2. CASE Fresh(k)
    BY <1>1, <2>1, <2>2, RefillOfFresh DEF BucketsInv
  <2>3. CASE InUse(k)
    <3>1. /\ Added(k) \in Nat /\ tokens[k] \in Nat /\ Owed(k) \in Nat
          /\ Owed(k) < Added(k) * Window + Window
          /\ Added(k) = 0 => Refilled(k) = tokens[k]
          /\ Added(k) # 0 => Refilled(k) = Least(Limit, tokens[k] + Added(k))
      BY <1>1, <2>3, RefillOfUsed DEF BucketsInv
    <3>2. CASE Added(k) # 0
      BY <2>1, <3>1, <3>2 DEF Least
    <3>3. CASE Added(k) = 0
      <4>1. 0 * Window = 0
        BY <2>1
      <4>2. Owed(k) < Window
        BY <2>1, <3>1, <3>3, <4>1
      <4>3. tokens[k] # 0
        <5>1. half[k] <= 2 * (tokens[k] * Window) + Owed(k)
          BY <2>3 DEF InUse
        <5> DEFINE owed == Owed(k)
        <5>2. owed \in Nat /\ owed < Window /\ Window <= half[k] /\ half[k] \in Int /\ Window \in Int
          <6>1. owed \in Nat
            BY <3>1
          <6>2. owed < Window
            BY <4>2
          <6>3. Window <= half[k]
            BY <1>1, <2>1
          <6> QED BY <2>1, <6>1, <6>2, <6>3
        <5>3. tokens[k] = 0 => half[k] <= 2 * 0 + owed
          BY <4>1, <5>1
        <5> HIDE DEF owed
        <5> QED BY <5>2, <5>3
      <4> QED BY <3>1, <3>3, <4>3
    <3> QED BY <3>2, <3>3
  <2> QED BY <1>1, <2>2, <2>3 DEF BucketsInv, Bucket
<1>2. BucketsInv => HalfRateGuaranteed
  BY <1>1 DEF HalfRateGuaranteed
<1> QED BY <1>2, BucketInvariance, PTL

(* A refused tenant that waits for the window it is told is admitted, also   *)
(* if it asks in between (Retry-After of rateLimit).                         *)
THEOREM RetryAfterIsEnough == BucketSpec => []RetryAfterSuffices
<1>1. ASSUME BucketsInv, NEW k \in Keys, deniedAt[k] # None, now >= deniedAt[k] + Window PROVE Refilled(k) > 0
  <2>1. /\ deniedAt[k] \in Int /\ now \in Nat /\ lastRefill[k] \in Nat
        /\ Limit \in Nat /\ Limit >= 1 /\ Window \in Nat /\ Window >= 1
    BY <1>1, Constants DEF BucketsInv, Types
  <2>2. InUse(k)
    BY <1>1 DEF BucketsInv, Bucket, Fresh
  <2>3. now - lastRefill[k] >= Window /\ now - lastRefill[k] \in Nat
    BY <1>1, <2>1, <2>2 DEF InUse
  <2>4. Owed(k) >= Window
    <3> DEFINE elapsed == now - lastRefill[k]
    <3>1. elapsed \in Int /\ Window <= elapsed /\ 1 \in Int /\ Window \in Int /\ Limit \in Int
      BY <2>1, <2>3
    <3> HIDE DEF elapsed
    <3>2. Window * Limit <= elapsed * Limit /\ 1 * Window <= Limit * Window
      BY <2>1, <3>1, Monotone
    <3>3. 1 * Window = Window /\ Limit * Window = Window * Limit
      BY <2>1
    <3>4. elapsed * Limit \in Int /\ Window * Limit \in Int
      BY <2>1, <3>1
    <3>5. Window <= elapsed * Limit
      BY <3>1, <3>2, <3>3, <3>4
    <3> QED BY <3>5 DEF Owed, elapsed
  <2>5. /\ Added(k) \in Nat /\ tokens[k] \in Nat /\ Owed(k) \in Nat
        /\ Owed(k) < Added(k) * Window + Window
        /\ Added(k) # 0 => Refilled(k) = Least(Limit, tokens[k] + Added(k))
    BY <1>1, <2>2, RefillOfUsed DEF BucketsInv
  <2>6. Added(k) # 0
    <3>1. 0 * Window = 0
      BY <2>1
    <3> QED BY <2>1, <2>4, <2>5, <3>1
  <2> QED BY <2>1, <2>5, <2>6 DEF Least
<1>2. BucketsInv => RetryAfterSuffices
  BY <1>1 DEF RetryAfterSuffices
<1> QED BY <1>2, BucketInvariance, PTL

------------------------------------------------------------------------------
(* The circuit breaker.                                                      *)
BreakerInv == CircuitTypeOK /\ ProbingHasAProbe /\ ClosedMeansFewFailures

(* Recording a success keeps the types and closes the circuit.             *)
LEMMA SuccessCloses ==
    ASSUME CircuitTypeOK, RecordSuccess
    PROVE  /\ state' = "closed" /\ failures' = 0 /\ ~probing'
           /\ cooling' \in 0 .. Cooldown /\ probing' \in BOOLEAN
  BY DEF CircuitTypeOK, RecordSuccess

(* Recording a failure keeps the types, and the circuit is closed after it *)
(* only if that failure was still below the threshold.                     *)
LEMMA FailureCounts ==
    ASSUME CircuitTypeOK, ClosedMeansFewFailures, RecordFailure
    PROVE  /\ state' \in {"closed", "open", "half-open"}
           /\ failures' \in 0 .. Threshold
           /\ cooling' \in 0 .. Cooldown
           /\ ~probing' /\ probing' \in BOOLEAN
           /\ ClosedMeansFewFailures'
  <1> USE CircuitAssumption DEF CircuitTypeOK, RecordFailure, NotProbing
  <1>1. cooling' \in 0 .. Cooldown OBVIOUS
  <1>2. CASE failures < Threshold
    <2>1. failures' = failures + 1 /\ failures' \in 0 .. Threshold BY <1>2
    <2>2. CASE failures + 1 >= Threshold
      <3>1. state' = "open" BY <2>2 DEF Opens
      <3>2. ~(failures' < Threshold) BY <2>1, <2>2
      <3> QED BY <1>1, <2>1, <3>1, <3>2 DEF ClosedMeansFewFailures
    <2>3. CASE ~(failures + 1 >= Threshold)
      <3>1. state' = state BY <2>3 DEF Opens
      <3>2. failures' < Threshold BY <2>1, <2>3
      <3> QED BY <1>1, <1>2, <2>1, <3>1, <3>2 DEF ClosedMeansFewFailures
    <2> QED BY <2>2, <2>3
  <1>3. CASE ~(failures < Threshold)
    <2>1. failures' = failures BY <1>3
    <2>2. failures + 1 >= Threshold BY <1>3
    <2>3. state' = "open" BY <2>2 DEF Opens
    <2> QED BY <1>1, <1>3, <2>1, <2>3 DEF ClosedMeansFewFailures
  <1> QED BY <1>2, <1>3

(* What a request may become is a request.                                 *)
LEMMA RequestTypes ==
    ASSUME CircuitTypeOK, NEW r \in Requests, NEW probe \in BOOLEAN
    PROVE  /\ Send(r, probe) => req' \in [Requests -> RequestState]
           /\ End(r) => req' \in [Requests -> RequestState]
           /\ req[r].pc = "waiting" /\ req' = [req EXCEPT ![r].pc = "reading"]
                => req' \in [Requests -> RequestState]
  <1>1. Ended \in RequestState BY DEF RequestState
  <1>2. [pc |-> "waiting", probe |-> probe, broken |-> ~up] \in RequestState
    BY DEF RequestState
  <1>3. ASSUME req[r].pc = "waiting"
        PROVE  [req[r] EXCEPT !.pc = "reading"] \in RequestState
    BY <1>3 DEF CircuitTypeOK, RequestState, Ended
  <1> QED BY <1>1, <1>2, <1>3 DEF CircuitTypeOK, Send, End

(* The invariant holds at first.                                           *)
LEMMA InitBreakerInv == CircuitInit => BreakerInv
  <1> SUFFICES ASSUME CircuitInit PROVE BreakerInv
    OBVIOUS
  <1>1. req \in [Requests -> RequestState] BY DEF CircuitInit, RequestState
  <1>2. failures \in 0 .. Threshold /\ cooling \in 0 .. Cooldown
    BY CircuitAssumption DEF CircuitInit
  <1>3. CircuitTypeOK BY <1>1, <1>2 DEF CircuitInit, CircuitTypeOK
  <1>4. ProbingHasAProbe /\ ClosedMeansFewFailures
    BY CircuitAssumption DEF CircuitInit, ProbingHasAProbe,
           ClosedMeansFewFailures
  <1> QED BY <1>3, <1>4 DEF BreakerInv

(* Letting a request through, or turning it away, keeps the invariant.     *)
LEMMA AskInv ==
    ASSUME BreakerInv, NEW r \in Requests, Ask(r)
    PROVE  BreakerInv'
  <1> USE DEF BreakerInv
  <1>1. state' \in {"closed", "open", "half-open"}
    BY DEF Ask, CircuitTypeOK, CurrentState
  <1>2. req' \in [Requests -> RequestState]
    BY RequestTypes DEF Ask, CircuitTypeOK
  <1>3. CircuitTypeOK' BY <1>1, <1>2 DEF Ask, CircuitTypeOK
  <1>4. ClosedMeansFewFailures'
    BY DEF Ask, ClosedMeansFewFailures, CurrentState
  <1>5. ProbingHasAProbe'
    <2>1. CASE CurrentState = "half-open" /\ ~probing
      <3>1. state' = "half-open" /\ Send(r, TRUE)
        BY <2>1 DEF Ask
      <3>2. req'[r].pc = "waiting" /\ req'[r].probe
        BY <3>1 DEF Send, CircuitTypeOK
      <3> QED BY <3>1, <3>2 DEF ProbingHasAProbe
    <2>2. CASE probing /\ ~(CurrentState = "half-open" /\ ~probing)
      <3>1. PICK x \in Requests : req[x].pc = "waiting" /\ req[x].probe
        BY <2>2 DEF ProbingHasAProbe
      <3>2. state = "half-open" /\ state' = "half-open" /\ req' = req
        BY <2>2 DEF ProbingHasAProbe, Ask, CurrentState
      <3> QED BY <3>1, <3>2 DEF ProbingHasAProbe
    <2>3. CASE ~probing /\ ~(CurrentState = "half-open" /\ ~probing)
      <3>1. ~probing' BY <2>3 DEF Ask
      <3> QED BY <3>1 DEF ProbingHasAProbe
    <2> QED BY <2>1, <2>2, <2>3
  <1> QED BY <1>3, <1>4, <1>5

(* The end of a request, however it is recorded, keeps the invariant.      *)
LEMMA EndsInv ==
    ASSUME BreakerInv, NEW r \in Requests, Ends(r)
    PROVE  BreakerInv'
  <1> USE DEF BreakerInv
  <1>1. CASE Answered(r)
    <2>1. req' \in [Requests -> RequestState]
      BY <1>1, RequestTypes DEF Answered
    <2>2. RecordSuccess BY <1>1 DEF Answered
    <2>3. CircuitTypeOK'
      BY <1>1, <2>1, <2>2, SuccessCloses, CircuitAssumption
         DEF Answered, CircuitTypeOK
    <2> QED
      BY <2>2, <2>3, SuccessCloses, CircuitAssumption
      DEF ClosedMeansFewFailures, ProbingHasAProbe
  <1>2. CASE Failed(r) \/ BodyFailed(r)
    <2>1. req' \in [Requests -> RequestState]
      BY <1>2, RequestTypes DEF Failed, BodyFailed
    <2>2. RecordFailure BY <1>2 DEF Failed, BodyFailed
    <2>3. CircuitTypeOK' BY <1>2, <2>1, <2>2, FailureCounts
         DEF Failed, BodyFailed, CircuitTypeOK
    <2> QED BY <2>2, <2>3, FailureCounts DEF ProbingHasAProbe
  <1>3. CASE BodyRead(r)
    <2>1. CircuitTypeOK' BY <1>3, RequestTypes DEF BodyRead, CircuitTypeOK
    <2>2. ClosedMeansFewFailures' BY <1>3 DEF BodyRead, ClosedMeansFewFailures
    <2>3. ProbingHasAProbe'
      <3>1. CASE probing
        <4>1. PICK x \in Requests : req[x].pc = "waiting" /\ req[x].probe
          BY <3>1 DEF ProbingHasAProbe
        <4>2. x # r BY <1>3, <4>1 DEF BodyRead
        <4>3. req'[x] = req[x] BY <1>3, <4>2 DEF BodyRead, End, CircuitTypeOK
        <4> QED BY <1>3, <3>1, <4>1, <4>3 DEF BodyRead, ProbingHasAProbe
      <3>2. CASE ~probing BY <1>3, <3>2 DEF BodyRead, ProbingHasAProbe
      <3> QED BY <3>1, <3>2
    <2> QED BY <2>1, <2>2, <2>3
  <1> QED BY <1>1, <1>2, <1>3 DEF Ends

(* The clock, the health check and the collector keep the invariant.       *)
LEMMA EnvironmentInv ==
    ASSUME BreakerInv,
           GetInfo \/ CoolDown \/ CollectorStops
             \/ CollectorStarts
    PROVE  BreakerInv'
  <1> USE DEF BreakerInv
  <1>1. CASE GetInfo
    BY <1>1 DEF GetInfo, CircuitTypeOK, CurrentState,
           ClosedMeansFewFailures, ProbingHasAProbe
  <1>2. CASE CoolDown
    <2>1. cooling' \in 0 .. Cooldown BY <1>2, CircuitAssumption
         DEF CoolDown, CircuitTypeOK
    <2> QED BY <1>2, <2>1 DEF CoolDown, CircuitTypeOK, ClosedMeansFewFailures,
             ProbingHasAProbe
  <1>3. CASE CollectorStops
    <2>1. ASSUME NEW x \in Requests
          PROVE  /\ req'[x] \in RequestState
                 /\ req'[x].pc = req[x].pc /\ req'[x].probe = req[x].probe
      <3>1. req'[x] = IF req[x].pc = "idle" THEN req[x]
                      ELSE [req[x] EXCEPT !.broken = TRUE]
        BY <1>3 DEF CollectorStops
      <3>2. req[x] \in RequestState BY DEF CircuitTypeOK
      <3>3. CASE req[x].pc = "idle" BY <3>1, <3>2, <3>3
      <3>4. CASE req[x].pc # "idle"
        <4>1. req[x] \in [pc : {"waiting", "reading"}, probe : BOOLEAN, broken : BOOLEAN]
          BY <3>2, <3>4 DEF RequestState, Ended
        <4>2. [req[x] EXCEPT !.broken = TRUE] \in
                 [pc : {"waiting", "reading"}, probe : BOOLEAN, broken : BOOLEAN]
          BY <4>1
        <4> QED BY <3>1, <3>4, <4>1, <4>2 DEF RequestState
      <3> QED BY <3>3, <3>4
    <2>2. req' \in [Requests -> RequestState] BY <1>3, <2>1 DEF CollectorStops
    <2>3. CircuitTypeOK' BY <1>3, <2>2 DEF CollectorStops, CircuitTypeOK
    <2> QED BY <1>3, <2>1, <2>3 DEF CollectorStops, ClosedMeansFewFailures,
             ProbingHasAProbe
  <1>4. CASE CollectorStarts
    BY <1>4 DEF CollectorStarts, CircuitTypeOK,
           ClosedMeansFewFailures, ProbingHasAProbe
  <1> QED BY <1>1, <1>2, <1>3, <1>4

(* The invariant holds in every reachable state.                           *)
LEMMA BreakerInvariance == CircuitSpec => []BreakerInv
  <1>1. BreakerInv /\ [CircuitNext]_circuitVars => BreakerInv'
    <2>1. ASSUME BreakerInv, CircuitNext PROVE BreakerInv'
      BY <2>1, AskInv, EndsInv, EnvironmentInv DEF CircuitNext, Ends
    <2>2. ASSUME BreakerInv, UNCHANGED circuitVars PROVE BreakerInv'
      BY <2>2 DEF BreakerInv, circuitVars, CircuitTypeOK,
             ProbingHasAProbe, ClosedMeansFewFailures
    <2> QED BY <2>1, <2>2
  <1> QED BY InitBreakerInv, <1>1, PTL DEF CircuitSpec

(* The variables of the breaker have their types.                          *)
THEOREM CircuitTypes == CircuitSpec => []CircuitTypeOK
  BY BreakerInvariance, PTL DEF BreakerInv

(* The breaker is never wedged: while it turns requests away because a     *)
(* probe is in flight, there is such a probe.                              *)
THEOREM NeverWedged == CircuitSpec => []ProbingHasAProbe
  BY BreakerInvariance, PTL DEF BreakerInv

(* The circuit is closed exactly while few failures are on record.         *)
THEOREM ClosedUntilThreshold == CircuitSpec => []ClosedMeansFewFailures
  BY BreakerInvariance, PTL DEF BreakerInv
==============================================================================
