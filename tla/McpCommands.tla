----------------------------- MODULE McpCommands ---------------------------
(***************************************************************************)
(* Idempotent commands of the MCP tools scan_request, case_open and        *)
(* case_set_disposition.  A caller claims the row of its key in            *)
(* mcp_commands (one row for a tenant, actor, operation and key), performs *)
(* the command and completes the row with the response; a later call with  *)
(* the key gets that response again.  The three steps are separate         *)
(* database calls: callers of one key interleave between them, and the     *)
(* process may be lost between any two.                                    *)
(***************************************************************************)
EXTENDS Naturals

CONSTANTS Caller,   \* requests under way at the same time
          Key,      \* keys of commands, each for one operation
          ScanKey,  \* those of scan_request, which is rate limited
          Input     \* request fingerprints

ASSUME CommandAssumption == ScanKey \subseteq Key /\ Input # {}

VARIABLES command,   \* command[k]: the mcp_commands row of k
          pc, call,  \* of each caller: the next step, and its key and input
          result,    \* result[c]: the response c will record
          (* History *)
          effects,   \* effects[k]: how often the command of k took effect
          charged,   \* charged[k]: how often k was charged to the scan quota
          answers    \* the responses callers got: <<key, input, response>>

vars == <<command, pc, call, result, effects, charged, answers>>

Response == {"ok", "error"}
NoResponse == "none"
Row == [status : {"NONE", "PENDING", "COMPLETED", "FAILED"},
        input : Input, response : Response \cup {NoResponse}]
NoRow == [status |-> "NONE", input |-> CHOOSE i \in Input : TRUE, response |-> NoResponse]

Init ==
    /\ command = [k \in Key |-> NoRow]
    /\ pc = [c \in Caller |-> "idle"]
    /\ call \in [Caller -> Key \X Input]
    /\ result = [c \in Caller |-> NoResponse]
    /\ effects = [k \in Key |-> 0]
    /\ charged = [k \in Key |-> 0]
    /\ answers = {}

KeyOf(c) == call[c][1]
InputOf(c) == call[c][2]
Goto(c, label) == pc' = [pc EXCEPT ![c] = label]

(* The call ends with an error of its own, which is not recorded.          *)
GiveUp(c) ==
    /\ Goto(c, "idle")
    /\ result' = [result EXCEPT ![c] = NoResponse]
Answer(c, response) == answers' = answers \cup {<<KeyOf(c), InputOf(c), response>>}
-----------------------------------------------------------------------------
Start(c) ==
    /\ pc[c] = "idle"
    /\ \E k \in Key, i \in Input : call' = [call EXCEPT ![c] = <<k, i>>]
    /\ Goto(c, "find")
    /\ UNCHANGED <<command, result, effects, charged, answers>>

AnyInput(row, i) == TRUE  \* variant
SameInput(row, i) == row.input = i
Claimed(row) == row.status # "NONE"  \* variant
Settled(row) == row.status \in {"COMPLETED", "FAILED"} /\ row.response # NoResponse

(* resolveExisting: MCP_IDEMPOTENCY_CONFLICT, MCP_COMMAND_IN_PROGRESS or   *)
(* the recorded response.                                                  *)
ResolveExisting(c, row) ==
    /\ IF SameInput(row, InputOf(c)) /\ Settled(row)
       THEN Answer(c, row.response)
       ELSE UNCHANGED answers
    /\ GiveUp(c)

(* claim looks for the row, and again after its insert met another.        *)
Find(c) ==
    /\ pc[c] \in {"find", "find again"}
    /\ IF command[KeyOf(c)].status # "NONE"
       THEN ResolveExisting(c, command[KeyOf(c)])
       ELSE Goto(c, "insert") /\ UNCHANGED <<result, answers>>
    /\ UNCHANGED <<command, call, effects, charged>>

AnyKey(k) == TRUE  \* variant
KeyIsFree(k) == command[k].status = "NONE"

(* After the insert the command is this caller's: a scan asks for quota,   *)
(* another command is performed at once.                                   *)
Insert(c) ==
    /\ pc[c] = "insert"
    /\ IF KeyIsFree(KeyOf(c))
       THEN /\ command' = [command EXCEPT ![KeyOf(c)] =
                   [status |-> "PENDING", input |-> InputOf(c), response |-> NoResponse]]
            /\ Goto(c, IF KeyOf(c) \in ScanKey THEN "charge" ELSE "perform")
       ELSE Goto(c, "find again") /\ UNCHANGED command
    /\ UNCHANGED <<call, result, effects, charged, answers>>

(* consumeMcpScanQuota.                                                    *)
Charge(c) ==
    /\ pc[c] = "charge"
    /\ \/ /\ charged' = [charged EXCEPT ![KeyOf(c)] = @ + 1]
          /\ Goto(c, "perform")
          /\ UNCHANGED result
       \/ /\ result' = [result EXCEPT ![c] = "error"]  \* RATE_LIMITED
          /\ Goto(c, "complete")
          /\ UNCHANGED charged
    /\ UNCHANGED <<command, call, effects, answers>>

(* The collector is asked for the scan, or the transaction on the case is  *)
(* run.  When the answer is an error, or none, it may have taken effect.   *)
(* case_open only reads, which is an effect nobody can see twice.          *)
Perform(c) ==
    /\ pc[c] = "perform"
    /\ \E response \in Response, done \in BOOLEAN :
          /\ response = "ok" => done
          /\ result' = [result EXCEPT ![c] = response]
          /\ effects' = IF done THEN [effects EXCEPT ![KeyOf(c)] = @ + 1] ELSE effects
    /\ Goto(c, "complete")
    /\ UNCHANGED <<command, call, charged, answers>>

(* complete, and the answer to the caller, unless that is lost.            *)
Complete(c) ==
    /\ pc[c] = "complete"
    /\ IF command[KeyOf(c)].status = "PENDING"
       THEN /\ command' = [command EXCEPT ![KeyOf(c)] =
                   [status |-> IF result[c] = "ok" THEN "COMPLETED" ELSE "FAILED",
                    input |-> command[KeyOf(c)].input,
                    response |-> result[c]]]
            /\ \/ Answer(c, result[c])
               \/ UNCHANGED answers
       ELSE UNCHANGED <<command, answers>>  \* MCP_COMMAND_CONFLICT
    /\ GiveUp(c)
    /\ UNCHANGED <<call, effects, charged>>

(* The process is lost, or the database refuses the next call.  A command  *)
(* under way may still take effect.                                        *)
Crash(c) ==
    /\ pc[c] # "idle"
    /\ GiveUp(c)
    /\ \/ pc[c] = "perform" /\ effects' = [effects EXCEPT ![KeyOf(c)] = @ + 1]
       \/ UNCHANGED effects
    /\ UNCHANGED <<command, call, charged, answers>>

Next ==
    \/ \E c \in Caller : Start(c)
    \/ \E c \in Caller : Find(c)
    \/ \E c \in Caller : Insert(c)
    \/ \E c \in Caller : Charge(c)
    \/ \E c \in Caller : Perform(c)
    \/ \E c \in Caller : Complete(c)
    \/ \E c \in Caller : Crash(c)

Spec == Init /\ [][Next]_vars
-----------------------------------------------------------------------------
TypeOK ==
    /\ command \in [Key -> Row]
    /\ pc \in [Caller -> {"idle", "find", "insert", "find again",
                          "charge", "perform", "complete"}]
    /\ call \in [Caller -> Key \X Input]
    /\ result \in [Caller -> Response \cup {NoResponse}]
    /\ effects \in [Key -> Nat]
    /\ charged \in [Key -> Nat]
    /\ answers \in SUBSET (Key \X Input \X Response)

\* However often and by however many callers a key is used, and wherever they are
\* lost, its command takes effect at most once and is charged at most once to the
\* scan quota: retries are safe and replays are free.
CommandRunsOnce == \A k \in Key : effects[k] <= 1 /\ charged[k] <= 1

\* All answers to the calls of a key are one answer: they were given for one input,
\* agree with each other and with the row, and report success only for a command
\* that took effect.
AnswersAgree ==
    \A a \in answers :
        /\ command[a[1]].status = IF a[3] = "ok" THEN "COMPLETED" ELSE "FAILED"
        /\ command[a[1]].input = a[2]
        /\ a[3] = "ok" => effects[a[1]] = 1
=============================================================================
