--------------------------- MODULE FuzzConcurrency ---------------------------
(***************************************************************************)
(* tests/fuzz_concurrency.cpp: producers push their tasks, each again and  *)
(* again until the queue accepts it, consumers pop until every task is     *)
(* counted, and the main thread joins them all and looks at the counts.    *)
(* The queue is MPMCTaskQueue step by step; pop is pop_batch with limit 1. *)
(***************************************************************************)
EXTENDS MPMCTaskQueue

CONSTANT PerProducer   \* TASKS_PER_PRODUCER

(* start_id + i for each producer.                                         *)
TestTasks == Producers \X (1..PerProducer)

TOTAL_TASKS == Cardinality(Tasks)

ASSUME TestAssumption == Tasks = TestTasks /\ BatchMax = 1

VARIABLES sent,                   \* a producer's i
          at,                     \* where a consumer is in its loop
          global_checksum,
          successfully_consumed,
          verdict                 \* "running", or what main returns

testVars == <<sent, at, global_checksum, successfully_consumed, verdict>>
fuzzVars == <<vars, testVars>>

FuzzInit ==
  /\ Init
  /\ sent = [p \in Producers |-> 0]
  /\ at = [c \in Consumers |-> "pop"]
  /\ global_checksum = [t \in Tasks |-> 0]
  /\ successfully_consumed = 0
  /\ verdict = "running"

----------------------------------------------------------------------------
(* The turn of a producer's loop, and of its retry loop: the first task    *)
(* that was not accepted yet.                                              *)
PushNext(p) ==
  /\ sent[p] < PerProducer
  /\ CallPush(p, <<p, sent[p] + 1>>)
  /\ UNCHANGED testVars

(* A step of push; when it returns true, i is advanced.                    *)
Pushing(p) ==
  /\ PushStep(p)
  /\ sent' = [sent EXCEPT ![p] = IF pc[p] = "p_publish" THEN @ + 1 ELSE @]
  /\ UNCHANGED <<at, global_checksum, successfully_consumed, verdict>>

CallPop(c) ==
  /\ at[c] = "pop" /\ pc[c] = "idle"
  /\ CallPopBatch(c)
  /\ at' = [at EXCEPT ![c] = "popping"]
  /\ UNCHANGED <<sent, global_checksum, successfully_consumed, verdict>>

(* A step of pop; when it returns, the result decides.                     *)
Popping(c) ==
  /\ PopStep(c)
  /\ at' = [at EXCEPT ![c] = CASE pc'[c] # "idle"     -> @
                               [] batch'[c] # << >>   -> "checksum"
                               [] OTHER               -> "test"]
  /\ UNCHANGED <<sent, global_checksum, successfully_consumed, verdict>>

(* The two fetch_adds.                                                     *)
Count(c) ==
  \/ /\ at[c] = "checksum"
     /\ at' = [at EXCEPT ![c] = "count"]
     /\ global_checksum' = [global_checksum EXCEPT ![batch[c][1]] = @ + 1]
     /\ UNCHANGED <<vars, sent, successfully_consumed, verdict>>
  \/ /\ at[c] = "count"
     /\ at' = [at EXCEPT ![c] = "pop"]
     /\ successfully_consumed' = successfully_consumed + 1
     /\ UNCHANGED <<vars, sent, global_checksum, verdict>>

(* Nothing was there: leave if that was all.                               *)
TestCount(c) ==
  /\ at[c] = "test"
  /\ at' = [at EXCEPT ![c] = IF successfully_consumed = TOTAL_TASKS
                             THEN "left" ELSE "pop"]
  /\ UNCHANGED <<vars, sent, global_checksum, successfully_consumed, verdict>>

(* join of every thread, and the look at the checksums.                    *)
JoinAndJudge ==
  /\ verdict = "running"
  /\ \A p \in Producers : sent[p] = PerProducer /\ pc[p] = "idle"
  /\ \A c \in Consumers : at[c] = "left"
  /\ verdict' = IF \A t \in Tasks : global_checksum[t] = 1
                THEN "success" ELSE "failure"
  /\ UNCHANGED <<vars, sent, at, global_checksum, successfully_consumed>>

FuzzNext == \/ \E p \in Producers : PushNext(p) \/ Pushing(p)
            \/ \E c \in Consumers : CallPop(c) \/ Popping(c) \/ Count(c) \/ TestCount(c)
            \/ JoinAndJudge

(* Every thread runs, and a weak compare-exchange that could succeed again *)
(* and again does so.                                                      *)
FuzzSpec ==
  /\ FuzzInit /\ [][FuzzNext]_fuzzVars
  /\ \A p \in Producers : /\ WF_fuzzVars(PushNext(p) \/ Pushing(p))
                          /\ SF_fuzzVars(Pushing(p) /\ CasTail(p))
  /\ \A c \in Consumers : /\ WF_fuzzVars(CallPop(c) \/ Popping(c) \/ Count(c) \/ TestCount(c))
                          /\ SF_fuzzVars(Popping(c) /\ CasHead(c))
  /\ WF_fuzzVars(JoinAndJudge)

----------------------------------------------------------------------------
(* The test ends, and with "SUCCESS": no producer retries forever although *)
(* the ring is smaller than what is pushed, and no consumer waits for a    *)
(* task that was dropped.                                                  *)
TestSucceeds == <>(verdict = "success")
=============================================================================
