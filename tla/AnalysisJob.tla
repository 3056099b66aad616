----------------------------- MODULE AnalysisJob -----------------------------
(***************************************************************************)
(* An analysis job of the backend: AnalysisService, DpiEngineService and   *)
(* AiService over Redis, a directory of uploads and the engine's process.  *)
(* startAnalysis calls processInBackground on `this', which @Async does    *)
(* not reach, so the thread of the request does everything and answers at  *)
(* the end.  Every access to Redis, every call of the engine or of the     *)
(* model, and every file operation is a step.                              *)
(*                                                                         *)
(* Redis may fail a command with or without having executed it, when the   *)
(* answer does not come in time.  The backend may crash; Redis and the     *)
(* files survive.  Keys expire in the order in which they were set, those  *)
(* of the cache (1 hour) apart from those of the jobs (24 hours).          *)
(*                                                                         *)
(* A definition that precedes another and is used nowhere is a wrong       *)
(* version of it: with it, a run must find a property violated.            *)
(***************************************************************************)
EXTENDS Naturals, Sequences, KeptInOrder

CONSTANTS Jobs,       \* the UUIDs of the jobs
          Summaries   \* what the engine may print, as far as the prompt tells it

VARIABLES pc,          \* where the thread of each job is
          told,        \* what its client was answered, if anything
          summary,     \* the DpiResult, once it is parsed
          explanation, \* the AiExplanation: who made it, and from which summary
          upload,      \* its file in the input directory
          status,      \* Redis: job:%s:status
          result,      \* Redis: job:%s:result
          cache,       \* Redis: ai:cache:%s, by the summary it explains
          expiring,    \* the keys of the jobs, in the order of their expiry
          expired      \* the jobs whose result did expire

redis == <<status, result, cache, expiring, expired>>
vars == <<pc, told, summary, explanation, upload, redis>>

Nothing == "nothing"
Absent == <<>>
Keys == {"status", "result"} \X Jobs
Explanations == {"model", "fallback"} \X Summaries

Init == /\ pc = [j \in Jobs |-> "new"]
        /\ told = [j \in Jobs |-> Nothing]
        /\ summary = [j \in Jobs |-> Nothing]
        /\ explanation = [j \in Jobs |-> Absent]
        /\ upload = [j \in Jobs |-> "none"]
        /\ status = [j \in Jobs |-> Nothing]
        /\ result = [j \in Jobs |-> Absent]
        /\ cache = [s \in Summaries |-> Absent]
        /\ expiring = <<>>
        /\ expired = {}

Goto(j, next) == pc' = [pc EXCEPT ![j] = next]

-----------------------------------------------------------------------------
(* Redis                                                                   *)

\* The key has its whole time to live again.
Touch(key) == expiring' = Append(Kept(expiring, Keys \ {key}), key)

PutStatusForever(j, s) == /\ status' = [status EXCEPT ![j] = s]
                          /\ UNCHANGED <<result, cache, expiring, expired>>
PutStatus(j, s) == /\ status' = [status EXCEPT ![j] = s]
                   /\ Touch(<<"status", j>>)
                   /\ UNCHANGED <<result, cache, expired>>
PutResult(j) ==
    /\ result' = [result EXCEPT ![j] = <<summary[j], explanation[j]>>]
    /\ Touch(<<"result", j>>)
    /\ UNCHANGED <<status, cache, expired>>
PutCache(j) == /\ cache' = [cache EXCEPT ![summary[j]] = <<"model", summary[j]>>]
               /\ UNCHANGED <<status, result, expiring, expired>>

\* A command succeeds, or throws after or without having been executed.
Command(j, put, next, thrown) == \/ put /\ Goto(j, next)
                                 \/ put /\ Goto(j, thrown)
                                 \/ UNCHANGED redis /\ Goto(j, thrown)

Expire == LET key == Head(expiring)  j == key[2]
          IN /\ expiring # <<>>
             /\ expiring' = Tail(expiring)
             /\ \/ /\ key[1] = "status"
                   /\ status' = [status EXCEPT ![j] = Nothing]
                   /\ UNCHANGED <<result, expired>>
                \/ /\ key[1] = "result"
                   /\ result' = [result EXCEPT ![j] = Absent]
                   /\ expired' = expired \cup {j}
                   /\ UNCHANGED status
             /\ UNCHANGED <<pc, told, summary, explanation, upload, cache>>
ExpireCache(s) ==
    /\ cache[s] # Absent
    /\ cache' = [cache EXCEPT ![s] = Absent]
    /\ UNCHANGED <<pc, told, summary, explanation, upload,
                   status, result, expiring, expired>>

-----------------------------------------------------------------------------
(* startAnalysis                                                           *)

\* The status is stored before there is anything to run.
StoreRunning(j) ==
    /\ pc[j] = "new"
    /\ Command(j, PutStatus(j, "RUNNING"), "save", "threw")
    /\ UNCHANGED <<told, summary, explanation, upload>>

Upload(j, state) == upload' = [upload EXCEPT ![j] = state]
\* saveUploadedFile may throw and leave a part of the file.
SaveUpload(j) ==
    /\ pc[j] = "save"
    /\ \/ Upload(j, "whole") /\ Goto(j, "run")
       \/ Upload(j, "part") /\ Goto(j, "threw")
       \/ UNCHANGED upload /\ Goto(j, "threw")
    /\ UNCHANGED <<told, summary, explanation, redis>>

-----------------------------------------------------------------------------
(* processInBackground                                                     *)

StartEngine(j) ==
    /\ pc[j] = "run"
    /\ Goto(j, "engine")
    /\ UNCHANGED <<told, summary, explanation, upload, redis>>

\* The process ends: with a summary that parses, or executeDpi or parseDpiResult
\* throws.  waitFor has no timeout.
EngineEnds(j) ==
    /\ pc[j] = "engine"
    /\ \/ \E s \in Summaries : summary' = [summary EXCEPT ![j] = s] /\ Goto(j, "lookup")
       \/ UNCHANGED summary /\ Goto(j, "catch")
    /\ UNCHANGED <<told, explanation, upload, redis>>

\* An explanation is a function of who wrote it and of the summary: the text, the
\* risk level and the insights are left out.  The prompt, whose hash is the cache
\* key, is a function of the summary alone (generatePrompt).
Explain(j, by) == explanation' = [explanation EXCEPT ![j] = <<by, summary[j]>>]

\* generateExplanation: the cache, the model and, after any exception, the
\* fallback.
LookUp(j) ==
    /\ pc[j] = "lookup"
    /\ LET cached == cache[summary[j]]
       IN \/ /\ cached # Absent
             /\ explanation' = [explanation EXCEPT ![j] = cached]
             /\ Goto(j, "result")
          \/ /\ cached = Absent
             /\ Goto(j, "ask")
             /\ UNCHANGED explanation
          \/ Explain(j, "fallback") /\ Goto(j, "result")
    /\ UNCHANGED <<told, summary, upload, redis>>
AskModelCachingFallback(j) ==
    /\ pc[j] = "ask"
    /\ \/ /\ Explain(j, "model") /\ Goto(j, "cache")
          /\ UNCHANGED redis
       \/ /\ Explain(j, "fallback") /\ Goto(j, "result")
          /\ cache' = [cache EXCEPT ![summary[j]] = <<"fallback", summary[j]>>]
          /\ UNCHANGED <<status, result, expiring, expired>>
    /\ UNCHANGED <<told, summary, upload>>
AskModel(j) ==
    /\ pc[j] = "ask"
    /\ \/ Explain(j, "model") /\ Goto(j, "cache")
       \/ Explain(j, "fallback") /\ Goto(j, "result")
    /\ UNCHANGED <<told, summary, upload, redis>>
StoreCache(j) ==
    /\ pc[j] = "cache"
    /\ \/ PutCache(j) /\ UNCHANGED explanation
       \/ PutCache(j) /\ Explain(j, "fallback")
       \/ UNCHANGED redis /\ Explain(j, "fallback")
    /\ Goto(j, "result")
    /\ UNCHANGED <<told, summary, upload>>

StoreResultThenFinish(j) ==
    /\ pc[j] = "result"
    /\ \/ PutResult(j) /\ Goto(j, "done")
       \/ UNCHANGED redis /\ Goto(j, "done")
    /\ UNCHANGED <<told, summary, explanation, upload>>
StoreResult(j) ==
    /\ pc[j] = "result"
    /\ Command(j, PutResult(j), "done", "catch")
    /\ UNCHANGED <<told, summary, explanation, upload>>
StoreDone(j) ==
    /\ pc[j] = "done"
    /\ Command(j, PutStatus(j, "DONE"), "finally", "catch")
    /\ UNCHANGED <<told, summary, explanation, upload>>
StoreFailedAndRetry(j) ==
    /\ pc[j] = "catch"
    /\ Command(j, PutStatus(j, "FAILED"), "run", "finally, threw")
    /\ UNCHANGED <<told, summary, explanation, upload>>
StoreFailedQuietly(j) ==
    /\ pc[j] = "catch"
    /\ Command(j, PutStatus(j, "FAILED"), "finally", "finally")
    /\ UNCHANGED <<told, summary, explanation, upload>>
StoreFailedInTry(j) ==
    /\ pc[j] = "catch"
    /\ Command(j, PutStatus(j, "FAILED"), "finally", "threw")
    /\ UNCHANGED <<told, summary, explanation, upload>>
\* The catch block; what it throws goes through the finally block to the caller.
StoreFailed(j) ==
    /\ pc[j] = "catch"
    /\ Command(j, PutStatus(j, "FAILED"), "finally", "finally, threw")
    /\ UNCHANGED <<told, summary, explanation, upload>>

\* deleteFile throws nothing; the deletion is taken to succeed.
DeleteUpload(j) ==
    /\ pc[j] \in {"finally", "finally, threw"}
    /\ Upload(j, "none")
    /\ Goto(j, IF pc[j] = "finally" THEN "answer" ELSE "threw")
    /\ UNCHANGED <<told, summary, explanation, redis>>

\* runAnalysis: 202 with the identifier and "RUNNING", or an error without it.
Answer(j) ==
    /\ pc[j] \in {"answer", "threw"}
    /\ told' = [told EXCEPT ![j] = IF pc[j] = "answer" THEN "RUNNING" ELSE "error"]
    /\ Goto(j, "ended")
    /\ summary' = [summary EXCEPT ![j] = Nothing]
    /\ explanation' = [explanation EXCEPT ![j] = Absent]
    /\ UNCHANGED <<upload, redis>>

\* The backend stops and is started again: its threads are gone.
Crash ==
    /\ pc' = [j \in Jobs |-> IF pc[j] \in {"new", "ended"} THEN pc[j] ELSE "lost"]
    /\ summary' = [j \in Jobs |-> Nothing]
    /\ explanation' = [j \in Jobs |-> Absent]
    /\ UNCHANGED <<told, upload, redis>>

JobStep(j) == \/ SaveUpload(j) \/ StartEngine(j) \/ LookUp(j) \/ AskModel(j)
              \/ StoreCache(j) \/ StoreResult(j) \/ StoreDone(j)
              \/ StoreFailed(j) \/ DeleteUpload(j) \/ Answer(j)
Next == \/ \E j \in Jobs : StoreRunning(j) \/ EngineEnds(j) \/ JobStep(j)
        \/ Crash
        \/ Expire
        \/ \E s \in Summaries : ExpireCache(s)

Spec == Init /\ [][Next]_vars

-----------------------------------------------------------------------------
(* Properties                                                              *)

InRedis(key) == \/ key[1] = "status" /\ status[key[2]] # Nothing
                \/ key[1] = "result" /\ result[key[2]] # Absent
\* The type invariant: what each variable may hold; every key of a job that is
\* in Redis will expire.
TypeOK ==
    /\ pc \in [Jobs -> {"new", "save", "run", "engine", "lookup", "ask", "cache",
                        "result", "done", "catch", "finally", "finally, threw",
                        "answer", "threw", "ended", "lost"}]
    /\ told \in [Jobs -> {Nothing, "RUNNING", "error"}]
    /\ summary \in [Jobs -> Summaries \cup {Nothing}]
    /\ explanation \in [Jobs -> Explanations \cup {Absent}]
    /\ upload \in [Jobs -> {"none", "part", "whole"}]
    /\ status \in [Jobs -> {Nothing, "RUNNING", "DONE", "FAILED"}]
    /\ cache \in [Summaries -> Explanations \cup {Absent}]
    /\ result \in [Jobs -> (Summaries \X Explanations) \cup {Absent}]
    /\ expired \subseteq Jobs
    /\ {expiring[i] : i \in DOMAIN expiring} = {key \in Keys : InRedis(key)}

\* DONE is never said of a job without a result, except that the result expires
\* first: Redis errors, crashes and the order of the two writes included.
DoneHasResult ==
    \A j \in Jobs :
        status[j] = "DONE" => result[j] # Absent \/ j \in expired

\* A client that was given an identifier never polls a job that nobody works on:
\* its status was decided, or has expired since.
AcceptedIsDecided ==
    \A j \in Jobs :
        told[j] = "RUNNING" => status[j] \in {"DONE", "FAILED", Nothing}

\* An upload outlives its request only if the backend crashed or the file could
\* not be saved whole: whatever throws after that, it is deleted.
UploadRemoved ==
    \A j \in Jobs : pc[j] = "ended" => upload[j] # "whole"

\* An outage of the model does not outlast itself: the fallback is never in the
\* cache; and a job is explained from its own summary, cached text included.
ExplanationSound ==
    /\ \A s \in Summaries : cache[s] \in {Absent, <<"model", s>>}
    /\ \A j \in Jobs : result[j] # Absent => result[j][2][2] = result[j][1]

\* A job that has ended does not run again, and one that failed is never done.
StatusNeverGoesBack ==
    [][ \A j \in Jobs : /\ status[j] \in {"DONE", "FAILED"} => status'[j] # "RUNNING"
                        /\ status[j] = "FAILED" => status'[j] # "DONE" ]_vars

\* README: "Returns Job ID immediately".  When a client is told that its job is
\* RUNNING, the job is not over.
ToldInTime ==
    [][ \A j \in Jobs : told[j] = Nothing /\ told'[j] = "RUNNING" =>
          status[j] \notin {"DONE", "FAILED"} ]_vars
=============================================================================
