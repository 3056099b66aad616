-------------------------- MODULE AnalysisJobProofs --------------------------
(***************************************************************************)
(* What holds of AnalysisJob for every set of jobs and summaries: a job    *)
(* that is DONE has a result, one whose client has its identifier was      *)
(* decided, a status never goes back, uploads are removed and explanations *)
(* belong to the summary they are stored with - whatever Redis, the engine *)
(* or the model do, and crashes included.  What each of these needs is     *)
(* known only from where the threads are: the invariant says what a thread *)
(* holds at each place and how far the status may be then.                 *)
(***************************************************************************)
EXTENDS AnalysisJob, InductionLemmas

\* Where the thread of a job says what is stored for it.
Running == {"new", "save", "run", "engine", "lookup", "ask", "cache", "result", "done"}
Parsed == {"lookup", "ask", "cache", "result"}
Places == Running \cup {"catch", "finally", "finally, threw", "answer", "threw",
                        "ended", "lost"}
Types ==
    /\ pc \in [Jobs -> Places]
    /\ told \in [Jobs -> {Nothing, "RUNNING", "error"}]
    /\ summary \in [Jobs -> Summaries \cup {Nothing}]
    /\ explanation \in [Jobs -> Explanations \cup {Absent}]
    /\ upload \in [Jobs -> {"none", "part", "whole"}]
    /\ status \in [Jobs -> {Nothing, "RUNNING", "DONE", "FAILED"}]
    /\ cache \in [Summaries -> Explanations \cup {Absent}]
    /\ result \in [Jobs -> (Summaries \X Explanations) \cup {Absent}]
    /\ expired \subseteq Jobs

\* What the thread of a job holds between two steps.
ThreadInv ==
    \A j \in Jobs :
        /\ pc[j] \in Parsed => summary[j] \in Summaries
        /\ pc[j] \in {"cache", "result"} =>
             \E by \in {"model", "fallback"} : explanation[j] = <<by, summary[j]>>
        /\ told[j] # Nothing => pc[j] = "ended"

\* How far the status may be when the thread is at a place.
StatusInv ==
    \A j \in Jobs :
        /\ pc[j] \in Running => status[j] \notin {"DONE", "FAILED"}
        /\ pc[j] = "catch" => status[j] # "FAILED"
        /\ pc[j] \in {"finally", "answer"} \/ told[j] = "RUNNING" =>
             status[j] \in {"DONE", "FAILED", Nothing}
        /\ pc[j] = "done" \/ status[j] = "DONE" => result[j] # Absent \/ j \in expired

UploadInv ==
    \A j \in Jobs :
        /\ pc[j] \in {"new", "save", "answer"} => upload[j] = "none"
        /\ pc[j] \in {"threw", "ended"} => upload[j] # "whole"

ExpiryInv == /\ expiring \in Seq(Keys) /\ Distinct(expiring)
             /\ Range(expiring) = {key \in Keys : InRedis(key)}

JobInv == Types /\ ThreadInv /\ StatusInv /\ UploadInv /\ ExplanationSound /\ ExpiryInv

-----------------------------------------------------------------------------
(* Redis                                                                   *)

LEMMA TailFacts ==
    ASSUME NEW T, NEW s \in Seq(T), s # <<>>, Distinct(s)
    PROVE  /\ Head(s) \in Range(s)
           /\ Tail(s) \in Seq(T) /\ Distinct(Tail(s))
           /\ Range(Tail(s)) = Range(s) \ {Head(s)}
<1> DEFINE t == Tail(s)
<1>1. /\ t \in Seq(T) /\ Len(t) = Len(s) - 1 /\ Len(s) \in Nat /\ Len(s) # 0
      /\ DOMAIN s = 1 .. Len(s) /\ DOMAIN t = 1 .. Len(s) - 1
      /\ Head(s) = s[1]
  OBVIOUS
<1>2. \A i \in DOMAIN t : t[i] = s[i + 1] /\ i + 1 \in DOMAIN s
  OBVIOUS
<1> HIDE DEF t
<1>3. Head(s) \in Range(s)
  BY <1>1 DEF Range
<1>4. Distinct(t)
  BY <1>1, <1>2 DEF Distinct
<1>5. Range(t) = Range(s) \ {Head(s)}
  <2>1. \A i \in DOMAIN s : i # 1 => i - 1 \in DOMAIN t /\ s[i] = t[i - 1]
    BY <1>1, <1>2
  <2>2. ASSUME NEW x \in Range(s), x # Head(s) PROVE x \in Range(t)
    BY <1>1, <2>1, <2>2 DEF Range
  <2>3. ASSUME NEW x \in Range(t) PROVE x \in Range(s) /\ x # Head(s)
    <3>1. PICK i \in DOMAIN t : x = t[i]
      BY <2>3 DEF Range
    <3>2. x = s[i + 1] /\ i + 1 \in DOMAIN s /\ 1 \in DOMAIN s /\ i + 1 # 1
      BY <1>1, <1>2, <3>1
    <3>3. x # s[1]
      BY <3>2 DEF Distinct
    <3> QED
      BY <1>1, <3>2, <3>3 DEF Range
  <2> QED
    BY <2>2, <2>3
<1> QED
  BY <1>1, <1>3, <1>4, <1>5 DEF t

\* A key whose time begins anew is the last to expire.
LEMMA TouchFacts ==
    ASSUME ExpiryInv, NEW key \in Keys, Touch(key)
    PROVE  /\ expiring' \in Seq(Keys) /\ Distinct(expiring')
           /\ Range(expiring') = Range(expiring) \cup {key}
<1> DEFINE rest == Kept(expiring, Keys \ {key})
<1>1. expiring \in Seq(Keys) /\ Distinct(expiring) /\ Range(expiring) \subseteq Keys
  BY DEF ExpiryInv
<1>2. /\ rest \in Seq(Keys) /\ Distinct(rest)
      /\ Range(rest) = Range(expiring) \cap (Keys \ {key})
  BY <1>1, KeptFacts
<1>3. expiring' = Append(rest, key)
  BY DEF Touch
<1> HIDE DEF rest
<1>4. key \notin Range(rest)
  BY <1>2
<1>5. /\ Append(rest, key) \in Seq(Keys) /\ Distinct(Append(rest, key))
      /\ Range(Append(rest, key)) = Range(rest) \cup {key}
  BY <1>2, <1>4, DistinctAppend
<1>6. Range(rest) \cup {key} = Range(expiring) \cup {key}
  BY <1>1, <1>2
<1> QED
  BY <1>3, <1>5, <1>6

LEMMA RedisKept ==
    ASSUME ExplanationSound, ExpiryInv, UNCHANGED redis
    PROVE  ExplanationSound' /\ ExpiryInv'
BY DEF ExplanationSound, ExpiryInv, InRedis, redis

LEMMA PutStatusFacts ==
    ASSUME Types, ExplanationSound, ExpiryInv, NEW j \in Jobs,
           NEW s \in {"RUNNING", "DONE", "FAILED"}, PutStatus(j, s)
    PROVE  /\ status' \in [Jobs -> {Nothing, "RUNNING", "DONE", "FAILED"}]
           /\ status'[j] = s /\ \A k \in Jobs \ {j} : status'[k] = status[k]
           /\ UNCHANGED <<result, cache, expired>>
           /\ ExplanationSound' /\ ExpiryInv'
<1>1. /\ status \in [Jobs -> {Nothing, "RUNNING", "DONE", "FAILED"}]
      /\ status' = [status EXCEPT ![j] = s] /\ Touch(<<"status", j>>)
      /\ result' = result /\ cache' = cache /\ expired' = expired
  BY DEF Types, PutStatus
<1>2. /\ status' \in [Jobs -> {Nothing, "RUNNING", "DONE", "FAILED"}]
      /\ status'[j] = s /\ \A k \in Jobs \ {j} : status'[k] = status[k]
  BY <1>1
<1>3. ExplanationSound'
  BY <1>1 DEF ExplanationSound
<1>4. ExpiryInv'
  <2>1. <<"status", j>> \in Keys
    BY DEF Keys
  <2>2. /\ expiring' \in Seq(Keys) /\ Distinct(expiring')
        /\ Range(expiring') = Range(expiring) \cup {<<"status", j>>}
    BY <1>1, <2>1, TouchFacts
  <2>3. ASSUME NEW key \in Keys
        PROVE  InRedis(key)' <=> InRedis(key) \/ key = <<"status", j>>
    <3>1. PICK kind \in {"status", "result"}, k \in Jobs : key = <<kind, k>>
      BY DEF Keys
    <3>2. s # Nothing
      BY DEF Nothing
    <3>3. CASE kind = "status" /\ k = j
      BY <1>2, <3>1, <3>2, <3>3 DEF InRedis
    <3>4. CASE kind = "status" /\ k # j
      BY <1>1, <1>2, <3>1, <3>4 DEF InRedis
    <3>5. CASE kind = "result"
      BY <1>1, <3>1, <3>5 DEF InRedis
    <3> QED
      BY <3>3, <3>4, <3>5
  <2>4. Range(expiring') = {key \in Keys : InRedis(key)'}
    BY <2>1, <2>2, <2>3 DEF ExpiryInv
  <2> QED
    BY <2>2, <2>4 DEF ExpiryInv
<1> QED
  BY <1>1, <1>2, <1>3, <1>4

LEMMA PutResultFacts ==
    ASSUME Types, ThreadInv, ExplanationSound, ExpiryInv, NEW j \in Jobs,
           pc[j] = "result", PutResult(j)
    PROVE  /\ result' \in [Jobs -> (Summaries \X Explanations) \cup {Absent}]
           /\ result'[j] # Absent /\ \A k \in Jobs \ {j} : result'[k] = result[k]
           /\ UNCHANGED <<status, cache, expired>>
           /\ ExplanationSound' /\ ExpiryInv'
<1> DEFINE new == <<summary[j], explanation[j]>>
<1>1. /\ result \in [Jobs -> (Summaries \X Explanations) \cup {Absent}]
      /\ result' = [result EXCEPT ![j] = new] /\ Touch(<<"result", j>>)
      /\ status' = status /\ cache' = cache /\ expired' = expired
  BY DEF Types, PutResult
<1>2. summary[j] \in Summaries
  BY DEF ThreadInv, Parsed
<1>3. PICK by \in {"model", "fallback"} : explanation[j] = <<by, summary[j]>>
  BY DEF ThreadInv
<1>4. new \in Summaries \X Explanations /\ new[2][2] = new[1] /\ new # Absent
  BY <1>2, <1>3 DEF Explanations, Absent
<1> HIDE DEF new
<1>5. /\ result' \in [Jobs -> (Summaries \X Explanations) \cup {Absent}]
      /\ result'[j] = new /\ \A k \in Jobs \ {j} : result'[k] = result[k]
  BY <1>1, <1>4
<1>6. ExplanationSound'
  BY <1>1, <1>4, <1>5 DEF ExplanationSound
<1>7. ExpiryInv'
  <2>1. <<"result", j>> \in Keys
    BY DEF Keys
  <2>2. /\ expiring' \in Seq(Keys) /\ Distinct(expiring')
        /\ Range(expiring') = Range(expiring) \cup {<<"result", j>>}
    BY <1>1, <2>1, TouchFacts
  <2>3. ASSUME NEW key \in Keys
        PROVE  InRedis(key)' <=> InRedis(key) \/ key = <<"result", j>>
    <3>1. PICK kind \in {"status", "result"}, k \in Jobs : key = <<kind, k>>
      BY DEF Keys
    <3>2. CASE kind = "result" /\ k = j
      BY <1>4, <1>5, <3>1, <3>2 DEF InRedis
    <3>3. CASE kind = "result" /\ k # j
      BY <1>5, <3>1, <3>3 DEF InRedis
    <3>4. CASE kind = "status"
      BY <1>1, <3>1, <3>4 DEF InRedis
    <3> QED
      BY <3>2, <3>3, <3>4
  <2>4. Range(expiring') = {key \in Keys : InRedis(key)'}
    BY <2>1, <2>2, <2>3 DEF ExpiryInv
  <2> QED
    BY <2>2, <2>4 DEF ExpiryInv
<1> QED
  BY <1>1, <1>4, <1>5, <1>6, <1>7

\* What Expire takes away: a status, or the result of a job that is remembered.
LEMMA ExpireFacts ==
    ASSUME Types, ExplanationSound, ExpiryInv, Expire
    PROVE  /\ status' \in [Jobs -> {Nothing, "RUNNING", "DONE", "FAILED"}]
           /\ result' \in [Jobs -> (Summaries \X Explanations) \cup {Absent}]
           /\ \A k \in Jobs : status'[k] \in {status[k], Nothing}
           /\ \A k \in Jobs : result'[k] = result[k] \/ k \in expired'
           /\ expired' \subseteq Jobs /\ expired \subseteq expired'
           /\ ExplanationSound' /\ ExpiryInv'
<1> DEFINE key == Head(expiring)
           j == key[2]
<1>1. /\ expiring \in Seq(Keys) /\ Distinct(expiring) /\ expiring # <<>>
      /\ Range(expiring) = {k \in Keys : InRedis(k)}
  BY DEF ExpiryInv, Expire
<1>2. /\ key \in Range(expiring)
      /\ Tail(expiring) \in Seq(Keys) /\ Distinct(Tail(expiring))
      /\ Range(Tail(expiring)) = Range(expiring) \ {key}
  BY <1>1, TailFacts
<1>3. key \in Keys
  BY <1>1, <1>2
<1>4. /\ expiring' = Tail(expiring) /\ cache' = cache
      /\ \/ /\ key[1] = "status"
            /\ status' = [status EXCEPT ![j] = Nothing]
            /\ result' = result /\ expired' = expired
         \/ /\ key[1] = "result"
            /\ result' = [result EXCEPT ![j] = Absent]
            /\ expired' = expired \cup {j} /\ status' = status
  BY DEF Expire
<1> HIDE DEF key
<1>5. key = <<key[1], j>> /\ j \in Jobs
  BY <1>3 DEF Keys
<1> HIDE DEF j
<1>6. /\ status \in [Jobs -> {Nothing, "RUNNING", "DONE", "FAILED"}]
      /\ result \in [Jobs -> (Summaries \X Explanations) \cup {Absent}]
      /\ expired \subseteq Jobs
  BY DEF Types
<1>7. ExplanationSound'
  BY <1>4, <1>5, <1>6 DEF ExplanationSound
<1>8. ExpiryInv'
  <2>1. ASSUME NEW x \in Keys
        PROVE  InRedis(x)' <=> InRedis(x) /\ x # key
    <3>1. PICK kind \in {"status", "result"}, k \in Jobs : x = <<kind, k>>
      BY DEF Keys
    <3>2. CASE key[1] = "status"
      <4>1. /\ status' = [status EXCEPT ![j] = Nothing] /\ result' = result
        BY <1>4, <3>2
      <4>2. CASE kind = "status"
        BY <1>5, <1>6, <3>1, <3>2, <4>1, <4>2 DEF InRedis
      <4>3. CASE kind = "result"
        BY <1>5, <1>6, <3>1, <3>2, <4>1, <4>3 DEF InRedis
      <4> QED
        BY <4>2, <4>3
    <3>3. CASE key[1] = "result"
      <4>1. /\ result' = [result EXCEPT ![j] = Absent] /\ status' = status
        BY <1>4, <3>3
      <4>2. CASE kind = "status"
        BY <1>5, <1>6, <3>1, <3>3, <4>1, <4>2 DEF InRedis
      <4>3. CASE kind = "result"
        BY <1>5, <1>6, <3>1, <3>3, <4>1, <4>3 DEF InRedis
      <4> QED
        BY <4>2, <4>3
    <3> QED
      BY <1>4, <3>2, <3>3
  <2>2. Range(expiring') = {k \in Keys : InRedis(k)'}
    BY <1>1, <1>2, <1>4, <2>1
  <2> QED
    BY <1>2, <1>4, <2>2 DEF ExpiryInv
<1>9. /\ status' \in [Jobs -> {Nothing, "RUNNING", "DONE", "FAILED"}]
      /\ result' \in [Jobs -> (Summaries \X Explanations) \cup {Absent}]
      /\ expired' \subseteq Jobs /\ expired \subseteq expired'
  BY <1>4, <1>5, <1>6
<1>10. /\ \A k \in Jobs : status'[k] \in {status[k], Nothing}
       /\ \A k \in Jobs : result'[k] = result[k] \/ k \in expired'
  BY <1>4, <1>5, <1>6
<1> QED
  BY <1>7, <1>8, <1>9, <1>10

-----------------------------------------------------------------------------
(* The steps                                                               *)

\* The pc of one thread changes.
LEMMA GotoFacts ==
    ASSUME Types, NEW j \in Jobs, NEW next \in Places, Goto(j, next)
    PROVE  /\ pc' \in [Jobs -> Places]
           /\ pc'[j] = next /\ \A k \in Jobs \ {j} : pc'[k] = pc[k]
BY DEF Types, Goto

LEMMA SaveUploadStep ==
    ASSUME JobInv, NEW j \in Jobs, SaveUpload(j)
    PROVE  JobInv'
<1>1. Types /\ ThreadInv /\ StatusInv /\ UploadInv /\ ExplanationSound /\ ExpiryInv
  BY DEF JobInv
<1>2. /\ pc[j] = "save" /\ UNCHANGED <<told, summary, explanation>> /\ UNCHANGED redis
      /\ \/ upload' = [upload EXCEPT ![j] = "whole"] /\ Goto(j, "run")
         \/ upload' = [upload EXCEPT ![j] = "part"] /\ Goto(j, "threw")
         \/ upload' = upload /\ Goto(j, "threw")
  BY DEF SaveUpload, Upload
<1>3. \/ /\ upload' = [upload EXCEPT ![j] = "whole"]
         /\ pc' \in [Jobs -> Places]
         /\ pc'[j] = "run" /\ \A k \in Jobs \ {j} : pc'[k] = pc[k]
      \/ /\ \/ upload' = [upload EXCEPT ![j] = "part"]
            \/ upload' = upload
         /\ pc' \in [Jobs -> Places]
         /\ pc'[j] = "threw" /\ \A k \in Jobs \ {j} : pc'[k] = pc[k]
  BY <1>1, <1>2, GotoFacts DEF Places, Running
<1>4. ExplanationSound' /\ ExpiryInv'
  BY <1>1, <1>2, RedisKept
<1>5. /\ UNCHANGED status /\ UNCHANGED result /\ UNCHANGED cache /\ UNCHANGED expired
  BY <1>2 DEF redis
<1>6. Types'
  BY <1>1, <1>2, <1>3, <1>5 DEF Types, Places
<1>7. ThreadInv'
  BY <1>1, <1>2, <1>3, <1>5 DEF ThreadInv, Types, Parsed
<1>8. StatusInv'
  BY <1>1, <1>2, <1>3, <1>5 DEF StatusInv, ThreadInv, Running, Types
<1>9. UploadInv'
  BY <1>1, <1>2, <1>3, <1>5 DEF UploadInv, Types
<1> QED
  BY <1>4, <1>6, <1>7, <1>8, <1>9 DEF JobInv

LEMMA StartEngineStep ==
    ASSUME JobInv, NEW j \in Jobs, StartEngine(j)
    PROVE  JobInv'
<1>1. Types /\ ThreadInv /\ StatusInv /\ UploadInv /\ ExplanationSound /\ ExpiryInv
  BY DEF JobInv
<1>2. /\ pc[j] = "run" /\ UNCHANGED <<told, summary, explanation, upload>>
      /\ UNCHANGED redis /\ Goto(j, "engine")
  BY DEF StartEngine
<1>3. /\ pc' \in [Jobs -> Places]
      /\ pc'[j] = "engine" /\ \A k \in Jobs \ {j} : pc'[k] = pc[k]
  BY <1>1, <1>2, GotoFacts DEF Places, Running
<1>4. ExplanationSound' /\ ExpiryInv'
  BY <1>1, <1>2, RedisKept
<1>5. /\ UNCHANGED status /\ UNCHANGED result /\ UNCHANGED cache /\ UNCHANGED expired
  BY <1>2 DEF redis
<1>6. Types'
  BY <1>1, <1>2, <1>3, <1>5 DEF Types, Places
<1>7. ThreadInv'
  BY <1>1, <1>2, <1>3, <1>5 DEF ThreadInv, Types, Parsed
<1>8. StatusInv'
  BY <1>1, <1>2, <1>3, <1>5 DEF StatusInv, ThreadInv, Running, Types
<1>9. UploadInv'
  BY <1>1, <1>2, <1>3, <1>5 DEF UploadInv, Types
<1> QED
  BY <1>4, <1>6, <1>7, <1>8, <1>9 DEF JobInv

LEMMA EngineEndsStep ==
    ASSUME JobInv, NEW j \in Jobs, EngineEnds(j)
    PROVE  JobInv'
<1>1. Types /\ ThreadInv /\ StatusInv /\ UploadInv /\ ExplanationSound /\ ExpiryInv
  BY DEF JobInv
<1>2. /\ pc[j] = "engine" /\ UNCHANGED <<told, explanation, upload>>
      /\ UNCHANGED redis
      /\ \/ \E s \in Summaries : summary' = [summary EXCEPT ![j] = s] /\ Goto(j, "lookup")
         \/ summary' = summary /\ Goto(j, "catch")
  BY DEF EngineEnds
<1>3. \/ /\ \E s \in Summaries : summary' = [summary EXCEPT ![j] = s]
         /\ pc' \in [Jobs -> Places]
         /\ pc'[j] = "lookup" /\ \A k \in Jobs \ {j} : pc'[k] = pc[k]
      \/ /\ summary' = summary
         /\ pc' \in [Jobs -> Places]
         /\ pc'[j] = "catch" /\ \A k \in Jobs \ {j} : pc'[k] = pc[k]
  BY <1>1, <1>2, GotoFacts DEF Places, Running
<1>4. ExplanationSound' /\ ExpiryInv'
  BY <1>1, <1>2, RedisKept
<1>5. /\ UNCHANGED status /\ UNCHANGED result /\ UNCHANGED cache /\ UNCHANGED expired
  BY <1>2 DEF redis
<1>6. Types'
  BY <1>1, <1>2, <1>3, <1>5 DEF Types, Places
<1>7. ThreadInv'
  BY <1>1, <1>2, <1>3, <1>5 DEF ThreadInv, Types, Parsed
<1>8. StatusInv'
  BY <1>1, <1>2, <1>3, <1>5 DEF StatusInv, ThreadInv, Running, Types
<1>9. UploadInv'
  BY <1>1, <1>2, <1>3, <1>5 DEF UploadInv, Types
<1> QED
  BY <1>4, <1>6, <1>7, <1>8, <1>9 DEF JobInv

LEMMA LookUpStep ==
    ASSUME JobInv, NEW j \in Jobs, LookUp(j)
    PROVE  JobInv'
<1>1. Types /\ ThreadInv /\ StatusInv /\ UploadInv /\ ExplanationSound /\ ExpiryInv
  BY DEF JobInv
<1>2. /\ pc[j] = "lookup" /\ UNCHANGED <<told, summary, upload>> /\ UNCHANGED redis
      /\ \/ /\ cache[summary[j]] # Absent
            /\ explanation' = [explanation EXCEPT ![j] = cache[summary[j]]]
            /\ Goto(j, "result")
         \/ explanation' = explanation /\ Goto(j, "ask")
         \/ /\ explanation' = [explanation EXCEPT ![j] = <<"fallback", summary[j]>>]
            /\ Goto(j, "result")
  BY DEF LookUp, Explain
<1>3. /\ \/ /\ \E by \in {"model", "fallback"} :
                 explanation' = [explanation EXCEPT ![j] = <<by, summary[j]>>]
            /\ pc'[j] = "result"
         \/ explanation' = explanation /\ pc'[j] = "ask"
      /\ pc' \in [Jobs -> Places] /\ \A k \in Jobs \ {j} : pc'[k] = pc[k]
      /\ summary[j] \in Summaries
  <2>1. summary[j] \in Summaries
    BY <1>1, <1>2 DEF ThreadInv, Parsed
  <2>2. cache[summary[j]] \in {Absent, <<"model", summary[j]>>}
    BY <1>1, <2>1 DEF ExplanationSound
  <2>3. "result" \in Places /\ "ask" \in Places
    BY DEF Places, Running
  <2> QED
    BY <1>1, <1>2, <2>1, <2>2, <2>3, GotoFacts
<1>4. ExplanationSound' /\ ExpiryInv'
  BY <1>1, <1>2, RedisKept
<1>5. /\ UNCHANGED status /\ UNCHANGED result /\ UNCHANGED cache /\ UNCHANGED expired
  BY <1>2 DEF redis
<1>6. Types'
  <2>1. \A by \in {"model", "fallback"} : <<by, summary[j]>> \in Explanations
    BY <1>3 DEF Explanations
  <2>2. explanation' \in [Jobs -> Explanations \cup {Absent}]
    BY <1>1, <1>3, <2>1 DEF Types
  <2> QED
    BY <1>1, <1>2, <1>3, <1>5, <2>2 DEF Types
<1>7. ThreadInv'
  BY <1>1, <1>2, <1>3, <1>5 DEF ThreadInv, Types, Parsed
<1>8. StatusInv'
  BY <1>1, <1>2, <1>3, <1>5 DEF StatusInv, ThreadInv, Running, Types
<1>9. UploadInv'
  BY <1>1, <1>2, <1>3, <1>5 DEF UploadInv, Types
<1> QED
  BY <1>4, <1>6, <1>7, <1>8, <1>9 DEF JobInv

LEMMA AskModelStep ==
    ASSUME JobInv, NEW j \in Jobs, AskModel(j)
    PROVE  JobInv'
<1>1. Types /\ ThreadInv /\ StatusInv /\ UploadInv /\ ExplanationSound /\ ExpiryInv
  BY DEF JobInv
<1>2. /\ pc[j] = "ask" /\ UNCHANGED <<told, summary, upload>> /\ UNCHANGED redis
      /\ \/ /\ explanation' = [explanation EXCEPT ![j] = <<"model", summary[j]>>]
            /\ Goto(j, "cache")
         \/ /\ explanation' = [explanation EXCEPT ![j] = <<"fallback", summary[j]>>]
            /\ Goto(j, "result")
  BY DEF AskModel, Explain
<1>3. /\ \E by \in {"model", "fallback"} :
           explanation' = [explanation EXCEPT ![j] = <<by, summary[j]>>]
      /\ pc'[j] \in {"cache", "result"}
      /\ pc' \in [Jobs -> Places] /\ \A k \in Jobs \ {j} : pc'[k] = pc[k]
      /\ summary[j] \in Summaries
  <2>1. summary[j] \in Summaries
    BY <1>1, <1>2 DEF ThreadInv, Parsed
  <2>2. "result" \in Places /\ "cache" \in Places
    BY DEF Places, Running
  <2> QED
    BY <1>1, <1>2, <2>1, <2>2, GotoFacts
<1>4. ExplanationSound' /\ ExpiryInv'
  BY <1>1, <1>2, RedisKept
<1>5. /\ UNCHANGED status /\ UNCHANGED result /\ UNCHANGED cache /\ UNCHANGED expired
  BY <1>2 DEF redis
<1>6. Types'
  <2>1. \A by \in {"model", "fallback"} : <<by, summary[j]>> \in Explanations
    BY <1>3 DEF Explanations
  <2>2. explanation' \in [Jobs -> Explanations \cup {Absent}]
    BY <1>1, <1>3, <2>1 DEF Types
  <2> QED
    BY <1>1, <1>2, <1>3, <1>5, <2>2 DEF Types
<1>7. ThreadInv'
  BY <1>1, <1>2, <1>3, <1>5 DEF ThreadInv, Types, Parsed
<1>8. StatusInv'
  BY <1>1, <1>2, <1>3, <1>5 DEF StatusInv, ThreadInv, Running, Types
<1>9. UploadInv'
  BY <1>1, <1>2, <1>3, <1>5 DEF UploadInv, Types
<1> QED
  BY <1>4, <1>6, <1>7, <1>8, <1>9 DEF JobInv

LEMMA DeleteUploadStep ==
    ASSUME JobInv, NEW j \in Jobs, DeleteUpload(j)
    PROVE  JobInv'
<1>1. Types /\ ThreadInv /\ StatusInv /\ UploadInv /\ ExplanationSound /\ ExpiryInv
  BY DEF JobInv
<1>2. /\ pc[j] \in {"finally", "finally, threw"} /\ UNCHANGED <<told, summary, explanation>>
      /\ UNCHANGED redis /\ upload' = [upload EXCEPT ![j] = "none"]
      /\ Goto(j, IF pc[j] = "finally" THEN "answer" ELSE "threw")
  BY DEF DeleteUpload, Upload
<1>3. /\ pc'[j] = IF pc[j] = "finally" THEN "answer" ELSE "threw"
      /\ pc' \in [Jobs -> Places] /\ \A k \in Jobs \ {j} : pc'[k] = pc[k]
  BY <1>1, <1>2, GotoFacts DEF Places, Running
<1>4. ExplanationSound' /\ ExpiryInv'
  BY <1>1, <1>2, RedisKept
<1>5. /\ UNCHANGED status /\ UNCHANGED result /\ UNCHANGED cache /\ UNCHANGED expired
  BY <1>2 DEF redis
<1>6. Types'
  BY <1>1, <1>2, <1>3, <1>5 DEF Types, Places
<1>7. ThreadInv'
  BY <1>1, <1>2, <1>3, <1>5 DEF ThreadInv, Types, Parsed
<1>8. StatusInv'
  BY <1>1, <1>2, <1>3, <1>5 DEF StatusInv, ThreadInv, Running, Types
<1>9. UploadInv'
  BY <1>1, <1>2, <1>3, <1>5 DEF UploadInv, Types
<1> QED
  BY <1>4, <1>6, <1>7, <1>8, <1>9 DEF JobInv

LEMMA AnswerStep ==
    ASSUME JobInv, NEW j \in Jobs, Answer(j)
    PROVE  JobInv'
<1>1. Types /\ ThreadInv /\ StatusInv /\ UploadInv /\ ExplanationSound /\ ExpiryInv
  BY DEF JobInv
<1>2. /\ pc[j] \in {"answer", "threw"} /\ UNCHANGED upload /\ UNCHANGED redis
      /\ told' = [told EXCEPT ![j] = IF pc[j] = "answer" THEN "RUNNING" ELSE "error"]
      /\ summary' = [summary EXCEPT ![j] = Nothing]
      /\ explanation' = [explanation EXCEPT ![j] = Absent]
      /\ Goto(j, "ended")
  BY DEF Answer
<1>3. /\ pc'[j] = "ended"
      /\ pc' \in [Jobs -> Places] /\ \A k \in Jobs \ {j} : pc'[k] = pc[k]
  BY <1>1, <1>2, GotoFacts DEF Places, Running
<1>4. ExplanationSound' /\ ExpiryInv'
  BY <1>1, <1>2, RedisKept
<1>5. /\ UNCHANGED status /\ UNCHANGED result /\ UNCHANGED cache /\ UNCHANGED expired
  BY <1>2 DEF redis
<1>6. Types'
  BY <1>1, <1>2, <1>3, <1>5 DEF Types, Places
<1>7. ThreadInv'
  BY <1>1, <1>2, <1>3, <1>5 DEF ThreadInv, Types, Parsed
<1>8. StatusInv'
  BY <1>1, <1>2, <1>3, <1>5 DEF StatusInv, ThreadInv, Running, Types
<1>9. UploadInv'
  BY <1>1, <1>2, <1>3, <1>5 DEF UploadInv, Types
<1> QED
  BY <1>4, <1>6, <1>7, <1>8, <1>9 DEF JobInv

LEMMA StoreRunningStep ==
    ASSUME JobInv, NEW j \in Jobs, StoreRunning(j)
    PROVE  JobInv'
<1>1. Types /\ ThreadInv /\ StatusInv /\ UploadInv /\ ExplanationSound /\ ExpiryInv
  BY DEF JobInv
<1>2. /\ pc[j] = "new" /\ UNCHANGED <<told, summary, explanation, upload>>
      /\ \/ PutStatus(j, "RUNNING") /\ (Goto(j, "save") \/ Goto(j, "threw"))
         \/ UNCHANGED redis /\ Goto(j, "threw")
  BY DEF StoreRunning, Command
<1>3. /\ pc'[j] \in {"save", "threw"}
      /\ pc' \in [Jobs -> Places] /\ \A k \in Jobs \ {j} : pc'[k] = pc[k]
  BY <1>1, <1>2, GotoFacts DEF Places, Running
<1>4. CASE PutStatus(j, "RUNNING")
  <2>1. /\ status' \in [Jobs -> {Nothing, "RUNNING", "DONE", "FAILED"}]
        /\ status'[j] = "RUNNING" /\ \A k \in Jobs \ {j} : status'[k] = status[k]
        /\ UNCHANGED <<result, cache, expired>>
        /\ ExplanationSound' /\ ExpiryInv'
    BY <1>1, <1>4, PutStatusFacts
  <2>2. Types'
    BY <1>1, <1>2, <1>3, <2>1 DEF Types
  <2>3. ThreadInv'
    BY <1>1, <1>2, <1>3, <2>1 DEF ThreadInv, Parsed
  <2>4. StatusInv'
    BY <1>1, <1>2, <1>3, <2>1 DEF StatusInv, ThreadInv, Running, Nothing
  <2>5. UploadInv'
    BY <1>1, <1>2, <1>3 DEF UploadInv
  <2> QED
    BY <2>1, <2>2, <2>3, <2>4, <2>5 DEF JobInv
<1>5. CASE UNCHANGED redis
  <2>1. ExplanationSound' /\ ExpiryInv'
    BY <1>1, <1>5, RedisKept
  <2>2. UNCHANGED <<status, result, cache, expired>>
    BY <1>5 DEF redis
  <2>3. Types'
    BY <1>1, <1>2, <1>3, <2>2 DEF Types
  <2>4. ThreadInv'
    BY <1>1, <1>2, <1>3, <2>2 DEF ThreadInv, Parsed
  <2>5. StatusInv'
    BY <1>1, <1>2, <1>3, <2>2 DEF StatusInv, ThreadInv, Running
  <2>6. UploadInv'
    BY <1>1, <1>2, <1>3 DEF UploadInv
  <2> QED
    BY <2>1, <2>3, <2>4, <2>5, <2>6 DEF JobInv
<1> QED
  BY <1>2, <1>4, <1>5

LEMMA StoreCacheStep ==
    ASSUME JobInv, NEW j \in Jobs, StoreCache(j)
    PROVE  JobInv'
<1>1. Types /\ ThreadInv /\ StatusInv /\ UploadInv /\ ExplanationSound /\ ExpiryInv
  BY DEF JobInv
<1>2. /\ pc[j] = "cache" /\ UNCHANGED <<told, summary, upload>> /\ Goto(j, "result")
      /\ \/ explanation' = explanation
         \/ explanation' = [explanation EXCEPT ![j] = <<"fallback", summary[j]>>]
      /\ UNCHANGED <<status, result, expiring, expired>>
      /\ \/ cache' = [cache EXCEPT ![summary[j]] = <<"model", summary[j]>>]
         \/ cache' = cache
  BY DEF StoreCache, PutCache, Explain, redis
<1>3. /\ summary[j] \in Summaries
      /\ \E by \in {"model", "fallback"} : explanation[j] = <<by, summary[j]>>
      /\ \A by \in {"model", "fallback"} : <<by, summary[j]>> \in Explanations
  BY <1>1, <1>2 DEF ThreadInv, Parsed, Explanations
<1>4. /\ pc'[j] = "result"
      /\ pc' \in [Jobs -> Places] /\ \A k \in Jobs \ {j} : pc'[k] = pc[k]
  BY <1>1, <1>2, GotoFacts DEF Places, Running
<1>5. /\ \E by \in {"model", "fallback"} : explanation'[j] = <<by, summary[j]>>
      /\ explanation' \in [Jobs -> Explanations \cup {Absent}]
      /\ \A k \in Jobs \ {j} : explanation'[k] = explanation[k]
  BY <1>1, <1>2, <1>3 DEF Types
<1>6. cache' \in [Summaries -> Explanations \cup {Absent}]
  BY <1>1, <1>2, <1>3 DEF Types
<1>7. Types'
  BY <1>1, <1>2, <1>4, <1>5, <1>6 DEF Types
<1>8. ThreadInv'
  <2>1. told[j] = Nothing
    BY <1>1, <1>2 DEF ThreadInv
  <2> QED
    BY <1>1, <1>2, <1>3, <1>4, <1>5, <2>1 DEF ThreadInv, Parsed
<1>9. StatusInv'
  BY <1>1, <1>2, <1>4 DEF StatusInv, Running
<1>10. UploadInv'
  BY <1>1, <1>2, <1>4 DEF UploadInv
<1>11. ExplanationSound'
  <2>1. cache \in [Summaries -> Explanations \cup {Absent}]
    BY <1>1 DEF Types
  <2>2. \A s \in Summaries : cache'[s] \in {Absent, <<"model", s>>}
    BY <1>1, <1>2, <1>3, <2>1 DEF ExplanationSound
  <2> QED
    BY <1>1, <1>2, <2>2 DEF ExplanationSound
<1>12. ExpiryInv'
  BY <1>1, <1>2 DEF ExpiryInv, InRedis
<1> QED
  BY <1>7, <1>8, <1>9, <1>10, <1>11, <1>12 DEF JobInv

LEMMA StoreResultStep ==
    ASSUME JobInv, NEW j \in Jobs, StoreResult(j)
    PROVE  JobInv'
<1>1. Types /\ ThreadInv /\ StatusInv /\ UploadInv /\ ExplanationSound /\ ExpiryInv
  BY DEF JobInv
<1>2. /\ pc[j] = "result" /\ UNCHANGED <<told, summary, explanation, upload>>
      /\ \/ PutResult(j) /\ (Goto(j, "done") \/ Goto(j, "catch"))
         \/ UNCHANGED redis /\ Goto(j, "catch")
  BY DEF StoreResult, Command
<1>3. /\ pc'[j] \in {"done", "catch"}
      /\ pc' \in [Jobs -> Places] /\ \A k \in Jobs \ {j} : pc'[k] = pc[k]
      /\ told[j] = Nothing
  BY <1>1, <1>2, GotoFacts DEF Places, Running, ThreadInv
<1>4. CASE PutResult(j)
  <2>1. /\ result' \in [Jobs -> (Summaries \X Explanations) \cup {Absent}]
        /\ result'[j] # Absent /\ \A k \in Jobs \ {j} : result'[k] = result[k]
        /\ UNCHANGED <<status, cache, expired>>
        /\ ExplanationSound' /\ ExpiryInv'
    BY <1>1, <1>2, <1>4, PutResultFacts
  <2>2. Types'
    BY <1>1, <1>2, <1>3, <2>1 DEF Types
  <2>3. ThreadInv'
    BY <1>1, <1>2, <1>3, <2>1 DEF ThreadInv, Parsed
  <2>4. StatusInv'
    BY <1>1, <1>2, <1>3, <2>1 DEF StatusInv, Running
  <2>5. UploadInv'
    BY <1>1, <1>2, <1>3 DEF UploadInv
  <2> QED
    BY <2>1, <2>2, <2>3, <2>4, <2>5 DEF JobInv
<1>5. CASE UNCHANGED redis /\ Goto(j, "catch")
  <2>1. ExplanationSound' /\ ExpiryInv'
    BY <1>1, <1>5, RedisKept
  <2>2. UNCHANGED <<status, result, cache, expired>>
    BY <1>5 DEF redis
  <2>3. pc'[j] = "catch"
    BY <1>1, <1>5 DEF Goto, Types
  <2>4. Types'
    BY <1>1, <1>2, <1>3, <2>2 DEF Types
  <2>5. ThreadInv'
    BY <1>1, <1>2, <1>3, <2>2 DEF ThreadInv, Parsed
  <2>6. StatusInv'
    BY <1>1, <1>2, <1>3, <2>2, <2>3 DEF StatusInv, Running
  <2>7. UploadInv'
    BY <1>1, <1>2, <1>3 DEF UploadInv
  <2> QED
    BY <2>1, <2>4, <2>5, <2>6, <2>7 DEF JobInv
<1> QED
  BY <1>2, <1>4, <1>5

\* The status that a job ends with is stored after its result.
LEMMA StoreDoneStep ==
    ASSUME JobInv, NEW j \in Jobs, StoreDone(j)
    PROVE  JobInv'
<1>1. Types /\ ThreadInv /\ StatusInv /\ UploadInv /\ ExplanationSound /\ ExpiryInv
  BY DEF JobInv
<1>2. /\ pc[j] = "done" /\ UNCHANGED <<told, summary, explanation, upload>>
      /\ \/ PutStatus(j, "DONE") /\ (Goto(j, "finally") \/ Goto(j, "catch"))
         \/ UNCHANGED redis /\ Goto(j, "catch")
  BY DEF StoreDone, Command
<1>3. /\ pc'[j] \in {"finally", "catch"}
      /\ pc' \in [Jobs -> Places] /\ \A k \in Jobs \ {j} : pc'[k] = pc[k]
      /\ told[j] = Nothing
  BY <1>1, <1>2, GotoFacts DEF Places, Running, ThreadInv
<1>4. CASE PutStatus(j, "DONE")
  <2>1. /\ status' \in [Jobs -> {Nothing, "RUNNING", "DONE", "FAILED"}]
        /\ status'[j] = "DONE" /\ \A k \in Jobs \ {j} : status'[k] = status[k]
        /\ UNCHANGED <<result, cache, expired>>
        /\ ExplanationSound' /\ ExpiryInv'
    BY <1>1, <1>4, PutStatusFacts
  <2>2. Types'
    BY <1>1, <1>2, <1>3, <2>1 DEF Types
  <2>3. ThreadInv'
    BY <1>1, <1>2, <1>3, <2>1 DEF ThreadInv, Parsed
  <2>4. StatusInv'
    BY <1>1, <1>2, <1>3, <2>1 DEF StatusInv, Running, Nothing
  <2>5. UploadInv'
    BY <1>1, <1>2, <1>3 DEF UploadInv
  <2> QED
    BY <2>1, <2>2, <2>3, <2>4, <2>5 DEF JobInv
<1>5. CASE UNCHANGED redis /\ Goto(j, "catch")
  <2>1. ExplanationSound' /\ ExpiryInv'
    BY <1>1, <1>5, RedisKept
  <2>2. UNCHANGED <<status, result, cache, expired>>
    BY <1>5 DEF redis
  <2>3. pc'[j] = "catch"
    BY <1>1, <1>5 DEF Goto, Types
  <2>4. Types'
    BY <1>1, <1>2, <1>3, <2>2 DEF Types
  <2>5. ThreadInv'
    BY <1>1, <1>2, <1>3, <2>2 DEF ThreadInv, Parsed
  <2>6. StatusInv'
    BY <1>1, <1>2, <1>3, <2>2, <2>3 DEF StatusInv, Running
  <2>7. UploadInv'
    BY <1>1, <1>2, <1>3 DEF UploadInv
  <2> QED
    BY <2>1, <2>4, <2>5, <2>6, <2>7 DEF JobInv
<1> QED
  BY <1>2, <1>4, <1>5

\* When the status cannot be stored the client is not given the identifier.
LEMMA StoreFailedStep ==
    ASSUME JobInv, NEW j \in Jobs, StoreFailed(j)
    PROVE  JobInv'
<1>1. Types /\ ThreadInv /\ StatusInv /\ UploadInv /\ ExplanationSound /\ ExpiryInv
  BY DEF JobInv
<1>2. /\ pc[j] = "catch" /\ UNCHANGED <<told, summary, explanation, upload>>
      /\ \/ /\ PutStatus(j, "FAILED")
            /\ Goto(j, "finally") \/ Goto(j, "finally, threw")
         \/ UNCHANGED redis /\ Goto(j, "finally, threw")
  BY DEF StoreFailed, Command
<1>3. /\ pc'[j] \in {"finally", "finally, threw"}
      /\ pc' \in [Jobs -> Places] /\ \A k \in Jobs \ {j} : pc'[k] = pc[k]
      /\ told[j] = Nothing
  BY <1>1, <1>2, GotoFacts DEF Places, Running, ThreadInv
<1>4. CASE PutStatus(j, "FAILED")
  <2>1. /\ status' \in [Jobs -> {Nothing, "RUNNING", "DONE", "FAILED"}]
        /\ status'[j] = "FAILED" /\ \A k \in Jobs \ {j} : status'[k] = status[k]
        /\ UNCHANGED <<result, cache, expired>>
        /\ ExplanationSound' /\ ExpiryInv'
    BY <1>1, <1>4, PutStatusFacts
  <2>2. Types'
    BY <1>1, <1>2, <1>3, <2>1 DEF Types
  <2>3. ThreadInv'
    BY <1>1, <1>2, <1>3, <2>1 DEF ThreadInv, Parsed
  <2>4. StatusInv'
    BY <1>1, <1>2, <1>3, <2>1 DEF StatusInv, Running, Nothing
  <2>5. UploadInv'
    BY <1>1, <1>2, <1>3 DEF UploadInv
  <2> QED
    BY <2>1, <2>2, <2>3, <2>4, <2>5 DEF JobInv
<1>5. CASE UNCHANGED redis /\ Goto(j, "finally, threw")
  <2>1. ExplanationSound' /\ ExpiryInv'
    BY <1>1, <1>5, RedisKept
  <2>2. UNCHANGED <<status, result, cache, expired>>
    BY <1>5 DEF redis
  <2>3. pc'[j] = "finally, threw"
    BY <1>1, <1>5 DEF Goto, Types
  <2>4. Types'
    BY <1>1, <1>2, <1>3, <2>2 DEF Types
  <2>5. ThreadInv'
    BY <1>1, <1>2, <1>3, <2>2 DEF ThreadInv, Parsed
  <2>6. StatusInv'
    BY <1>1, <1>2, <1>3, <2>2, <2>3 DEF StatusInv, Running
  <2>7. UploadInv'
    BY <1>1, <1>2, <1>3 DEF UploadInv
  <2> QED
    BY <2>1, <2>4, <2>5, <2>6, <2>7 DEF JobInv
<1> QED
  BY <1>2, <1>4, <1>5

\* A crash takes the threads, and with them what they held.
LEMMA CrashStep ==
    ASSUME JobInv, Crash
    PROVE  JobInv'
<1>1. Types /\ ThreadInv /\ StatusInv /\ UploadInv /\ ExplanationSound /\ ExpiryInv
  BY DEF JobInv
<1>2. /\ pc' = [j \in Jobs |-> IF pc[j] \in {"new", "ended"} THEN pc[j] ELSE "lost"]
      /\ summary' = [j \in Jobs |-> Nothing]
      /\ explanation' = [j \in Jobs |-> Absent]
      /\ UNCHANGED <<told, upload>> /\ UNCHANGED redis
  BY DEF Crash
<1>3. \A j \in Jobs : \/ pc'[j] = pc[j] /\ pc[j] \in {"new", "ended"}
                      \/ pc'[j] = "lost" /\ pc[j] \notin {"new", "ended"}
  BY <1>2
<1>4. ExplanationSound' /\ ExpiryInv'
  BY <1>1, <1>2, RedisKept
<1>5. UNCHANGED <<status, result, cache, expired>>
  BY <1>2 DEF redis
<1>6. Types'
  BY <1>1, <1>2, <1>5 DEF Types, Places, Running
<1>7. ThreadInv'
  BY <1>1, <1>2, <1>3, <1>5 DEF ThreadInv, Parsed
<1>8. StatusInv'
  BY <1>1, <1>2, <1>3, <1>5 DEF StatusInv, Running
<1>9. UploadInv'
  BY <1>1, <1>2, <1>3 DEF UploadInv
<1> QED
  BY <1>4, <1>6, <1>7, <1>8, <1>9 DEF JobInv

LEMMA ExpireStep ==
    ASSUME JobInv, Expire
    PROVE  JobInv'
<1>1. Types /\ ThreadInv /\ StatusInv /\ UploadInv /\ ExplanationSound /\ ExpiryInv
  BY DEF JobInv
<1>2. UNCHANGED <<pc, told, summary, explanation, upload, cache>>
  BY DEF Expire
<1>3. /\ status' \in [Jobs -> {Nothing, "RUNNING", "DONE", "FAILED"}]
      /\ result' \in [Jobs -> (Summaries \X Explanations) \cup {Absent}]
      /\ \A k \in Jobs : status'[k] \in {status[k], Nothing}
      /\ \A k \in Jobs : result'[k] = result[k] \/ k \in expired'
      /\ expired' \subseteq Jobs /\ expired \subseteq expired'
      /\ ExplanationSound' /\ ExpiryInv'
  BY <1>1, ExpireFacts
<1>4. Types'
  BY <1>1, <1>2, <1>3 DEF Types
<1>5. ThreadInv'
  BY <1>1, <1>2 DEF ThreadInv
<1>6. StatusInv'
  BY <1>1, <1>2, <1>3 DEF StatusInv, Nothing
<1>7. UploadInv'
  BY <1>1, <1>2 DEF UploadInv
<1> QED
  BY <1>3, <1>4, <1>5, <1>6, <1>7 DEF JobInv

LEMMA ExpireCacheStep ==
    ASSUME JobInv, NEW s \in Summaries, ExpireCache(s)
    PROVE  JobInv'
<1>1. Types /\ ThreadInv /\ StatusInv /\ UploadInv /\ ExplanationSound /\ ExpiryInv
  BY DEF JobInv
<1>2. /\ UNCHANGED <<pc, told, summary, explanation, upload, status, result, expiring,
                     expired>>
      /\ cache' = [cache EXCEPT ![s] = Absent]
  BY DEF ExpireCache
<1>3. Types'
  BY <1>1, <1>2 DEF Types
<1>4. ExplanationSound'
  BY <1>1, <1>2 DEF ExplanationSound, Types
<1>5. ThreadInv' /\ StatusInv' /\ UploadInv'
  BY <1>1, <1>2 DEF ThreadInv, StatusInv, UploadInv
<1>6. ExpiryInv'
  BY <1>1, <1>2 DEF ExpiryInv, InRedis
<1> QED
  BY <1>3, <1>4, <1>5, <1>6 DEF JobInv

-----------------------------------------------------------------------------
(* The theorems                                                            *)

LEMMA JobInvInit == Init => JobInv
<1> SUFFICES ASSUME Init PROVE JobInv
  OBVIOUS
<1>1. Types
  BY DEF Init, Types, Places, Running
<1>2. ThreadInv /\ StatusInv /\ UploadInv /\ ExplanationSound
  BY DEF Init, ThreadInv, StatusInv, UploadInv, ExplanationSound, Running, Parsed, Nothing
<1>3. ExpiryInv
  <2>1. \A key \in Keys : ~InRedis(key)
    BY DEF Init, Keys, InRedis
  <2>2. expiring \in Seq(Keys) /\ Distinct(expiring) /\ Range(expiring) = {}
    BY DEF Init, Distinct, Range
  <2> QED
    BY <2>1, <2>2 DEF ExpiryInv
<1> QED
  BY <1>1, <1>2, <1>3 DEF JobInv

LEMMA JobInvNext == JobInv /\ [Next]_vars => JobInv'
<1> SUFFICES ASSUME JobInv, [Next]_vars PROVE JobInv'
  OBVIOUS
<1>1. ASSUME NEW j \in Jobs, StoreRunning(j) \/ EngineEnds(j) \/ JobStep(j)
      PROVE  JobInv'
  BY <1>1, StoreRunningStep, EngineEndsStep, SaveUploadStep, StartEngineStep, LookUpStep,
     AskModelStep, StoreCacheStep, StoreResultStep, StoreDoneStep, StoreFailedStep,
     DeleteUploadStep, AnswerStep DEF JobStep
<1>2. CASE UNCHANGED vars
  BY <1>2 DEF vars, redis, JobInv, Types, ThreadInv, StatusInv, UploadInv, ExplanationSound,
     ExpiryInv, InRedis
<1> QED
  BY <1>1, <1>2, CrashStep, ExpireStep, ExpireCacheStep DEF Next

LEMMA JobInvHolds == Spec => []JobInv
<1> QED
  BY JobInvInit, JobInvNext, PTL DEF Spec

\* Every variable holds what it may hold, and every key of a job that is in Redis
\* will expire: none is stored for ever.
THEOREM TypeCorrect == Spec => []TypeOK
<1>1. ASSUME JobInv PROVE TypeOK
  <2>1. {expiring[i] : i \in DOMAIN expiring} = {key \in Keys : InRedis(key)}
    BY <1>1 DEF JobInv, ExpiryInv, Range
  <2>2. Types
    BY <1>1 DEF JobInv
  <2> QED
    BY <2>1, <2>2 DEF Types, Places, Running, TypeOK
<1> QED
  BY <1>1, JobInvHolds, PTL

\* DONE is never said of a job without a result, unless the result expired: the
\* order of the two writes, Redis errors and crashes included.
THEOREM DoneHasResultCorrect == Spec => []DoneHasResult
<1>1. JobInv => DoneHasResult
  BY DEF JobInv, StatusInv, DoneHasResult
<1> QED
  BY <1>1, JobInvHolds, PTL

\* A client that was given an identifier never polls a job that nobody works on.
THEOREM AcceptedIsDecidedCorrect == Spec => []AcceptedIsDecided
<1>1. JobInv => AcceptedIsDecided
  BY DEF JobInv, StatusInv, AcceptedIsDecided
<1> QED
  BY <1>1, JobInvHolds, PTL

\* A request that was answered has left no whole upload, whatever threw.
THEOREM UploadRemovedCorrect == Spec => []UploadRemoved
<1>1. JobInv => UploadRemoved
  BY DEF JobInv, UploadInv, UploadRemoved
<1> QED
  BY <1>1, JobInvHolds, PTL

\* The fallback is never cached, and a job is explained from its own summary.
THEOREM ExplanationSoundCorrect == Spec => []ExplanationSound
<1>1. JobInv => ExplanationSound
  BY DEF JobInv
<1> QED
  BY <1>1, JobInvHolds, PTL

\* A status changes only where the invariant says that it was not decided.
LEMMA StatusStep ==
    ASSUME JobInv, Next, NEW k \in Jobs
    PROVE  /\ status[k] \in {"DONE", "FAILED"} => status'[k] # "RUNNING"
           /\ status[k] = "FAILED" => status'[k] # "DONE"
<1>1. Types /\ ThreadInv /\ StatusInv /\ ExplanationSound /\ ExpiryInv
  BY DEF JobInv
<1>2. ASSUME NEW j \in Jobs, NEW s \in {"RUNNING", "DONE", "FAILED"}, PutStatus(j, s)
      PROVE  /\ status'[j] = s
             /\ \A i \in Jobs \ {j} : status'[i] = status[i]
  BY <1>1, <1>2, PutStatusFacts
<1>3. ASSUME NEW j \in Jobs, StoreRunning(j)
      PROVE  \/ status'[k] = status[k]
             \/ k = j /\ status[k] \notin {"DONE", "FAILED"}
  <2>1. pc[j] = "new" /\ (PutStatus(j, "RUNNING") \/ status' = status)
    BY <1>3 DEF StoreRunning, Command, redis
  <2>2. status[j] \notin {"DONE", "FAILED"}
    BY <1>1, <2>1 DEF StatusInv, Running
  <2> QED
    BY <1>2, <2>1, <2>2
<1>4. ASSUME NEW j \in Jobs, StoreDone(j)
      PROVE  \/ status'[k] = status[k]
             \/ k = j /\ status[k] \notin {"DONE", "FAILED"}
  <2>1. pc[j] = "done" /\ (PutStatus(j, "DONE") \/ status' = status)
    BY <1>4 DEF StoreDone, Command, redis
  <2>2. status[j] \notin {"DONE", "FAILED"}
    BY <1>1, <2>1 DEF StatusInv, Running
  <2> QED
    BY <1>2, <2>1, <2>2
<1>5. ASSUME NEW j \in Jobs, StoreFailed(j) PROVE status'[k] \in {status[k], "FAILED"}
  <2>1. PutStatus(j, "FAILED") \/ status' = status
    BY <1>5 DEF StoreFailed, Command, redis
  <2> QED
    BY <1>2, <2>1
<1>6. CASE Expire
  <2>1. status'[k] \in {status[k], Nothing}
    BY <1>1, <1>6, ExpireFacts
  <2> QED
    BY <2>1 DEF Nothing
<1>7. ASSUME NEW j \in Jobs,
             \/ EngineEnds(j) \/ SaveUpload(j) \/ StartEngine(j) \/ LookUp(j)
             \/ AskModel(j) \/ StoreCache(j) \/ StoreResult(j)
             \/ DeleteUpload(j) \/ Answer(j)
      PROVE  status' = status
  BY <1>7 DEF EngineEnds, SaveUpload, StartEngine, LookUp, AskModel, StoreCache, PutCache,
     StoreResult, Command, PutResult, DeleteUpload, Answer, redis
<1>8. ASSUME Crash \/ \E s \in Summaries : ExpireCache(s)
      PROVE  status' = status
  BY <1>8 DEF Crash, ExpireCache, redis
<1> QED
  BY <1>3, <1>4, <1>5, <1>6, <1>7, <1>8 DEF Next, JobStep

\* A job that has ended does not run again, and one that failed is never done.
THEOREM StatusNeverGoesBackCorrect == Spec => StatusNeverGoesBack
<1>1. ASSUME JobInv, [Next]_vars
      PROVE  [ \A j \in Jobs : /\ status[j] \in {"DONE", "FAILED"} => status'[j] # "RUNNING"
                               /\ status[j] = "FAILED" => status'[j] # "DONE" ]_vars
  BY <1>1, StatusStep
<1> QED
  BY <1>1, JobInvHolds, PTL DEF Spec, StatusNeverGoesBack
==============================================================================
