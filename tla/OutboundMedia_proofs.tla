------------------------ MODULE OutboundMedia_proofs ------------------------
(***************************************************************************)
(* The spool keeps its promises for any number of runs and of writes of    *)
(* the agent.                                                              *)
(***************************************************************************)
EXTENDS OutboundMedia, TLAPS

\* What has been written so far bounds everything else, and a name stands for a version.
WrittenOK ==
    /\ source <= written
    /\ source # Nothing => holds[source] # Nothing
    /\ \A v \in Version : holds[v] <= written /\ looks[v] <= v
    /\ \A r \in Run : /\ since[r] <= written /\ took[r] <= written
                      /\ quarantine[r] <= written
                      /\ quarantine[r] # Nothing => holds[quarantine[r]] # Nothing

\* A run that has yet to publish has claimed and sent nothing; only what was sent is cleaned.
RunOK(r) ==
    /\ claim[r] \in {"new", "none"} => took[r] = Nothing /\ ~sent[r]
    /\ sent[r] => took[r] # Nothing
    /\ cleaned[r] => sent[r]

\* A claim was given up before the runs began that are active now, and its version was
\* written before that: they pass it over as too old.
RetiredIsOld ==
    \A q, r \in Run : claim[q] = "retired" /\ took[q] # Nothing /\ claim[r] = "none" =>
        looks[took[q]] <= since[r]

\* The version to be claimed is of the turn, and free.
Fresh(v) == looks[v] > since[run] /\ ~Claimed(v)

\* What prepare goes by, from the scan to the manifest.
PrepareOK ==
    at \in Preparing =>
        /\ claim[run] = "none"
        /\ at \in {"scanning", "reading"} => sees = Nothing
        /\ at = "reading" /\ source # Nothing => looks[holds[source]] > since[run]
        /\ at \in {"copying", "writing"} => sees # Nothing
        /\ at \in {"copying", "writing", "publishing"} /\ sees # Nothing =>
              Fresh(sees) /\ sees <= written
        /\ at = "publishing" /\ sees # Nothing => spool[run][sees] = "whole"

\* NothingLost, without the quarantine that is about to be given up.
KeptElsewhere(r) ==
    wants # Nothing =>
        \/ source # Nothing /\ holds[source] = wants
        \/ \E q \in Run \ {r} : quarantine[q] # Nothing /\ holds[quarantine[q]] = wants
        \/ \E q \in Run : took[q] = wants /\ sent[q]

\* What cleanup is about to erase was sent; what it unlinks is kept elsewhere.
CleanOK ==
    at \in Cleaning =>
        /\ Published(run) /\ sent[run]
        /\ at = "moving" => quarantine[run] = Nothing
        /\ at = "erasing" => /\ quarantine[run] # source
                             /\ holds[quarantine[run]] = took[run]
        /\ at = "unlinking" => KeptElsewhere(run)

\* A claim is given up while no run is active, and after its version was sent.
ReleaseOK ==
    at \in Releasing =>
        /\ Quiet /\ Published(run)
        /\ took[run] # Nothing => sent[run]

\* The inductive invariant.
IInv ==
    /\ TypeOK
    /\ WrittenOK
    /\ \A r \in Run : RunOK(r)
    /\ RetiredIsOld
    /\ PrepareOK /\ CleanOK /\ ReleaseOK
    /\ FilesKept

----------------------------------------------------------------------------
\* The initial states satisfy the invariant.
LEMMA InitOK == Init => IInv
<1> SUFFICES ASSUME Init PROVE IInv
    OBVIOUS
<1> USE WritesAssumption DEF Init, Nothing, Version, Stage
<1>1. TypeOK
    BY DEF TypeOK
<1>2. WrittenOK
    BY DEF WrittenOK
<1>3. \A r \in Run : RunOK(r)
    BY DEF RunOK
<1>4. RetiredIsOld
    BY DEF RetiredIsOld
<1>5. PrepareOK /\ CleanOK /\ ReleaseOK
    BY DEF PrepareOK, CleanOK, ReleaseOK, Preparing, Cleaning, Releasing
<1>6. FilesKept
    BY DEF FilesKept, NothingLost, ClaimedOnce, SnapshotKept, Published
<1> QED
    BY <1>1, <1>2, <1>3, <1>4, <1>5, <1>6 DEF IInv

----------------------------------------------------------------------------
\* Types: every step.
LEMMA TypeStep ==
    ASSUME TypeOK, WrittenOK, PrepareOK, Next
    PROVE  TypeOK'
<1> USE WritesAssumption DEF Nothing, Version, At, Goes, Sees, Stops, Starts, Stage, Preparing, Cleaning, Releasing
<1>1. CASE Replace
  <2>1. written + 1 \in Version
    BY <1>1 DEF Replace, TypeOK
  <2>2. holds' \in [Version -> 0..MaxVersion] /\ looks' \in [Version -> 0..MaxVersion]
    BY <1>1, <2>1 DEF Replace, TypeOK
  <2> QED
    BY <1>1, <2>1, <2>2 DEF Replace, TypeOK, op
<1>2. CASE Edit
  <2>1. source \in Version /\ written + 1 \in Version /\ holds[source] \in Version
    BY <1>2 DEF Edit, TypeOK, WrittenOK
  <2>2. \A s \in {written + 1, looks[holds[source]]} : s \in 0..MaxVersion
    BY <2>1 DEF TypeOK
  <2> QED
    BY <1>2, <2>1, <2>2 DEF Edit, TypeOK, op
<1>3. CASE Remove
    BY <1>3 DEF Remove, TypeOK, agentVars, op
<1>4. CASE Scan
    BY <1>4 DEF Scan, TypeOK, agentVars
<1>5. CASE Read
  <2>1. source \in Version /\ holds[source] \in Version
    BY <1>5 DEF Read, TypeOK, WrittenOK
  <2> QED
    BY <1>5, <2>1 DEF Read, TypeOK, agentVars
<1>6. CASE Copy
  <2>1. run \in Run /\ sees \in Version
    BY <1>6 DEF Copy, TypeOK, PrepareOK
  <2>2. [spool EXCEPT ![run][sees] = "torn"] \in [Run -> [Version -> {"none", "torn", "whole"}]]
    BY <2>1 DEF TypeOK
  <2>3. CASE spool[run][sees] = "whole"
    BY <1>6, <2>1, <2>3 DEF Copy, TypeOK, agentVars
  <2>4. CASE spool[run][sees] = "torn"
    BY <1>6, <2>1, <2>4 DEF Copy, TypeOK, agentVars
  <2>5. CASE spool[run][sees] = "none"
    BY <1>6, <2>1, <2>2, <2>5 DEF Copy, TypeOK, agentVars
  <2> QED
    BY <2>1, <2>3, <2>4, <2>5 DEF TypeOK
<1>7. CASE Write
    BY <1>7 DEF Write, TypeOK, agentVars
<1>8. CASE Publish
    BY <1>8 DEF Publish, TypeOK, agentVars
<1>9. CASE FileFails
    BY <1>9 DEF FileFails, TypeOK, agentVars
<1>10. CASE Look
    BY <1>10 DEF Look, TypeOK, agentVars
<1>11. CASE Move
  <2>1. CASE source = Nothing
    BY <1>11, <2>1 DEF Move, TypeOK, agentVars
  <2>2. CASE source # Nothing
    <3>1. run \in Run /\ quarantine' = [quarantine EXCEPT ![run] = source]
      BY <1>11, <2>2 DEF Move, TypeOK
    <3>2. quarantine' \in [Run -> 0..MaxVersion] /\ quarantine'[run] # Nothing
      BY <2>2, <3>1 DEF TypeOK
    <3>3. /\ source' = Nothing /\ at' = "checking"
          /\ UNCHANGED <<holds, looks, written, wants, since, claim, took, spool, sent, cleaned, run, sees>>
      BY <1>11, <2>2 DEF Move
    <3>4. at' \in Stage /\ run' \in Run /\ quarantine'[run'] # Nothing /\ source' \in 0..MaxVersion
      BY <3>1, <3>2, <3>3
    <3> QED
      BY <3>2, <3>3, <3>4 DEF TypeOK
  <2> QED
    BY <2>1, <2>2
<1>12. CASE Check
    BY <1>12 DEF Check, TypeOK, agentVars
<1>13. CASE Erase
    BY <1>13 DEF Erase, TypeOK, agentVars
<1>14. CASE Restore
  <2>1. run \in Run /\ quarantine[run] \in Version
    BY <1>14 DEF Restore, TypeOK
  <2>2. CASE source = Nothing
    BY <1>14, <2>1, <2>2 DEF Restore, TypeOK
  <2>3. CASE source # Nothing
    <3>1. at' = "idle" /\ run' = NoRun /\ sees' = Nothing /\ UNCHANGED source
      BY <1>14, <2>3 DEF Restore
    <3>2. UNCHANGED <<holds, looks, written, wants, since, claim, took, spool, quarantine, sent, cleaned>>
      BY <1>14 DEF Restore
    <3> QED
      BY <3>1, <3>2 DEF TypeOK
  <2> QED
    BY <2>2, <2>3
<1>15. CASE Drop
  <2>1. run \in Run /\ took[run] \in 0..MaxVersion
    BY <1>15 DEF Drop, TypeOK
  <2>2. [spool[run] EXCEPT ![took[run]] = "none"] \in [Version -> {"none", "torn", "whole"}]
    BY <2>1 DEF TypeOK
  <2>3. spool' \in [Run -> [Version -> {"none", "torn", "whole"}]]
    BY <1>15, <2>1, <2>2 DEF Drop, TypeOK
  <2>4. cleaned' \in [Run -> BOOLEAN]
    BY <1>15 DEF Drop, TypeOK
  <2>5. at' = "idle" /\ run' = NoRun /\ sees' = Nothing
    BY <1>15 DEF Drop
  <2>6. UNCHANGED <<source, holds, looks, written, wants, since, claim, took, quarantine, sent>>
    BY <1>15 DEF Drop, agentVars
  <2> QED
    BY <2>3, <2>4, <2>5, <2>6 DEF TypeOK
<1>16. CASE Survey
    BY <1>16 DEF Survey, TypeOK, agentVars
<1>17. CASE Delete
    BY <1>17 DEF Delete, TypeOK, agentVars
<1>18. CASE Forget
    BY <1>18 DEF Forget, TypeOK, agentVars
<1>19. CASE Crash
    BY <1>19 DEF Crash, TypeOK, agentVars
<1>20. ASSUME NEW r \in Run, Begin(r) PROVE TypeOK'
    BY <1>20 DEF Begin, TypeOK, agentVars, op
<1>21. ASSUME NEW r \in Run, Prepare(r) PROVE TypeOK'
    BY <1>21 DEF Prepare, TypeOK, agentVars
<1>22. ASSUME NEW r \in Run, Send(r) PROVE TypeOK'
    BY <1>22 DEF Send, TypeOK, agentVars, op
<1>23. ASSUME NEW r \in Run, Cleanup(r) PROVE TypeOK'
    BY <1>23 DEF Cleanup, TypeOK, agentVars
<1>24. ASSUME NEW r \in Run, Release(r) PROVE TypeOK'
    BY <1>24 DEF Release, TypeOK, agentVars
<1> QED
    BY <1>1, <1>2, <1>3, <1>4, <1>5, <1>6, <1>7, <1>8, <1>9, <1>10, <1>11, <1>12, <1>13, <1>14,
       <1>15, <1>16, <1>17, <1>18, <1>19, <1>20, <1>21, <1>22, <1>23, <1>24 DEF Next, Agent,
       Prepares, Cleans, Releases

----------------------------------------------------------------------------
\* What a write of the agent does.
AWrite ==
    /\ written' = written + 1 /\ written' \in Version /\ wants' = written'
    /\ source' \in Version /\ source' \in {source, written'}
    /\ holds'[source'] = written'
    /\ \A v \in Version \ {source'} : holds'[v] = holds[v]
    /\ \A v \in Version \ {written'} : looks'[v] = looks[v]
    /\ \/ looks'[written'] = written'
       \/ source # Nothing /\ looks'[written'] = looks[holds[source]]
    /\ UNCHANGED <<since, claim, took, spool, quarantine, sent, cleaned, op>>

LEMMA Writes == ASSUME TypeOK, WrittenOK, Replace \/ Edit PROVE AWrite
<1> USE WritesAssumption DEF TypeOK, Nothing, Version, AWrite
<1>1. CASE Replace
  <2>1. written + 1 \in Version
    BY <1>1 DEF Replace
  <2> QED
    BY <1>1, <2>1 DEF Replace
<1>2. CASE Edit
  <2>1. source \in Version /\ holds[source] \in Version /\ written + 1 \in Version
    BY <1>2 DEF Edit, WrittenOK
  <2> QED
    BY <1>2, <2>1 DEF Edit
<1> QED
    BY <1>1, <1>2

\* Everything was written by now, and a version looks like no later one.
Bounded ==
    /\ written \in Nat /\ 1..written \subseteq Version /\ source \in 0..written
    /\ \A v \in Version : holds[v] \in 0..written /\ looks[v] \in 0..v
    /\ \A v \in 1..written : looks[v] \in 0..written
    /\ \A r \in Run : since[r] \in 0..written /\ took[r] \in 0..written /\ quarantine[r] \in 0..written

LEMMA Bounds == ASSUME TypeOK, WrittenOK PROVE Bounded
<1> USE WritesAssumption DEF TypeOK, WrittenOK, Version
<1>1. written \in Nat /\ 1..written \subseteq Version /\ source \in 0..written
    OBVIOUS
<1>2. ASSUME NEW v \in Version PROVE holds[v] \in 0..written /\ looks[v] \in 0..v
    BY <1>1
<1>3. ASSUME NEW v \in 1..written PROVE looks[v] \in 0..written
    BY <1>1, <1>2
<1>4. ASSUME NEW r \in Run
      PROVE since[r] \in 0..written /\ took[r] \in 0..written /\ quarantine[r] \in 0..written
    BY <1>1
<1> QED
    BY <1>1, <1>2, <1>3, <1>4 DEF Bounded

----------------------------------------------------------------------------
\* What was written bounds the rest: every step.
LEMMA WrittenStep ==
    ASSUME IInv, Next
    PROVE  WrittenOK'
<1> USE WritesAssumption DEF Nothing, Version
<1>0. TypeOK /\ WrittenOK /\ PrepareOK
    BY DEF IInv
<1>b. Bounded
    BY <1>0, Bounds
<1>1. CASE Replace \/ Edit
  <2>0. AWrite
    BY <1>0, <1>1, Writes
  <2>1. looks'[written'] <= written'
    <3>1. CASE source = Nothing
      BY <2>0, <3>1 DEF AWrite
    <3>2. CASE source # Nothing
      <4>1. source \in Version /\ holds[source] # Nothing
        BY <1>0, <3>2 DEF TypeOK, WrittenOK
      <4>2. looks[holds[source]] <= written /\ looks[holds[source]] \in Nat /\ written \in Nat
        BY <1>b, <4>1 DEF Bounded
      <4> QED
        BY <2>0, <4>2 DEF AWrite
    <3> QED
      BY <3>1, <3>2
  <2>2. \A v \in Version : looks'[v] <= v
    BY <1>0, <2>0, <2>1 DEF AWrite, WrittenOK
  <2>3. \A v \in Version : holds'[v] <= written'
    <3> TAKE v \in Version
    <3>1. holds[v] \in Nat /\ written \in Nat /\ holds[v] <= written
      BY <1>0 DEF TypeOK, WrittenOK
    <3> QED
      BY <2>0, <3>1 DEF AWrite
  <2>4. \A r \in Run : since[r] \in Nat /\ took[r] \in Nat /\ quarantine[r] \in 0..MaxVersion /\ written \in Nat
    BY <1>0 DEF TypeOK
  <2>5. \A r \in Run : since'[r] <= written' /\ took'[r] <= written' /\ quarantine'[r] <= written'
    BY <1>0, <2>0, <2>4 DEF AWrite, WrittenOK
  <2>6. \A r \in Run : quarantine'[r] # Nothing => holds'[quarantine'[r]] # Nothing
    BY <1>0, <2>0, <2>4 DEF AWrite, WrittenOK
  <2>7. source' <= written' /\ holds'[source'] # Nothing
    BY <1>b, <2>0 DEF AWrite, Bounded
  <2> QED
    BY <2>2, <2>3, <2>5, <2>6, <2>7 DEF WrittenOK
<1>2. CASE Remove
    BY <1>0, <1>2 DEF Remove, TypeOK, WrittenOK
<1>3. ASSUME NEW r \in Run, Begin(r) PROVE WrittenOK'
    BY <1>0, <1>3 DEF Begin, TypeOK, WrittenOK, agentVars
<1>4. CASE Publish
  <2>1. sees <= written
    BY <1>0, <1>4 DEF Publish, At, TypeOK, WrittenOK, PrepareOK, Preparing
  <2> QED
    BY <1>0, <1>4, <2>1 DEF Publish, TypeOK, WrittenOK, agentVars
<1>5. CASE Move
  <2>1. CASE source = Nothing
    BY <1>0, <1>5, <2>1 DEF Move, WrittenOK
  <2>2. CASE source # Nothing
    <3>1. /\ source' = Nothing /\ quarantine' = [quarantine EXCEPT ![run] = source]
          /\ UNCHANGED <<holds, looks, written, since, took>>
      BY <1>5, <2>2 DEF Move
    <3> QED
      BY <1>0, <2>2, <3>1 DEF TypeOK, WrittenOK
  <2> QED
    BY <2>1, <2>2
<1>6. CASE Erase
    BY <1>0, <1>6 DEF Erase, TypeOK, WrittenOK, agentVars
<1>7. CASE Restore
    BY <1>0, <1>7 DEF Restore, TypeOK, WrittenOK, At
<1>8. CASE UNCHANGED <<source, holds, looks, written, since, took, quarantine>>
    BY <1>0, <1>8 DEF WrittenOK
<1>9. ASSUME Scan \/ Read \/ Copy \/ Write \/ FileFails \/ Look \/ Check \/ Drop \/ Survey \/ Delete
               \/ Forget \/ Crash
              \/ \E r \in Run : Prepare(r) \/ Send(r) \/ Cleanup(r) \/ Release(r)
       PROVE  UNCHANGED <<source, holds, looks, written, since, took, quarantine>>
    BY <1>9 DEF Scan, Read, Copy, Write, FileFails, Look, Check, Drop, Survey, Delete, Forget,
       Crash, Prepare, Send, Cleanup, Release, agentVars, op
<1> QED
    BY <1>1, <1>2, <1>3, <1>4, <1>5, <1>6, <1>7, <1>8, <1>9 DEF Next, Agent, Prepares, Cleans,
       Releases

----------------------------------------------------------------------------
\* What a run has claimed, sent and cleaned: every step.
LEMMA RunStep ==
    ASSUME IInv, Next
    PROVE  \A q \in Run : RunOK(q)'
<1>0. TypeOK /\ (\A q \in Run : RunOK(q)) /\ PrepareOK /\ CleanOK
    BY DEF IInv
<1>1. ASSUME NEW r \in Run, Begin(r) PROVE \A q \in Run : RunOK(q)'
    BY <1>0, <1>1 DEF Begin, TypeOK, RunOK
<1>2. CASE Publish
  <2>1. claim[run] = "none" /\ run \in Run
    BY <1>0, <1>2 DEF Publish, At, TypeOK, PrepareOK, Preparing
  <2> QED
    BY <1>0, <1>2, <2>1 DEF Publish, TypeOK, RunOK
<1>3. ASSUME NEW r \in Run, Send(r) PROVE \A q \in Run : RunOK(q)'
    BY <1>0, <1>3 DEF Send, Published, TypeOK, RunOK
<1>4. CASE Drop
  <2>1. sent[run] /\ run \in Run
    BY <1>0, <1>4 DEF Drop, At, TypeOK, CleanOK, Cleaning
  <2>2. PICK done \in BOOLEAN : cleaned' = [cleaned EXCEPT ![run] = done]
    BY <1>4 DEF Drop
  <2> QED
    BY <1>0, <1>4, <2>1, <2>2 DEF Drop, TypeOK, RunOK
<1>5. CASE Forget
    BY <1>0, <1>5 DEF Forget, TypeOK, RunOK
<1>6. CASE UNCHANGED <<claim, took, sent, cleaned>>
    BY <1>0, <1>6 DEF RunOK
<1>7. ASSUME Replace \/ Edit \/ Remove \/ Scan \/ Read \/ Copy \/ Write \/ FileFails \/ Look \/ Move
               \/ Check \/ Erase \/ Restore \/ Survey \/ Delete \/ Crash
              \/ \E r \in Run : Prepare(r) \/ Cleanup(r) \/ Release(r)
       PROVE  UNCHANGED <<claim, took, sent, cleaned>>
    BY <1>7 DEF Replace, Edit, Remove, Scan, Read, Copy, Write, FileFails, Look, Move, Check, Erase,
       Restore, Survey, Delete, Crash, Prepare, Cleanup, Release, agentVars, op
<1> QED
    BY <1>1, <1>2, <1>3, <1>4, <1>5, <1>6, <1>7 DEF Next, Agent, Prepares, Cleans, Releases

----------------------------------------------------------------------------
\* A retired claim is older than every active run: every step.
LEMMA RetiredStep ==
    ASSUME IInv, Next
    PROVE  RetiredIsOld'
<1> USE WritesAssumption DEF Nothing, Version
<1>0. TypeOK /\ WrittenOK /\ RetiredIsOld /\ PrepareOK /\ ReleaseOK
    BY DEF IInv
<1>b. Bounded
    BY <1>0, Bounds
<1>1. CASE Replace \/ Edit
  <2>0. AWrite
    BY <1>0, <1>1, Writes
  <2>1. \A q \in Run : took[q] # Nothing => took[q] \in Version \ {written'}
    BY <1>b, <2>0 DEF AWrite, Bounded
  <2> QED
    BY <1>0, <2>0, <2>1 DEF RetiredIsOld, AWrite
<1>2. ASSUME NEW r \in Run, Begin(r) PROVE RetiredIsOld'
  <2>1. \A q \in Run : took[q] # Nothing => looks[took[q]] <= written
    BY <1>b DEF Bounded
  <2> QED
    BY <1>0, <1>2, <2>1 DEF Begin, agentVars, TypeOK, RetiredIsOld
<1>3. CASE Publish
    BY <1>0, <1>3 DEF Publish, agentVars, TypeOK, RetiredIsOld
<1>4. CASE Forget
  <2>1. \A r \in Run : claim[r] # "none"
    BY <1>0, <1>4 DEF Forget, At, Quiet, ReleaseOK, Releasing
  <2> QED
    BY <1>0, <1>4, <2>1 DEF Forget, TypeOK, RetiredIsOld
<1>5. CASE UNCHANGED <<claim, took, looks, since>>
    BY <1>0, <1>5 DEF RetiredIsOld
<1>6. ASSUME Remove \/ Scan \/ Read \/ Copy \/ Write \/ FileFails \/ Look \/ Move \/ Check \/ Erase
               \/ Restore \/ Drop \/ Survey \/ Delete \/ Crash
              \/ \E r \in Run : Prepare(r) \/ Send(r) \/ Cleanup(r) \/ Release(r)
       PROVE  UNCHANGED <<claim, took, looks, since>>
    BY <1>6 DEF Remove, Scan, Read, Copy, Write, FileFails, Look, Move, Check, Erase, Restore, Drop,
       Survey, Delete, Crash, Prepare, Send, Cleanup, Release, agentVars, op
<1> QED
    BY <1>1, <1>2, <1>3, <1>4, <1>5, <1>6 DEF Next, Agent, Prepares, Cleans, Releases

----------------------------------------------------------------------------
\* What prepare is about to claim is of its turn and free: every step.
LEMMA PrepareStep ==
    ASSUME IInv, Next
    PROVE  PrepareOK'
<1> USE DEF Nothing
<1>0. TypeOK /\ WrittenOK /\ PrepareOK
    BY DEF IInv
<1>b. Bounded
    BY <1>0, Bounds
<1>1. CASE Replace \/ Edit
  <2>0. AWrite
    BY <1>0, <1>1, Writes
  <2> SUFFICES ASSUME at \in Preparing PROVE PrepareOK'
    BY <2>0 DEF AWrite, op, PrepareOK
  <2>1. run \in Run /\ since[run] < written'
    BY <1>0, <1>b, <2>0 DEF Bounded, AWrite, TypeOK, Preparing
  <2>2. at = "reading" => looks'[written'] > since[run]
    BY <1>0, <1>b, <2>0, <2>1 DEF Bounded, AWrite, PrepareOK
  <2>3. sees # Nothing /\ sees <= written => sees \in Version \ {written'}
    BY <1>0, <1>b, <2>0 DEF Bounded, AWrite, TypeOK
  <2>4. sees # Nothing /\ sees <= written => looks'[sees] = looks[sees] /\ sees <= written'
    BY <1>0, <1>b, <2>0, <2>3 DEF Bounded, AWrite, TypeOK
  <2> QED
    BY <1>0, <2>0, <2>2, <2>4 DEF AWrite, op, PrepareOK, Fresh, Claimed, Published
<1>2. CASE Remove
    BY <1>0, <1>2 DEF Remove, op, PrepareOK, Fresh, Claimed, Published
<1>3. ASSUME NEW r \in Run, Begin(r) PROVE PrepareOK'
  <2>1. at \in Preparing => run # r /\ run \in Run
    BY <1>0, <1>3 DEF Begin, TypeOK, PrepareOK, Preparing
  <2>2. \A q \in Run : Published(q)' <=> Published(q)
    BY <1>0, <1>3 DEF Begin, TypeOK, Published
  <2>3. at \in Preparing => claim'[run] = claim[run] /\ since'[run] = since[run]
    BY <1>0, <1>3, <2>1 DEF Begin, TypeOK
  <2> QED
    BY <1>0, <1>3, <2>2, <2>3 DEF Begin, agentVars, op, PrepareOK, Fresh, Claimed
<1>4. ASSUME NEW r \in Run, Prepare(r) PROVE PrepareOK'
    BY <1>0, <1>4 DEF Prepare, Starts, PrepareOK, Preparing
<1>5. CASE Scan
    BY <1>0, <1>5 DEF Scan, At, Goes, agentVars, PrepareOK, Preparing
<1>6. CASE Read
  <2>1. holds[source] # Nothing /\ holds[source] <= written
    BY <1>0, <1>b, <1>6 DEF Read, WrittenOK, Bounded, TypeOK
  <2> QED
    BY <1>0, <1>6, <2>1 DEF Read, At, Sees, agentVars, PrepareOK, Preparing, Fresh, Claimed,
       Published
<1>7. CASE Copy
  <2>1. run \in Run /\ sees \in Version /\ claim[run] = "none" /\ Fresh(sees) /\ sees <= written
    BY <1>0, <1>7, WritesAssumption DEF Copy, At, TypeOK, PrepareOK, Preparing, Version
  <2>3. CASE spool[run][sees] = "whole"
    BY <1>7, <2>1, <2>3 DEF Copy, Goes, agentVars, PrepareOK, Preparing, Fresh, Claimed, Published
  <2>4. CASE spool[run][sees] = "torn"
    BY <1>7, <2>1, <2>4 DEF Copy, Sees, agentVars, PrepareOK, Preparing
  <2>5. CASE spool[run][sees] = "none"
    <3>1. /\ at' = "writing" /\ UNCHANGED <<run, sees>>
          /\ UNCHANGED <<source, holds, looks, written, since, claim, took>>
      <4>1. Goes("writing")
        BY <1>7, <2>5 DEF Copy
      <4>2. UNCHANGED <<source, holds, looks, written, since, claim, took>>
        BY <1>7 DEF Copy, agentVars
      <4> QED
        BY <4>1, <4>2 DEF Goes
    <3> QED
      BY <2>1, <3>1, WritesAssumption DEF PrepareOK, Fresh, Claimed, Published, Preparing, Version
  <2> QED
    BY <1>0, <2>1, <2>3, <2>4, <2>5 DEF TypeOK
<1>8. CASE Write
  <2>1. run \in Run /\ sees \in Version /\ claim[run] = "none" /\ Fresh(sees) /\ sees <= written
    BY <1>0, <1>8, WritesAssumption DEF Write, At, TypeOK, PrepareOK, Preparing, Version
  <2>2. spool'[run][sees] = "whole"
    BY <1>0, <1>8, <2>1 DEF Write, TypeOK
  <2> QED
    BY <1>8, <2>1, <2>2 DEF Write, Goes, agentVars, PrepareOK, Preparing, Fresh, Claimed, Published
<1>9. CASE FileFails
    BY <1>0, <1>9 DEF FileFails, Sees, agentVars, PrepareOK, Preparing
<1>10. CASE Publish
    BY <1>0, <1>10 DEF Publish, Goes, Stops, Preparing, PrepareOK
<1>11. CASE Look
    BY <1>0, <1>11 DEF Look, Goes, Stops, Preparing, PrepareOK
<1>12. CASE Move
    BY <1>0, <1>12 DEF Move, Goes, Stops, Preparing, PrepareOK
<1>13. CASE Check
    BY <1>0, <1>13 DEF Check, Goes, Stops, Preparing, PrepareOK
<1>14. CASE Erase
    BY <1>0, <1>14 DEF Erase, Goes, Stops, Preparing, PrepareOK
<1>15. CASE Restore
    BY <1>0, <1>15 DEF Restore, Goes, Stops, Preparing, PrepareOK
<1>16. CASE Drop
    BY <1>0, <1>16 DEF Drop, Goes, Stops, Preparing, PrepareOK
<1>17. CASE Survey
    BY <1>0, <1>17 DEF Survey, Goes, Stops, Preparing, PrepareOK
<1>18. CASE Delete
    BY <1>0, <1>18 DEF Delete, Goes, Stops, Preparing, PrepareOK
<1>19. CASE Forget
    BY <1>0, <1>19 DEF Forget, Goes, Stops, Preparing, PrepareOK
<1>20. CASE Crash
    BY <1>0, <1>20 DEF Crash, Goes, Stops, Preparing, PrepareOK
<1>21. ASSUME NEW r \in Run, Cleanup(r) PROVE PrepareOK'
    BY <1>0, <1>21 DEF Cleanup, Starts, Preparing, PrepareOK
<1>22. ASSUME NEW r \in Run, Release(r) PROVE PrepareOK'
    BY <1>0, <1>22 DEF Release, Starts, Preparing, PrepareOK
<1>23. CASE UNCHANGED <<at, run, sees, claim, looks, holds, source, since, took, written, spool>>
    BY <1>0, <1>23 DEF PrepareOK, Fresh, Claimed, Published
<1>24. ASSUME NEW r \in Run, Send(r)
       PROVE  UNCHANGED <<at, run, sees, claim, looks, holds, source, since, took, written, spool>>
    BY <1>24 DEF Send, agentVars, op
<1> QED
    BY <1>1, <1>2, <1>3, <1>4, <1>5, <1>6, <1>7, <1>8, <1>9, <1>10, <1>11, <1>12, <1>13, <1>14,
       <1>15, <1>16, <1>17, <1>18, <1>19, <1>20, <1>21, <1>22, <1>23, <1>24 DEF Next, Agent,
       Prepares, Cleans, Releases

\* Copy goes on with preparing.
LEMMA CopyGoesOn == ASSUME TypeOK, PrepareOK, Copy PROVE at' \in {"publishing", "writing"}
<1> USE DEF Goes, Sees
<1>1. run \in Run /\ sees \in Version
    BY WritesAssumption DEF Copy, At, TypeOK, PrepareOK, Preparing, Version, Nothing
<1>2. spool[run][sees] \in {"none", "torn", "whole"}
    BY <1>1 DEF TypeOK
<1>3. CASE spool[run][sees] = "whole"
    BY <1>3 DEF Copy
<1>4. CASE spool[run][sees] = "torn"
    BY <1>4 DEF Copy
<1>5. CASE spool[run][sees] = "none"
    BY <1>5 DEF Copy
<1> QED
    BY <1>2, <1>3, <1>4, <1>5

----------------------------------------------------------------------------
\* What cleanup may erase was sent, or is kept elsewhere: every step.
LEMMA CleanStep ==
    ASSUME IInv, Next
    PROVE  CleanOK'
<1> USE DEF Nothing
<1>0. TypeOK /\ WrittenOK /\ PrepareOK /\ CleanOK /\ NothingLost
    BY DEF IInv, FilesKept
<1>b. Bounded
    BY <1>0, Bounds
<1>1. CASE Replace \/ Edit
  <2>0. AWrite
    BY <1>0, <1>1, Writes
  <2> SUFFICES ASSUME at \in Cleaning PROVE CleanOK'
    BY <2>0 DEF AWrite, op, CleanOK
  <2>1. at = "erasing" => run \in Run /\ quarantine[run] \in Version /\ quarantine[run] # source'
    BY <1>0, <1>b, <2>0 DEF Bounded, AWrite, TypeOK, CleanOK
  <2>2. KeptElsewhere(run)'
    BY <2>0, WritesAssumption DEF AWrite, KeptElsewhere, Version
  <2> QED
    BY <1>0, <2>0, <2>1, <2>2 DEF AWrite, op, CleanOK, Published
<1>2. CASE Remove
    BY <1>0, <1>2 DEF Remove, op, CleanOK, KeptElsewhere, Published, TypeOK
<1>3. ASSUME NEW r \in Run, Begin(r) PROVE CleanOK'
    BY <1>0, <1>3 DEF Begin, op, CleanOK
<1>4. ASSUME NEW r \in Run, Send(r) PROVE CleanOK'
  <2>1. \A q \in Run : sent[q] => sent'[q]
    BY <1>0, <1>4 DEF Send, TypeOK
  <2>2. at \in Cleaning => run \in Run
    BY <1>0 DEF TypeOK, Cleaning
  <2>3. at = "unlinking" /\ KeptElsewhere(run) => KeptElsewhere(run)'
    BY <1>4, <2>1 DEF Send, agentVars, op, KeptElsewhere
  <2> QED
    BY <1>0, <1>4, <2>1, <2>2, <2>3 DEF Send, agentVars, op, CleanOK, Published
<1>5. CASE Look
    BY <1>0, <1>5 DEF Look, At, Goes, agentVars, CleanOK, Cleaning, Published
<1>6. CASE Move
    BY <1>0, <1>6 DEF Move, At, Goes, CleanOK, Cleaning, Published
<1>7. CASE Check
  <2>1. run \in Run /\ Published(run) /\ sent[run] /\ quarantine[run] # Nothing
    BY <1>0, <1>7 DEF Check, At, TypeOK, CleanOK, Cleaning
  <2>2. UNCHANGED <<source, holds, wants, claim, took, quarantine, sent, run>>
    BY <1>7 DEF Check, Goes, agentVars
  <2>3. \/ quarantine[run] = source /\ at' = "unlinking"
        \/ at' = "erasing" /\ quarantine[run] # source /\ holds[quarantine[run]] = took[run]
        \/ at' = "restoring"
    BY <1>7 DEF Check, Goes
  <2>4. quarantine[run] = source => KeptElsewhere(run)'
    BY <1>0, <2>1, <2>2 DEF NothingLost, KeptElsewhere
  <2> QED
    BY <2>1, <2>2, <2>3, <2>4 DEF CleanOK, Published
<1>8. CASE Erase
    BY <1>0, <1>8 DEF Erase, Goes, agentVars, CleanOK, Cleaning, Published
<1>9. CASE Restore
  <2>1. run \in Run /\ Published(run) /\ sent[run] /\ quarantine[run] # Nothing
    BY <1>0, <1>9 DEF Restore, At, TypeOK, CleanOK, Cleaning
  <2>2. CASE source = Nothing
    <3>1. /\ source' = quarantine[run] /\ at' = "unlinking"
          /\ UNCHANGED <<holds, wants, claim, took, quarantine, sent, run>>
      BY <1>9, <2>2 DEF Restore, Goes
    <3>2. KeptElsewhere(run)'
      BY <1>0, <2>1, <2>2, <3>1 DEF NothingLost, KeptElsewhere
    <3> QED
      BY <2>1, <3>1, <3>2 DEF CleanOK, Published
  <2>3. CASE source # Nothing
    BY <1>9, <2>3 DEF Restore, Stops, CleanOK, Cleaning
  <2> QED
    BY <2>2, <2>3
<1>10. CASE Copy
    BY <1>0, <1>10, CopyGoesOn DEF CleanOK, Cleaning
<1>11. ASSUME NEW r \in Run, Cleanup(r) PROVE CleanOK'
    BY <1>0, <1>11 DEF Cleanup, Starts, CleanOK, Published
<1>12. CASE Scan
    BY <1>0, <1>12 DEF Scan, Goes, Sees, Stops, Cleaning, CleanOK
<1>13. CASE Read
    BY <1>0, <1>13 DEF Read, Goes, Sees, Stops, Cleaning, CleanOK
<1>14. CASE Write
    BY <1>0, <1>14 DEF Write, Goes, Sees, Stops, Cleaning, CleanOK
<1>15. CASE FileFails
    BY <1>0, <1>15 DEF FileFails, Goes, Sees, Stops, Cleaning, CleanOK
<1>16. CASE Publish
    BY <1>0, <1>16 DEF Publish, Goes, Sees, Stops, Cleaning, CleanOK
<1>17. CASE Drop
    BY <1>0, <1>17 DEF Drop, Goes, Sees, Stops, Cleaning, CleanOK
<1>18. CASE Survey
    BY <1>0, <1>18 DEF Survey, Goes, Sees, Stops, Cleaning, CleanOK
<1>19. CASE Delete
    BY <1>0, <1>19 DEF Delete, Goes, Sees, Stops, Cleaning, CleanOK
<1>20. CASE Forget
    BY <1>0, <1>20 DEF Forget, Goes, Sees, Stops, Cleaning, CleanOK
<1>21. CASE Crash
    BY <1>0, <1>21 DEF Crash, Goes, Sees, Stops, Cleaning, CleanOK
<1>22. ASSUME NEW r \in Run, Prepare(r) PROVE CleanOK'
    BY <1>0, <1>22 DEF Prepare, Starts, Cleaning, CleanOK
<1>23. ASSUME NEW r \in Run, Release(r) PROVE CleanOK'
    BY <1>0, <1>23 DEF Release, Starts, Cleaning, CleanOK
<1> QED
    BY <1>1, <1>2, <1>3, <1>4, <1>5, <1>6, <1>7, <1>8, <1>9, <1>10, <1>11, <1>12, <1>13, <1>14,
       <1>15, <1>16, <1>17, <1>18, <1>19, <1>20, <1>21, <1>22, <1>23 DEF Next, Agent, Prepares,
       Cleans, Releases

----------------------------------------------------------------------------
\* No run is active while a claim is given up: every step.
LEMMA ReleaseStep ==
    ASSUME IInv, Next
    PROVE  ReleaseOK'
<1> USE DEF Nothing
<1>0. TypeOK /\ (\A q \in Run : RunOK(q)) /\ PrepareOK /\ ReleaseOK
    BY DEF IInv
<1>1. ASSUME NEW r \in Run, Send(r) PROVE ReleaseOK'
  <2>1. \A q \in Run : sent[q] => sent'[q]
    BY <1>0, <1>1 DEF Send, TypeOK
  <2>2. at \in Releasing => run \in Run
    BY <1>0 DEF TypeOK, Releasing
  <2> QED
    BY <1>0, <1>1, <2>1, <2>2 DEF Send, op, ReleaseOK, Quiet, Published
<1>2. ASSUME NEW r \in Run, Begin(r) PROVE ReleaseOK'
    BY <1>0, <1>2 DEF Begin, op, ReleaseOK
<1>3. ASSUME NEW r \in Run, Release(r) PROVE ReleaseOK'
    BY <1>0, <1>3 DEF Release, Starts, ReleaseOK, RunOK, Quiet, Published
<1>4. CASE Survey
    BY <1>0, <1>4 DEF Survey, At, Goes, Stops, Releasing, ReleaseOK, Quiet, Published
<1>5. CASE Delete
    BY <1>0, <1>5 DEF Delete, At, Goes, Stops, Releasing, ReleaseOK, Quiet, Published
<1>6. CASE Forget
    BY <1>0, <1>6 DEF Forget, At, Goes, Stops, Releasing, ReleaseOK, Quiet, Published
<1>7. CASE Replace
    BY <1>0, <1>7 DEF Replace, op, ReleaseOK, Quiet, Published
<1>8. CASE Edit
    BY <1>0, <1>8 DEF Edit, op, ReleaseOK, Quiet, Published
<1>9. CASE Remove
    BY <1>0, <1>9 DEF Remove, op, ReleaseOK, Quiet, Published
<1>10. CASE Scan
    BY <1>0, <1>10 DEF Scan, Goes, Sees, Stops, Releasing, ReleaseOK
<1>11. CASE Read
    BY <1>0, <1>11 DEF Read, Goes, Sees, Stops, Releasing, ReleaseOK
<1>12. CASE Write
    BY <1>0, <1>12 DEF Write, Goes, Sees, Stops, Releasing, ReleaseOK
<1>13. CASE Publish
    BY <1>0, <1>13 DEF Publish, Goes, Sees, Stops, Releasing, ReleaseOK
<1>14. CASE FileFails
    BY <1>0, <1>14 DEF FileFails, Goes, Sees, Stops, Releasing, ReleaseOK
<1>15. CASE Look
    BY <1>0, <1>15 DEF Look, Goes, Sees, Stops, Releasing, ReleaseOK
<1>16. CASE Move
    BY <1>0, <1>16 DEF Move, Goes, Sees, Stops, Releasing, ReleaseOK
<1>17. CASE Check
    BY <1>0, <1>17 DEF Check, Goes, Sees, Stops, Releasing, ReleaseOK
<1>18. CASE Erase
    BY <1>0, <1>18 DEF Erase, Goes, Sees, Stops, Releasing, ReleaseOK
<1>19. CASE Restore
    BY <1>0, <1>19 DEF Restore, Goes, Sees, Stops, Releasing, ReleaseOK
<1>20. CASE Drop
    BY <1>0, <1>20 DEF Drop, Goes, Sees, Stops, Releasing, ReleaseOK
<1>21. CASE Crash
    BY <1>0, <1>21 DEF Crash, Goes, Sees, Stops, Releasing, ReleaseOK
<1>22. CASE Copy
    BY <1>0, <1>22, CopyGoesOn DEF ReleaseOK, Releasing
<1>23. ASSUME NEW r \in Run, Prepare(r) PROVE ReleaseOK'
    BY <1>0, <1>23 DEF Prepare, Starts, Releasing, ReleaseOK
<1>24. ASSUME NEW r \in Run, Cleanup(r) PROVE ReleaseOK'
    BY <1>0, <1>24 DEF Cleanup, Starts, Releasing, ReleaseOK
<1> QED
    BY <1>1, <1>2, <1>3, <1>4, <1>5, <1>6, <1>7, <1>8, <1>9, <1>10, <1>11, <1>12, <1>13, <1>14,
       <1>15, <1>16, <1>17, <1>18, <1>19, <1>20, <1>21, <1>22, <1>23, <1>24 DEF Next, Agent,
       Prepares, Cleans, Releases

----------------------------------------------------------------------------
\* No output is lost: every step.
LEMMA LostStep ==
    ASSUME IInv, Next
    PROVE  NothingLost'
<1> USE DEF Nothing
<1>0. TypeOK /\ WrittenOK /\ (\A q \in Run : RunOK(q)) /\ PrepareOK /\ CleanOK /\ NothingLost
    BY DEF IInv, FilesKept
<1>b. Bounded
    BY <1>0, Bounds
<1>1. CASE Replace \/ Edit
  <2>0. AWrite
    BY <1>0, <1>1, Writes
  <2> QED
    BY <2>0, WritesAssumption DEF AWrite, NothingLost, Version
<1>2. CASE Remove
    BY <1>2 DEF Remove, NothingLost
<1>3. CASE Publish
  <2>1. run \in Run /\ ~sent[run]
    BY <1>0, <1>3 DEF Publish, At, TypeOK, PrepareOK, Preparing, RunOK
  <2>2. \A q \in Run : sent[q] => took'[q] = took[q]
    BY <1>0, <1>3, <2>1 DEF Publish, TypeOK
  <2>3. UNCHANGED <<source, holds, wants, quarantine, sent>>
    BY <1>3 DEF Publish, agentVars
  <2> QED
    BY <1>0, <2>2, <2>3 DEF NothingLost
<1>4. ASSUME NEW r \in Run, Send(r) PROVE NothingLost'
  <2>1. \A q \in Run : sent[q] => sent'[q]
    BY <1>0, <1>4 DEF Send, TypeOK
  <2>2. UNCHANGED <<source, holds, wants, quarantine, took>>
    BY <1>4 DEF Send, agentVars
  <2> QED
    BY <1>0, <2>1, <2>2 DEF NothingLost
<1>5. CASE Move
  <2>1. CASE source = Nothing
    BY <1>0, <1>5, <2>1 DEF Move, NothingLost
  <2>2. CASE source # Nothing
    <3>1. run \in Run /\ quarantine[run] = Nothing
      BY <1>0, <1>5 DEF Move, At, TypeOK, CleanOK, Cleaning
    <3>2. /\ source' = Nothing /\ quarantine' = [quarantine EXCEPT ![run] = source]
          /\ UNCHANGED <<holds, wants, took, sent>>
      BY <1>5, <2>2 DEF Move
    <3>3. /\ quarantine'[run] = source
          /\ \A q \in Run \ {run} : quarantine'[q] = quarantine[q]
      BY <1>0, <3>1, <3>2 DEF TypeOK
    <3> QED
      BY <1>0, <2>2, <3>1, <3>2, <3>3 DEF NothingLost
  <2> QED
    BY <2>1, <2>2
<1>6. CASE Erase
  <2>1. run \in Run /\ sent[run]
    BY <1>0, <1>6 DEF Erase, TypeOK, CleanOK, Cleaning
  <2>2. KeptElsewhere(run)
    BY <1>0, <1>6, <2>1 DEF Erase, CleanOK, Cleaning, NothingLost, KeptElsewhere
  <2>3. /\ UNCHANGED <<source, holds, wants, took, sent>>
        /\ \A q \in Run \ {run} : quarantine'[q] = quarantine[q]
    BY <1>0, <1>6 DEF Erase, agentVars, TypeOK
  <2> QED
    BY <2>2, <2>3 DEF NothingLost, KeptElsewhere
<1>7. CASE Restore
  <2>1. CASE source = Nothing
    BY <1>0, <1>7, <2>1 DEF Restore, NothingLost
  <2>2. CASE source # Nothing
    BY <1>0, <1>7, <2>2 DEF Restore, NothingLost
  <2> QED
    BY <2>1, <2>2
<1>8. CASE UNCHANGED <<source, holds, wants, took, quarantine, sent>>
    BY <1>0, <1>8 DEF NothingLost
<1>9. ASSUME Scan \/ Read \/ Copy \/ Write \/ FileFails \/ Look \/ Check \/ Drop \/ Survey \/ Delete
               \/ Forget \/ Crash
              \/ \E r \in Run : Begin(r) \/ Prepare(r) \/ Cleanup(r) \/ Release(r)
       PROVE  UNCHANGED <<source, holds, wants, took, quarantine, sent>>
    BY <1>9 DEF Scan, Read, Copy, Write, FileFails, Look, Check, Drop, Survey, Delete, Forget,
       Crash, Begin, Prepare, Cleanup, Release, agentVars, op
<1> QED
    BY <1>1, <1>2, <1>3, <1>4, <1>5, <1>6, <1>7, <1>8, <1>9 DEF Next, Agent, Prepares, Cleans,
       Releases

----------------------------------------------------------------------------
\* No version is claimed twice: every step.
LEMMA ClaimStep ==
    ASSUME IInv, Next
    PROVE  ClaimedOnce'
<1> USE DEF Nothing
<1>0. TypeOK /\ (\A q \in Run : RunOK(q)) /\ RetiredIsOld /\ PrepareOK /\ ClaimedOnce
    BY DEF IInv, FilesKept
<1>1. CASE Publish
  <2>1. /\ run \in Run /\ claim[run] = "none" /\ sees \in 0..MaxVersion
        /\ sees # Nothing => Fresh(sees)
    BY <1>0, <1>1 DEF Publish, At, TypeOK, PrepareOK, Preparing
  <2>2. ASSUME NEW q \in Run, sees # Nothing, took[q] = sees PROVE FALSE
    <3>1. claim[q] \in {"published", "retired"}
      BY <1>0, <2>2 DEF TypeOK, RunOK
    <3>2. claim[q] # "published"
      BY <2>1, <2>2 DEF Fresh, Claimed, Published
    <3>3. looks[sees] <= since[run]
      BY <1>0, <2>1, <2>2, <3>1, <3>2 DEF RetiredIsOld
    <3>4. looks[sees] > since[run] /\ looks[sees] \in Nat /\ since[run] \in Nat
      BY <1>0, <2>1, <2>2, WritesAssumption DEF Fresh, TypeOK, Version
    <3> QED
      BY <3>3, <3>4
  <2>3. took' = [took EXCEPT ![run] = sees]
    BY <1>1 DEF Publish
  <2> QED
    BY <1>0, <2>1, <2>2, <2>3 DEF ClaimedOnce, TypeOK
<1>2. CASE UNCHANGED took
    BY <1>0, <1>2 DEF ClaimedOnce
<1>3. ASSUME Replace \/ Edit \/ Remove \/ Scan \/ Read \/ Copy \/ Write \/ FileFails \/ Look \/ Move
               \/ Check \/ Erase \/ Restore \/ Drop \/ Survey \/ Delete \/ Forget \/ Crash
              \/ \E r \in Run : Begin(r) \/ Prepare(r) \/ Send(r) \/ Cleanup(r) \/ Release(r)
       PROVE  UNCHANGED took
    BY <1>3 DEF Replace, Edit, Remove, Scan, Read, Copy, Write, FileFails, Look, Move, Check, Erase,
       Restore, Drop, Survey, Delete, Forget, Crash, Begin, Prepare, Send, Cleanup, Release,
       agentVars, op
<1> QED
    BY <1>1, <1>2, <1>3 DEF Next, Agent, Prepares, Cleans, Releases

----------------------------------------------------------------------------
\* A claim has its snapshot until it is sent: every step.
LEMMA SnapshotStep ==
    ASSUME IInv, Next
    PROVE  SnapshotKept'
<1> USE DEF Nothing
<1>0. TypeOK /\ PrepareOK /\ CleanOK /\ ReleaseOK /\ SnapshotKept
    BY DEF IInv, FilesKept
<1>1. ASSUME NEW r \in Run, Begin(r) PROVE SnapshotKept'
    BY <1>0, <1>1 DEF Begin, Published, SnapshotKept, TypeOK
<1>2. CASE Copy
  <2>1. run \in Run /\ claim[run] = "none"
    BY <1>0, <1>2 DEF Copy, At, TypeOK, PrepareOK, Preparing
  <2>2. UNCHANGED <<claim, took, sent>>
    BY <1>2 DEF Copy
  <2>3. \A q \in Run \ {run} : spool'[q] = spool[q]
    <3>1. sees \in Version /\ spool[run][sees] \in {"none", "torn", "whole"}
      BY <1>0, <1>2, <2>1, WritesAssumption DEF Copy, At, TypeOK, PrepareOK, Preparing, Version
    <3>2. \/ UNCHANGED spool
          \/ spool' = [spool EXCEPT ![run][sees] = "torn"]
      BY <1>2, <3>1 DEF Copy
    <3> QED
      BY <1>0, <2>1, <3>2 DEF TypeOK
  <2> QED
    BY <1>0, <2>1, <2>2, <2>3 DEF Published, SnapshotKept
<1>3. CASE Write
  <2>1. run \in Run /\ claim[run] = "none"
    BY <1>0, <1>3 DEF Write, At, TypeOK, PrepareOK, Preparing
  <2>2. \A q \in Run \ {run} : spool'[q] = spool[q]
    BY <1>0, <1>3, <2>1 DEF Write, TypeOK
  <2> QED
    BY <1>0, <1>3, <2>1, <2>2 DEF Write, Published, SnapshotKept
<1>4. CASE Publish
  <2>1. run \in Run /\ (sees # Nothing => spool[run][sees] = "whole")
    BY <1>0, <1>4 DEF Publish, At, TypeOK, PrepareOK, Preparing
  <2>2. UNCHANGED <<spool, sent>> /\ took'[run] = sees
    BY <1>0, <1>4, <2>1 DEF Publish, TypeOK
  <2>3. \A q \in Run \ {run} : took'[q] = took[q] /\ claim'[q] = claim[q]
    BY <1>0, <1>4, <2>1 DEF Publish, TypeOK
  <2> QED
    BY <1>0, <2>1, <2>2, <2>3 DEF Published, SnapshotKept
<1>5. ASSUME NEW r \in Run, Send(r) PROVE SnapshotKept'
    BY <1>0, <1>5 DEF Send, Published, SnapshotKept, TypeOK
<1>6. CASE Drop
  <2>1. run \in Run /\ sent[run]
    BY <1>0, <1>6 DEF Drop, At, TypeOK, CleanOK, Cleaning
  <2>2. \A q \in Run \ {run} : spool'[q] = spool[q]
    BY <1>0, <1>6, <2>1 DEF Drop, TypeOK
  <2> QED
    BY <1>0, <1>6, <2>1, <2>2 DEF Drop, Published, SnapshotKept
<1>7. CASE Delete
  <2>1. run \in Run /\ (took[run] # Nothing => sent[run])
    BY <1>0, <1>7 DEF Delete, At, TypeOK, ReleaseOK, Releasing
  <2>2. \A q \in Run \ {run} : spool'[q] = spool[q]
    BY <1>0, <1>7, <2>1 DEF Delete, TypeOK
  <2> QED
    BY <1>0, <1>7, <2>1, <2>2 DEF Delete, Published, SnapshotKept
<1>8. CASE Forget
    BY <1>0, <1>8 DEF Forget, Published, SnapshotKept, TypeOK
<1>9. CASE UNCHANGED <<claim, took, sent, spool>>
    BY <1>0, <1>9 DEF SnapshotKept, Published
<1>10. ASSUME Replace \/ Edit \/ Remove \/ Scan \/ Read \/ FileFails \/ Look \/ Move \/ Check \/
               Erase \/ Restore \/ Survey \/ Crash
              \/ \E r \in Run : Prepare(r) \/ Cleanup(r) \/ Release(r)
       PROVE  UNCHANGED <<claim, took, sent, spool>>
    BY <1>10 DEF Replace, Edit, Remove, Scan, Read, FileFails, Look, Move, Check, Erase, Restore,
       Survey, Crash, Prepare, Cleanup, Release, agentVars, op
<1> QED
    BY <1>1, <1>2, <1>3, <1>4, <1>5, <1>6, <1>7, <1>8, <1>9, <1>10 DEF Next, Agent, Prepares,
       Cleans, Releases

----------------------------------------------------------------------------
\* Every step keeps the invariant.
LEMMA InvStep == IInv /\ [Next]_vars => IInv'
<1> SUFFICES ASSUME IInv, [Next]_vars PROVE IInv'
    OBVIOUS
<1>1. CASE Next
  <2>1. TypeOK /\ WrittenOK /\ PrepareOK
    BY DEF IInv
  <2>2. TypeOK'
    BY <1>1, <2>1, TypeStep
  <2>3. WrittenOK' /\ (\A q \in Run : RunOK(q)') /\ RetiredIsOld'
    BY <1>1, WrittenStep, RunStep, RetiredStep
  <2>4. PrepareOK' /\ CleanOK' /\ ReleaseOK'
    BY <1>1, PrepareStep, CleanStep, ReleaseStep
  <2>5. FilesKept'
    BY <1>1, LostStep, ClaimStep, SnapshotStep DEF FilesKept
  <2> QED
    BY <2>2, <2>3, <2>4, <2>5 DEF IInv
<1>2. CASE UNCHANGED vars
    BY <1>2 DEF vars, agentVars, op, IInv, TypeOK, WrittenOK, RunOK, RetiredIsOld, PrepareOK, Fresh,
                Claimed, CleanOK, KeptElsewhere, ReleaseOK, Quiet, Published, FilesKept, NothingLost,
                ClaimedOnce, SnapshotKept
<1> QED
    BY <1>1, <1>2

\* The strengthened invariant holds in every reachable state.
THEOREM ArtifactInvariant == Spec => []IInv
<1> QED
    BY InitOK, InvStep, PTL DEF Spec

\* Type correctness, for any number of runs and versions: while something is
\* checked, erased or put back, it is in the quarantine.
THEOREM ArtifactTypeCorrect == Spec => []TypeOK
<1>1. IInv => TypeOK
    BY DEF IInv
<1> QED
    BY <1>1, ArtifactInvariant, PTL

\* prepare, cleanup and releaseRun keep the promises of the spool, for any number
\* of runs and versions: no output is lost, none is claimed by two runs, and a
\* claim has its snapshot until it is sent.
THEOREM FilesAreKept == Spec => []FilesKept
<1>1. IInv => FilesKept
    BY DEF IInv
<1> QED
    BY <1>1, ArtifactInvariant, PTL

=============================================================================
