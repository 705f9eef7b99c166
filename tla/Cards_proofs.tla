----------------------------- MODULE Cards_proofs -----------------------------
(***************************************************************************)
(* What the cards of a job tell is true, for any number of questions,      *)
(* clicks, presses, turns, failed calls and crashes: the questions of      *)
(* UserInput, the buttons of StopFork, the progress card of ProgressCard,  *)
(* and the three together, as MCCards composes them.                       *)
(***************************************************************************)
EXTENDS MCCards, TLAPS

----------------------------------------------------------------------------
(* The questions of a job: UserInput.                                      *)

\* The executor has expired the question.
Dead(r) == closing["executor"][r].stage # "none"
Asking(r, stages) == asking[r].stage \in stages
Early == {"none", "queued", "superseding"}
Opening == {"storing", "posting", "posted", "rejected", "lost"}
Retired == {"retiring", "marking"}
Underway == {"refusing", "reading", "storing", "patching"}

\* A question that was put to the user, and one that no answer was sent for.
Posed(r) == question = r \/ r \in cancelled
Fresh(r) == r \in cancelled => Dead(r)
\* The end of a turn leaves a question that is posed after it, which nobody can answer.
Stranded(r) == turn = "finished" /\ native[r] # "answered"

\* Questions are handled in the order they come, one after the other: only one is past the queue.
OneAtATime ==
    \A q, r \in Request : q < r =>
        /\ Asking(q, {"none"}) => Asking(r, {"none"})
        /\ ~Asking(r, {"none", "queued"}) => Ended(q)

\* A question is posed once, and left for ever when it expires or is answered.
QuestionOK(r) ==
    /\ Asking(r, {"none"}) <=> native[r] = "none"
    /\ question = r => r \notin cancelled /\ ~Asking(r, Early \cup Retired \cup {"failing"})
    /\ Dead(r) => r \in cancelled /\ ~Asking(r, Early)
    /\ r \in cancelled => Dead(r) \/ Asking(r, {"ended"})
    /\ Asking(r, Early) => r \notin cancelled
    /\ Asking(r, Opening) => question = r \/ Dead(r)
    /\ Asking(r, Retired \cup {"failing"}) => Dead(r)
    /\ Asking(r, {"superseding"}) =>
          question = None /\ asking[r].after \in Request /\ asking[r].after < r
    /\ Asking(r, {"posting", "posted", "rejected", "lost"}) =>
          row.request = r /\ row.card = "intent" /\ (row.status = "pending" \/ Dead(r))
    /\ native[r] = "answered" => r \in cancelled /\ ~Dead(r) /\ Asking(r, {"ended"})
    /\ live[r] # "absent" => Asking(r, {"ended"}) /\ Posed(r)
    /\ closing["shutdown"][r].stage # "none" => ~accepting /\ Asking(r, {"ended"})

\* The row of a question that is gone; one that a click has is confirmed.
RowOK ==
    row.request # None =>
        /\ ~Asking(row.request, Early)
        /\ row.status = "submitted" => native[row.request] = "answered"
        /\ row.status = "pending" => Fresh(row.request)
        /\ row.status = "expired" =>
              Dead(row.request) \/ ~accepting \/ Stranded(row.request)
        /\ row.status = "submitting" => row.card = "confirmed"

Admitted == {"begun", "answering", "finishing"}
Has(k, stages) == click[k].stage \in stages

ClickOK(k) ==
    LET r == click[k].request IN
    /\ ~Has(k, {"idle"}) => r \in Request
    /\ Has(k, {"idle", "checked"}) => ~(row.by = k /\ row.status = "submitting")
    /\ Has(k, Admitted \cup {"doubting"}) => Asking(r, {"ended"}) /\ Posed(r)
    /\ Has(k, {"begun", "answering"}) \/ (Has(k, {"doubting"}) /\ Owns(k, r)) => Fresh(r)
    /\ Has(k, {"finishing"}) /\ click[k].status = "expired" => Dead(r) \/ Stranded(r)
    /\ Has(k, Admitted) /\ row.request = r => row.by = k /\ row.status \in {"submitting", "expired"}
    /\ Has(k, {"finishing"}) /\ click[k].status = "submitted" => native[r] = "answered"

OneAdmitted ==
    \A k, l \in Click :
        Has(k, Admitted) /\ Has(l, Admitted) /\ click[k].request = click[l].request => k = l

AnswerInv ==
    /\ TypeOK /\ OneAtATime /\ RowOK /\ OneAdmitted
    /\ \A r \in Request : QuestionOK(r)
    /\ \A k \in Click : ClickOK(k)

(* Without a fault *)

Confirmed(r) == row.request = r /\ row.card = "confirmed"

\* An expiry of which the question that comes next does not know.
Alone(r) == closing["executor"][r].stage \in Underway /\ native[r] # "resolved"

\* A click will show what it knows on the card.
Clicked(r) ==
    \E k \in Click :
        /\ click[k].request = r
        /\ \/ Has(k, {"finishing"}) /\ click[k].status = "submitted"
              /\ Confirmed(r) /\ row.by = k /\ row.status = "submitting"
           \/ Has(k, {"patching"}) /\ click[k].seen.request = r /\ click[k].seen.card = "confirmed"

\* The form of a card that is on show will be replaced.
Replaced(r) ==
    \/ Asking(r, {"posted"})
    \/ Asking(r, Retired) /\ Confirmed(r)
    \/ question = r
    \/ closing["executor"][r].stage \in {"refusing", "reading", "storing"} /\ Confirmed(r)
    \/ closing["executor"][r].stage = "patching"
          /\ closing["executor"][r].seen.request = r /\ closing["executor"][r].seen.card = "confirmed"
    \/ native[r] = "resolved" /\ row.request # r
    \/ Clicked(r)

\* An open request waits for the user, or for its expiry to refuse it.
Heeded(r) ==
    Open(r) =>
        Asking(r, {"queued", "superseding"}) \/ question = r \/ closing["executor"][r].stage = "refusing"

Covered(r) == card[r] = "form" => Replaced(r)

\* A form is posted by open, which confirms it.
Opened(r) ==
    /\ question = r /\ Asking(r, {"ended"}) => Confirmed(r)
    /\ ~Asking(r, {"rejected", "lost"})
    /\ Asking(r, Early \cup {"storing", "posting"}) => card[r] # "form"
    /\ Asking(r, Opening \cup Retired) => question \in {r, None}

\* The next question is not stored before the expiry of this one has read the row.
Awaited(r) ==
    /\ Alone(r) =>
          \/ Asking(r, {"failing"}) \/ turn # "running"
          \/ \E q \in Request : Asking(q, {"superseding"}) /\ asking[q].after = r
    /\ \A q \in Request :
          /\ Asking(q, {"superseding"}) /\ Alone(r) => asking[q].after = r
          /\ q # r /\ Asking(q, {"storing"}) => ~Alone(r)

FaultlessOK(r) == Heeded(r) /\ Covered(r) /\ Opened(r) /\ Awaited(r)

Calm == accepting /\ \A r \in Request : FaultlessOK(r)
CloseInv == faults = 0 => Calm

QuestionsInv == AnswerInv /\ CloseInv
----------------------------------------------------------------------------
(* Types, and what an action does to each question *)

AskingRecord == [stage : AskingStages, after : Request \cup {None}]
ClosingRecord == [stage : ClosingStages, seen : Row]
ClickRecord == [stage : ClickStages, request : Request \cup {None},
                status : Final \cup {"none"}, seen : Row]

LEMMA Typed ==
    ASSUME TypeOK
    PROVE  /\ native \in [Request -> {"none", "open", "answered", "refused", "resolved", "gone"}]
           /\ asking \in [Request -> AskingRecord]
           /\ closing \in [Callers -> [Request -> ClosingRecord]]
           /\ card \in [Request -> Final \cup {"none", "form"}]
           /\ live \in [Request -> {"absent", "pending", "submitting"}]
           /\ row \in Row /\ cancelled \subseteq Request /\ question \in Request \cup {None}
           /\ click \in [Click -> ClickRecord]
           /\ None \notin Request
    BY RequestAssumption DEF TypeOK, None, AskingRecord, ClosingRecord, ClickRecord

NoExpiry == UNCHANGED <<question, cancelled, closing>>
AskingIs(r, s) ==
    /\ asking' \in [Request -> AskingRecord]
    /\ \A q \in Request : asking'[q].stage = (IF q = r THEN s ELSE asking[q].stage)
    /\ \A q \in Request : asking'[q].after = asking[q].after
ClosingIs(r, c, s) ==
    /\ closing' \in [Callers -> [Request -> ClosingRecord]]
    /\ \A q \in Request, d \in Callers : q # r \/ d # c => closing'[d][q] = closing[d][q]
    /\ closing'[c][r].stage = s
ExpiryIs(r, s) ==
    question' = None /\ cancelled' = cancelled \cup {r} /\ ClosingIs(r, "executor", s)
ClickIs(k, s) ==
    /\ click' \in [Click -> ClickRecord]
    /\ \A l \in Click : l # k => click'[l] = click[l]
    /\ click'[k].stage = s

LEMMA AskingGoesIs ==
    ASSUME TypeOK, NEW r \in Request, NEW s \in AskingStages, AskingGoes(r, s)
    PROVE  AskingIs(r, s)
    BY Typed DEF AskingGoes, AskingIs, AskingRecord

LEMMA NoRowTyped == NoRow \in Row /\ [stage |-> "none", seen |-> NoRow] = NoClosing
    BY DEF NoRow, Row, None, NoClosing

LEMMA ClosingGoesIs ==
    ASSUME TypeOK, NEW r \in Request, NEW c \in Callers, NEW s \in ClosingStages, ClosingGoes(r, c, s)
    PROVE  ClosingIs(r, c, s) /\ closing'[c][r].seen = closing[c][r].seen
<1>1. closing[c] \in [Request -> ClosingRecord] /\ closing[c][r] \in ClosingRecord
    BY Typed
<1>2. [closing[c][r] EXCEPT !.stage = s] = [stage |-> s, seen |-> closing[c][r].seen]
    BY <1>1 DEF ClosingRecord
<1>3. closing' = [closing EXCEPT ![c][r] = [stage |-> s, seen |-> closing[c][r].seen]]
    BY <1>2 DEF ClosingGoes
<1>4. [stage |-> s, seen |-> closing[c][r].seen] \in ClosingRecord
    BY <1>1 DEF ClosingRecord
<1> QED
    BY <1>3, <1>4, Typed DEF ClosingIs

LEMMA ExpiresIs ==
    ASSUME TypeOK, NEW r \in Request, NEW s \in ClosingStages, Expires(r, s)
    PROVE  ExpiryIs(r, s) /\ closing'["executor"][r].seen = NoRow
<1>1. [NoClosing EXCEPT !.stage = s] = [stage |-> s, seen |-> NoRow]
    BY DEF NoClosing
<1>2. closing' = [closing EXCEPT !["executor"][r] = [stage |-> s, seen |-> NoRow]]
    BY <1>1 DEF Expires
<1>3. [stage |-> s, seen |-> NoRow] \in ClosingRecord
    BY NoRowTyped DEF ClosingRecord
<1>4. ClosingIs(r, "executor", s) /\ closing'["executor"][r].seen = NoRow
    BY <1>2, <1>3, Typed DEF ClosingIs, Callers
<1> QED
    BY <1>4 DEF Expires, ExpiryIs

LEMMA ClickGoesIs ==
    ASSUME TypeOK, NEW k \in Click, NEW s \in ClickStages, ClickGoes(k, s)
    PROVE  /\ ClickIs(k, s) /\ click'[k].request = click[k].request
           /\ click'[k].status = click[k].status /\ click'[k].seen = click[k].seen
    BY Typed DEF ClickGoes, ClickIs, ClickRecord

LEMMA RowsTyped ==
    ASSUME TypeOK, NEW r \in Request, NEW k \in Click, NEW s \in Final, NEW m \in {"confirmed", "failed", "unknown"}
    PROVE  /\ Begun(r) \in Row /\ CardFinished(r, m) \in Row /\ AnswerBegun(r, k) \in Row
           /\ AnswerFinished(r, k, s) \in Row /\ Expired(r) \in Row /\ Doubted(r, k) \in Row
    BY Typed DEF Begun, CardFinished, AnswerBegun, AnswerFinished, Expired, Doubted, Row, Final,
       None

LEMMA FaultTyped == ASSUME TypeOK, Fault PROVE faults' \in 0..MaxFaults /\ faults' > 0
    BY FaultAssumption DEF TypeOK, Fault

LEMMA AskFailsIs ==
    ASSUME TypeOK, NEW r \in Request, AskFails(r)
    PROVE  \/ question = r /\ ExpiryIs(r, "refusing") /\ AskingIs(r, "failing")
           \/ question # r /\ NoExpiry /\ AskingIs(r, "ended")
    BY ExpiresIs, AskingGoesIs DEF AskFails, NoExpiry, ClosingStages, AskingStages

LEMMA PosesIs ==
    ASSUME TypeOK, NEW r \in Request, Poses(r)
    PROVE  \/ accepting /\ question' = r /\ AskingIs(r, "storing") /\ UNCHANGED <<cancelled, closing>>
           \/ ~accepting /\ ExpiryIs(r, "refusing") /\ AskingIs(r, "failing")
    BY ExpiresIs, AskingGoesIs DEF Poses, ClosingStages, AskingStages
----------------------------------------------------------------------------
(* What no step takes back *)

Onward ==
    /\ ~accepting => ~accepting'
    /\ \A q \in Request :
          /\ Dead(q) => Dead(q)'
          /\ Posed(q) => Posed(q)'
          /\ Asking(q, {"ended"}) => Asking(q, {"ended"})'
          /\ ~Asking(q, Early) => ~Asking(q, Early)'
          /\ native[q] = "answered" => native'[q] = "answered"
          /\ Stranded(q) => Stranded(q)'
          /\ Fresh(q) => Fresh(q)'

LEMMA RowAndClicksKeep ==
    ASSUME AnswerInv, TypeOK', OneAtATime', \A q \in Request : QuestionOK(q)', Onward,
           UNCHANGED <<row, click>>
    PROVE  AnswerInv'
<1>1. RowOK'
  <2> SUFFICES ASSUME row.request # None PROVE RowOK'
      BY DEF RowOK
  <2>1. row.request \in Request
      BY Typed DEF AnswerInv, Row
  <2> QED
      BY <2>1 DEF AnswerInv, RowOK, Onward, Dead, Asking, Fresh, Stranded
<1>2. ASSUME NEW k \in Click PROVE ClickOK(k)'
  <2>1. ~Has(k, {"idle"}) => click[k].request \in Request
      BY DEF AnswerInv, ClickOK
  <2>2. ClickOK(k)
      BY DEF AnswerInv
  <2>3. CASE Has(k, {"idle"})
      BY <2>2, <2>3 DEF ClickOK, Has, Admitted
  <2>4. CASE ~Has(k, {"idle"})
      BY <2>1, <2>2, <2>4 DEF ClickOK, Onward, Has, Owns, Admitted
  <2> QED
      BY <2>3, <2>4
<1>3. OneAdmitted'
    BY DEF AnswerInv, OneAdmitted, Has
<1> QED
    BY <1>1, <1>2, <1>3 DEF AnswerInv

LEMMA AskKeeps ==
    ASSUME AnswerInv, NEW r \in Request, Ask(r)
    PROVE  AnswerInv'
<1>1. AskingIs(r, "queued")
    BY AskingGoesIs DEF AnswerInv, Ask, AskingStages
<1>2. TypeOK'
    BY <1>1, Typed DEF AnswerInv, Ask, TypeOK, AskingIs, AskingRecord, executorVars, runtimeVars
<1>3. Asking(r, {"none"})
    BY DEF AnswerInv, QuestionOK, Ask
<1>4. OneAtATime'
    BY <1>1, <1>3, RequestAssumption DEF AnswerInv, OneAtATime, QuestionOK, Ask, AskingIs, Ended,
       Asking, runtimeVars
<1>5. ASSUME NEW q \in Request PROVE QuestionOK(q)'
    BY <1>1, <1>3, Typed DEF AnswerInv, QuestionOK, Ask, AskingIs, Asking, Dead, Posed, Early,
       Opening, Retired, executorVars, runtimeVars
<1>6. Onward
    BY <1>1, <1>3, Typed DEF AnswerInv, Onward, QuestionOK, Ask, AskingIs, Asking, Dead, Posed,
       Early, Fresh, Stranded, executorVars, runtimeVars
<1> QED
    BY <1>2, <1>4, <1>5, <1>6, RowAndClicksKeep DEF Ask

LEMMA OrderKept ==
    ASSUME OneAtATime, UNCHANGED asking,
           \A q \in Request : closing["executor"][q].stage = "done" /\ Asking(q, {"failing"})
               => closing'["executor"][q].stage = "done"
    PROVE  OneAtATime'
    BY DEF OneAtATime, Asking, Ended

LEMMA ClosingBecomes ==
    ASSUME TypeOK, NEW r \in Request, NEW c \in Callers, NEW s \in ClosingStages, NEW m \in Row,
           closing' = [closing EXCEPT ![c][r] = [stage |-> s, seen |-> m]]
    PROVE  ClosingIs(r, c, s) /\ closing'[c][r].seen = m
<1>1. [stage |-> s, seen |-> m] \in ClosingRecord
    BY DEF ClosingRecord
<1> QED
    BY <1>1, Typed DEF ClosingIs

LEMMA Enters ==
    ASSUME AnswerInv, NEW r \in Request, Asking(r, {"queued"}), \A q \in Request : q < r => Ended(q),
           \A q \in Request : Ended(q) => Ended(q)',
           \A q \in Request : q # r => asking'[q].stage = asking[q].stage,
           asking'[r].stage # "none"
    PROVE  OneAtATime'
<1>1. \A q \in Request : r < q => Asking(q, {"none", "queued"})
    BY RequestAssumption DEF AnswerInv, OneAtATime, Ended, Asking
<1> QED
    BY <1>1, RequestAssumption DEF AnswerInv, OneAtATime, Asking

LEMMA StartKeeps ==
    ASSUME AnswerInv, NEW r \in Request, Start(r)
    PROVE  AnswerInv'
<1>1. Asking(r, {"queued"}) /\ r \notin cancelled /\ question # r
    BY DEF AnswerInv, Start, QuestionOK, Asking, Early
<1>2. \A q \in Request : q < r => Ended(q)
    BY DEF Start
<1>3. CASE Turned(r) /\ native' = Refused(r) /\ AskingGoes(r, "ended") /\ UNCHANGED <<question, cancelled, closing>>
  <2>1. AskingIs(r, "ended")
      BY <1>3, AskingGoesIs DEF AnswerInv, AskingStages
  <2>2. TypeOK'
      BY <1>3, <2>1, Typed DEF AnswerInv, Start, AskingIs, AskingRecord, TypeOK, Refused, Open
  <2>3. OneAtATime'
      BY <1>1, <1>2, <1>3, <2>1, Enters DEF AskingIs, Ended
  <2>4. ASSUME NEW q \in Request PROVE QuestionOK(q)'
      BY <1>1, <1>3, <2>1, Typed DEF AnswerInv, Start, AskingIs, QuestionOK, Asking, Dead, Posed,
         Early, Opening, Retired, Refused, Open
  <2>5. Onward
      BY <1>1, <1>3, <2>1, Typed DEF AnswerInv, Start, AskingIs, Onward, Asking, Dead, Posed, Early,
         Fresh, Stranded, Refused, Open
  <2> QED
      BY <2>2, <2>3, <2>4, <2>5, RowAndClicksKeep DEF Start
<1>4. CASE question = None /\ Poses(r) /\ UNCHANGED native
  <2>1. \/ accepting /\ question' = r /\ AskingIs(r, "storing") /\ UNCHANGED <<cancelled, closing>>
        \/ ~accepting /\ ExpiryIs(r, "refusing") /\ AskingIs(r, "failing")
      BY <1>4, PosesIs DEF AnswerInv
  <2>2. TypeOK'
      BY <1>4, <2>1, Typed DEF AnswerInv, Start, AskingIs, TypeOK, AskingRecord, ExpiryIs,
         ClosingIs, ClosingRecord
  <2>3. ~Dead(r)
      BY <1>1 DEF AnswerInv, QuestionOK
  <2>4. OneAtATime'
      BY <1>1, <1>2, <2>1, <2>3, Enters DEF AskingIs, Ended, Dead, ExpiryIs, ClosingIs, Callers,
         Asking
  <2>5. ASSUME NEW q \in Request PROVE QuestionOK(q)'
    <3>1. CASE accepting /\ question' = r /\ AskingIs(r, "storing") /\ UNCHANGED <<cancelled, closing>>
      <4>1. UNCHANGED <<native, row, live, accepting>>
          BY <1>4 DEF Start
      <4>2. QuestionOK(q) /\ q # question
          BY <1>4, Typed DEF AnswerInv
      <4>3. CASE q = r
          BY <1>1, <3>1, <4>1, <4>2, <4>3 DEF AskingIs, QuestionOK, Asking, Dead, Early, Opening,
             Retired
      <4>4. CASE q # r
        <5>1. ~Asking(q, {"superseding"})
            BY <1>1, <1>2, <4>4, RequestAssumption DEF AnswerInv, OneAtATime, Ended, Asking
        <5> QED
            BY <3>1, <4>1, <4>2, <4>4, <5>1 DEF AskingIs, QuestionOK, Asking, Dead, Posed, Early,
               Opening, Retired
      <4> QED
          BY <4>3, <4>4
    <3>2. CASE ~accepting /\ ExpiryIs(r, "refusing") /\ AskingIs(r, "failing")
        BY <1>1, <1>4, <3>2, Typed DEF AnswerInv, Start, AskingIs, QuestionOK, Asking, Dead, Posed,
           Early, Opening, Retired, ExpiryIs, ClosingIs, Callers
    <3> QED
        BY <2>1, <3>1, <3>2
  <2>6. Onward
      BY <1>1, <1>4, <2>1, Typed DEF AnswerInv, Start, AskingIs, Onward, Asking, Dead, Posed, Early,
         Fresh, Stranded, ExpiryIs, ClosingIs, Callers
  <2> QED
      BY <2>2, <2>4, <2>5, <2>6, RowAndClicksKeep DEF Start
<1>5. CASE /\ question # None /\ Expires(question, "refusing") /\ UNCHANGED native
           /\ asking' = [asking EXCEPT ![r] = [stage |-> "superseding", after |-> question]]
  <2>1. PICK p \in Request : p = question
      BY <1>5, Typed DEF AnswerInv
  <2>2. ExpiryIs(p, "refusing")
      BY <1>5, <2>1, ExpiresIs DEF AnswerInv, ClosingStages
  <2>3. /\ asking' \in [Request -> AskingRecord]
        /\ \A q \in Request : q # r => asking'[q] = asking[q]
        /\ asking'[r].stage = "superseding" /\ asking'[r].after = p
      BY <1>5, <2>1, Typed DEF AnswerInv, AskingRecord, AskingStages
  <2>4. TypeOK'
      BY <1>5, <2>2, <2>3, Typed DEF AnswerInv, Start, AskingRecord, TypeOK, ExpiryIs, ClosingIs,
         ClosingRecord
  <2>5. p \notin cancelled /\ ~Asking(p, Early \cup {"failing"})
      BY <2>1 DEF AnswerInv, QuestionOK, Asking
  <2>6. OneAtATime'
      BY <1>1, <1>2, <2>2, <2>3, <2>5, Enters DEF Asking, Ended, ExpiryIs, ClosingIs, Callers
  <2>7. p < r
    <3>1. ~(r < p)
        BY <1>1, <2>5 DEF AnswerInv, OneAtATime, Asking, Ended, Early
    <3> QED
        BY <1>1, <2>1, <3>1, RequestAssumption
  <2>8. ASSUME NEW q \in Request PROVE QuestionOK(q)'
      BY <1>1, <1>5, <2>1, <2>2, <2>3, <2>5, <2>7, Typed DEF AnswerInv, Start, QuestionOK, Asking,
         Dead, Posed, Early, Opening, Retired, ExpiryIs, ClosingIs, Callers
  <2>9. Onward
      BY <1>1, <1>5, <2>1, <2>2, <2>3, Typed DEF AnswerInv, Start, Onward, Asking, Dead, Posed,
         Early, Fresh, Stranded, ExpiryIs, ClosingIs, Callers
  <2> QED
      BY <2>4, <2>6, <2>8, <2>9, RowAndClicksKeep DEF Start
<1> QED
    BY <1>3, <1>4, <1>5 DEF Start

LEMMA SupersededKeeps ==
    ASSUME AnswerInv, NEW r \in Request, Superseded(r)
    PROVE  AnswerInv'
<1>1. Asking(r, {"superseding"}) /\ r \notin cancelled /\ question = None
    BY DEF AnswerInv, Superseded, QuestionOK, Asking, Early
<1>2. \/ AskingIs(r, "ended") /\ NoExpiry
      \/ accepting /\ question' = r /\ AskingIs(r, "storing") /\ UNCHANGED <<cancelled, closing>>
      \/ ~accepting /\ ExpiryIs(r, "refusing") /\ AskingIs(r, "failing")
    BY AskingGoesIs, PosesIs DEF AnswerInv, Superseded, AskingStages, NoExpiry
<1>3. TypeOK'
    BY <1>1, <1>2, Typed DEF AnswerInv, Superseded, AskingIs, AskingRecord, ExpiryIs, ClosingIs,
       ClosingRecord, NoExpiry, Callers, TypeOK
<1>4. OneAtATime'
    BY <1>1, <1>2, Typed, RequestAssumption DEF AnswerInv, Superseded, AskingIs, AskingRecord,
       ExpiryIs, ClosingIs, ClosingRecord, NoExpiry, Callers, OneAtATime, QuestionOK, Ended, Asking,
       Early, Opening, Retired, Dead
<1>5. ASSUME NEW q \in Request PROVE QuestionOK(q)'
  <2>1. CASE AskingIs(r, "ended") /\ NoExpiry
      BY <2>1, <1>1, <1>2, Typed, RequestAssumption DEF AnswerInv, Superseded, AskingIs,
         AskingRecord, ExpiryIs, ClosingIs, ClosingRecord, NoExpiry, Callers, OneAtATime, Ended,
         QuestionOK, Asking, Dead, Posed, Early, Opening, Retired
  <2>2. CASE accepting /\ question' = r /\ AskingIs(r, "storing") /\ UNCHANGED <<cancelled, closing>>
      BY <2>2, <1>1, <1>2, Typed, RequestAssumption DEF AnswerInv, Superseded, AskingIs,
         AskingRecord, ExpiryIs, ClosingIs, ClosingRecord, NoExpiry, Callers, OneAtATime, Ended,
         QuestionOK, Asking, Dead, Posed, Early, Opening, Retired
  <2>3. CASE ~accepting /\ ExpiryIs(r, "refusing") /\ AskingIs(r, "failing")
      BY <2>3, <1>1, <1>2, Typed, RequestAssumption DEF AnswerInv, Superseded, AskingIs,
         AskingRecord, ExpiryIs, ClosingIs, ClosingRecord, NoExpiry, Callers, OneAtATime, Ended,
         QuestionOK, Asking, Dead, Posed, Early, Opening, Retired
  <2> QED
      BY <2>1, <2>2, <2>3, <1>2
<1>6. Onward
    BY <1>1, <1>2, Typed DEF AnswerInv, Superseded, AskingIs, AskingRecord, ExpiryIs, ClosingIs,
       ClosingRecord, NoExpiry, Callers, Onward, QuestionOK, Asking, Dead, Posed, Early, Opening,
       Retired, Fresh, Stranded
<1> QED
    BY <1>3, <1>4, <1>5, <1>6, RowAndClicksKeep DEF Superseded

LEMMA NativeResolvesKeeps ==
    ASSUME AnswerInv, NEW r \in Request, NativeResolves(r)
    PROVE  AnswerInv'
<1>1. \/ question = r /\ ExpiryIs(r, "reading")
      \/ question # r /\ NoExpiry
    BY ExpiresIs DEF AnswerInv, NativeResolves, ClosingStages, NoExpiry
<1>2. TypeOK'
    BY <1>1, Typed DEF AnswerInv, NativeResolves, Open, Registered, ExpiryIs, ClosingIs,
       ClosingRecord, NoExpiry, Callers, TypeOK
<1>3. OneAtATime'
    BY <1>1, OrderKept, Typed DEF AnswerInv, NativeResolves, Open, Registered, ExpiryIs, ClosingIs,
       ClosingRecord, NoExpiry, Callers, QuestionOK, Asking
<1>4. ASSUME NEW q \in Request PROVE QuestionOK(q)'
    BY <1>1, Typed, RequestAssumption DEF AnswerInv, NativeResolves, Open, Registered, ExpiryIs,
       ClosingIs, ClosingRecord, NoExpiry, Callers, OneAtATime, Ended, QuestionOK, Asking, Dead,
       Posed, Early, Opening, Retired
<1>5. Onward
    BY <1>1, Typed DEF AnswerInv, NativeResolves, Open, Registered, ExpiryIs, ClosingIs,
       ClosingRecord, NoExpiry, Callers, Onward, QuestionOK, Asking, Dead, Posed, Early, Opening,
       Retired, Fresh, Stranded
<1> QED
    BY <1>2, <1>3, <1>4, <1>5, RowAndClicksKeep DEF NativeResolves

LEMMA TurnSettlesKeeps ==
    ASSUME AnswerInv, TurnSettles
    PROVE  AnswerInv'
<1>1. TypeOK'
    BY AnswerInv, Typed DEF AnswerInv, TurnSettles, runtimeVars, TypeOK
<1>2. OneAtATime'
    BY AnswerInv, Typed, RequestAssumption DEF AnswerInv, TurnSettles, runtimeVars, OneAtATime,
       QuestionOK, Ended, Asking, Early, Opening, Retired, Dead
<1>3. ASSUME NEW q \in Request PROVE QuestionOK(q)'
    BY AnswerInv, Typed, RequestAssumption DEF AnswerInv, TurnSettles, runtimeVars, OneAtATime,
       Ended, QuestionOK, Asking, Dead, Posed, Early, Opening, Retired
<1>4. Onward
    BY AnswerInv, Typed DEF AnswerInv, TurnSettles, runtimeVars, Onward, QuestionOK, Asking, Dead,
       Posed, Early, Opening, Retired, Fresh, Stranded
<1> QED
    BY <1>1, <1>2, <1>3, <1>4, RowAndClicksKeep DEF TurnSettles

LEMMA TurnFinishesKeeps ==
    ASSUME AnswerInv, TurnFinishes
    PROVE  AnswerInv'
<1>1. \/ question \in Request /\ ExpiryIs(question, "refusing")
      \/ question = None /\ NoExpiry
    BY ExpiresIs, Typed DEF AnswerInv, TurnFinishes, ExpiresAny, ClosingStages, NoExpiry
<1>2. TypeOK'
    BY <1>1, Typed DEF AnswerInv, TurnFinishes, ExpiryIs, ClosingIs, ClosingRecord, NoExpiry,
       Callers, TypeOK
<1>3. OneAtATime'
    BY <1>1, Typed, RequestAssumption DEF AnswerInv, TurnFinishes, ExpiryIs, ClosingIs,
       ClosingRecord, NoExpiry, Callers, OneAtATime, QuestionOK, Ended, Asking, Early, Opening,
       Retired, Dead
<1>4. ASSUME NEW q \in Request PROVE QuestionOK(q)'
    BY <1>1, Typed, RequestAssumption DEF AnswerInv, TurnFinishes, ExpiryIs, ClosingIs,
       ClosingRecord, NoExpiry, Callers, OneAtATime, Ended, QuestionOK, Asking, Dead, Posed, Early,
       Opening, Retired
<1>5. Onward
    BY <1>1, Typed DEF AnswerInv, TurnFinishes, ExpiryIs, ClosingIs, ClosingRecord, NoExpiry,
       Callers, Onward, QuestionOK, Asking, Dead, Posed, Early, Opening, Retired, Fresh, Stranded
<1> QED
    BY <1>2, <1>3, <1>4, <1>5, RowAndClicksKeep DEF TurnFinishes

LEMMA DisconnectKeeps ==
    ASSUME AnswerInv, Disconnect
    PROVE  AnswerInv'
<1>1. \/ question \in Request /\ ExpiryIs(question, "reading")
      \/ question = None /\ NoExpiry
    BY ExpiresIs, Typed DEF AnswerInv, Disconnect, ExpiresAny, ClosingStages, NoExpiry
<1>2. faults' \in 0..MaxFaults
    BY FaultTyped DEF AnswerInv, Disconnect
<1>3. TypeOK'
    BY <1>1, <1>2, Typed DEF AnswerInv, Disconnect, Open, Registered, ExpiryIs, ClosingIs,
       ClosingRecord, NoExpiry, Callers, TypeOK
<1>4. OneAtATime'
    BY <1>1, <1>2, Typed, RequestAssumption DEF AnswerInv, Disconnect, Open, Registered, ExpiryIs,
       ClosingIs, ClosingRecord, NoExpiry, Callers, OneAtATime, QuestionOK, Ended, Asking, Early,
       Opening, Retired, Dead
<1>5. ASSUME NEW q \in Request PROVE QuestionOK(q)'
    BY <1>1, <1>2, Typed, RequestAssumption DEF AnswerInv, Disconnect, Open, Registered, ExpiryIs,
       ClosingIs, ClosingRecord, NoExpiry, Callers, OneAtATime, Ended, QuestionOK, Asking, Dead,
       Posed, Early, Opening, Retired
<1>6. Onward
    BY <1>1, <1>2, Typed DEF AnswerInv, Disconnect, Open, Registered, ExpiryIs, ClosingIs,
       ClosingRecord, NoExpiry, Callers, Onward, QuestionOK, Asking, Dead, Posed, Early, Opening,
       Retired, Fresh, Stranded
<1> QED
    BY <1>3, <1>4, <1>5, <1>6, RowAndClicksKeep DEF Disconnect

LEMMA JobEndsKeeps ==
    ASSUME AnswerInv, JobEnds
    PROVE  AnswerInv'
<1>1. TypeOK'
    BY AnswerInv, Typed DEF AnswerInv, JobEnds, executorVars, runtimeVars, TypeOK
<1>2. OneAtATime'
    BY AnswerInv, Typed, RequestAssumption DEF AnswerInv, JobEnds, executorVars, runtimeVars,
       OneAtATime, QuestionOK, Ended, Asking, Early, Opening, Retired, Dead
<1>3. ASSUME NEW q \in Request PROVE QuestionOK(q)'
    BY AnswerInv, Typed, RequestAssumption DEF AnswerInv, JobEnds, executorVars, runtimeVars,
       OneAtATime, Ended, QuestionOK, Asking, Dead, Posed, Early, Opening, Retired
<1>4. Onward
    BY AnswerInv, Typed DEF AnswerInv, JobEnds, executorVars, runtimeVars, Onward, QuestionOK,
       Asking, Dead, Posed, Early, Opening, Retired, Fresh, Stranded
<1> QED
    BY <1>1, <1>2, <1>3, <1>4, RowAndClicksKeep DEF JobEnds

LEMMA PatchExecutionKeeps ==
    ASSUME AnswerInv, PatchExecution
    PROVE  AnswerInv'
<1>1. /\ UNCHANGED <<turn, job, native, question, asking, cancelled, closing, row, card>>
      /\ UNCHANGED <<live, accepting, click, faults>>
      /\ named' \in BOOLEAN
    BY DEF PatchExecution, executorVars, runtimeVars
<1>2. TypeOK'
    BY <1>1 DEF AnswerInv, TypeOK
<1>3. OneAtATime'
    BY <1>1, OrderKept DEF AnswerInv
<1>4. ASSUME NEW q \in Request PROVE QuestionOK(q)'
    BY <1>1 DEF AnswerInv, QuestionOK, Asking, Dead, Posed
<1>5. Onward
    BY <1>1 DEF Onward, Asking, Dead, Posed, Fresh, Stranded
<1> QED
    BY <1>1, <1>2, <1>3, <1>4, <1>5, RowAndClicksKeep

LEMMA PostKeeps ==
    ASSUME AnswerInv, NEW r \in Request, Post(r)
    PROVE  AnswerInv'
<1>1. \E s \in {"posted", "rejected", "lost"} : AskingIs(r, s)
    BY AskingGoesIs DEF AnswerInv, Post, AskingStages
<1>2. faults' \in 0..MaxFaults
    BY FaultTyped DEF AnswerInv, Post, TypeOK
<1>3. card' \in [Request -> Final \cup {"none", "form"}]
    BY Typed DEF AnswerInv, Post
<1>4. TypeOK'
    BY <1>1, <1>2, <1>3, Typed DEF AnswerInv, Post, AskingIs, AskingRecord, executorVars,
       runtimeVars, TypeOK
<1>5. OneAtATime'
    BY <1>1, <1>2, <1>3, Typed, RequestAssumption DEF AnswerInv, Post, AskingIs, AskingRecord,
       executorVars, runtimeVars, OneAtATime, QuestionOK, Ended, Asking, Early, Opening, Retired,
       Dead
<1>6. ASSUME NEW q \in Request PROVE QuestionOK(q)'
    BY <1>1, <1>2, <1>3, Typed, RequestAssumption DEF AnswerInv, Post, AskingIs, AskingRecord,
       executorVars, runtimeVars, OneAtATime, Ended, QuestionOK, Asking, Dead, Posed, Early,
       Opening, Retired
<1>7. Onward
  <2>1. UNCHANGED <<turn, native, question, cancelled, closing, live, accepting>>
      BY DEF Post, executorVars, runtimeVars
  <2>2. Asking(r, {"posting"})
      BY DEF Post, Asking
  <2> QED
      BY <1>1, <2>1, <2>2 DEF Onward, AskingIs, Asking, Dead, Posed, Early, Fresh, Stranded
<1> QED
    BY <1>4, <1>5, <1>6, <1>7, RowAndClicksKeep DEF Post

LEMMA MarkKeeps ==
    ASSUME AnswerInv, NEW r \in Request, Mark(r)
    PROVE  AnswerInv'
<1>1. \/ question = r /\ ExpiryIs(r, "refusing") /\ AskingIs(r, "failing")
      \/ question # r /\ NoExpiry /\ AskingIs(r, "ended")
    BY AskFailsIs DEF AnswerInv, Mark
<1>2. faults' \in 0..MaxFaults /\ card' \in [Request -> Final \cup {"none", "form"}]
    BY FaultTyped, Typed DEF AnswerInv, Mark, TypeOK, Patches, Patched, Final
<1>3. TypeOK'
    BY <1>1, <1>2, Typed DEF AnswerInv, Mark, AskingIs, AskingRecord, ExpiryIs, ClosingIs,
       ClosingRecord, NoExpiry, Callers, TypeOK
<1>4. OneAtATime'
    BY <1>1, <1>2, Typed, RequestAssumption DEF AnswerInv, Mark, AskingIs, AskingRecord, ExpiryIs,
       ClosingIs, ClosingRecord, NoExpiry, Callers, OneAtATime, QuestionOK, Ended, Asking, Early,
       Opening, Retired, Dead
<1>5. ASSUME NEW q \in Request PROVE QuestionOK(q)'
    BY <1>1, <1>2, Typed, RequestAssumption DEF AnswerInv, Mark, AskingIs, AskingRecord, ExpiryIs,
       ClosingIs, ClosingRecord, NoExpiry, Callers, OneAtATime, Ended, QuestionOK, Asking, Dead,
       Posed, Early, Opening, Retired
<1>6. Onward
    BY <1>1, <1>2, Typed DEF AnswerInv, Mark, AskingIs, AskingRecord, ExpiryIs, ClosingIs,
       ClosingRecord, NoExpiry, Callers, Onward, QuestionOK, Asking, Dead, Posed, Early, Opening,
       Retired, Fresh, Stranded
<1> QED
    BY <1>3, <1>4, <1>5, <1>6, RowAndClicksKeep DEF Mark

LEMMA RefuseKeeps ==
    ASSUME AnswerInv, NEW r \in Request, Refuse(r)
    PROVE  AnswerInv'
<1>1. ClosingIs(r, "executor", "reading")
    BY ClosingGoesIs DEF AnswerInv, Refuse, Callers, ClosingStages
<1>2. TypeOK'
    BY <1>1, Typed DEF AnswerInv, Refuse, Refused, Open, ClosingIs, ClosingRecord, executorVars,
       Callers, TypeOK
<1>3. OneAtATime'
    BY <1>1, OrderKept, Typed DEF AnswerInv, Refuse, Refused, Open, ClosingIs, ClosingRecord,
       executorVars, Callers, QuestionOK, Asking
<1>4. ASSUME NEW q \in Request PROVE QuestionOK(q)'
    BY <1>1, Typed, RequestAssumption DEF AnswerInv, Refuse, Refused, Open, ClosingIs,
       ClosingRecord, executorVars, Callers, OneAtATime, Ended, QuestionOK, Asking, Dead, Posed,
       Early, Opening, Retired
<1>5. Onward
    BY <1>1, Typed DEF AnswerInv, Refuse, Refused, Open, ClosingIs, ClosingRecord, executorVars,
       Callers, Onward, QuestionOK, Asking, Dead, Posed, Early, Opening, Retired, Fresh, Stranded
<1> QED
    BY <1>2, <1>3, <1>4, <1>5, RowAndClicksKeep DEF Refuse

LEMMA CloseReadsKeeps ==
    ASSUME AnswerInv, NEW r \in Request, NEW c \in Callers, CloseReads(r, c)
    PROVE  AnswerInv'
<1>1. \E s \in {"storing", "done"} : ClosingIs(r, c, s)
    BY ClosingGoesIs, ClosingBecomes, Typed DEF AnswerInv, CloseReads, ClosingRecord, ClosingStages
<1>2. faults' \in 0..MaxFaults
    BY FaultTyped DEF AnswerInv, CloseReads, TypeOK
<1>3. TypeOK'
    BY <1>1, <1>2, Typed DEF AnswerInv, CloseReads, ClosingIs, ClosingRecord, executorVars, Callers,
       TypeOK
<1>4. OneAtATime'
    BY <1>1, <1>2, OrderKept, Typed DEF AnswerInv, CloseReads, ClosingIs, ClosingRecord,
       executorVars, Callers, QuestionOK, Asking
<1>5. ASSUME NEW q \in Request PROVE QuestionOK(q)'
    BY <1>1, <1>2, Typed, RequestAssumption DEF AnswerInv, CloseReads, ClosingIs, ClosingRecord,
       executorVars, Callers, OneAtATime, Ended, QuestionOK, Asking, Dead, Posed, Early, Opening,
       Retired
<1>6. Onward
    BY <1>1, <1>2, Typed DEF AnswerInv, CloseReads, ClosingIs, ClosingRecord, executorVars, Callers,
       Onward, QuestionOK, Asking, Dead, Posed, Early, Opening, Retired, Fresh, Stranded
<1> QED
    BY <1>3, <1>4, <1>5, <1>6, RowAndClicksKeep DEF CloseReads

LEMMA ClosePatchesKeeps ==
    ASSUME AnswerInv, NEW r \in Request, NEW c \in Callers, ClosePatches(r, c)
    PROVE  AnswerInv'
<1>1. ClosingIs(r, c, "done")
    BY ClosingGoesIs DEF AnswerInv, ClosePatches, ClosingStages
<1>2. faults' \in 0..MaxFaults /\ card' \in [Request -> Final \cup {"none", "form"}]
    BY FaultTyped, Typed DEF AnswerInv, ClosePatches, TypeOK, Patches, Patched, Final
<1>3. TypeOK'
    BY <1>1, <1>2, Typed DEF AnswerInv, ClosePatches, ClosingIs, ClosingRecord, executorVars,
       Callers, TypeOK
<1>4. OneAtATime'
    BY <1>1, <1>2, OrderKept, Typed DEF AnswerInv, ClosePatches, ClosingIs, ClosingRecord,
       executorVars, Callers, QuestionOK, Asking
<1>5. ASSUME NEW q \in Request PROVE QuestionOK(q)'
  <2>1. closing[c][r].stage # "none" /\ QuestionOK(q)
      BY DEF AnswerInv, ClosePatches
  <2>2. UNCHANGED <<native, asking, row, live, accepting, question, cancelled>>
      BY DEF ClosePatches, executorVars
  <2> QED
      BY <1>1, <2>1, <2>2 DEF ClosingIs, Callers, QuestionOK, Asking, Dead, Posed
<1>6. Onward
    BY <1>1, <1>2, Typed DEF AnswerInv, ClosePatches, ClosingIs, ClosingRecord, executorVars,
       Callers, Onward, QuestionOK, Asking, Dead, Posed, Early, Opening, Retired, Fresh, Stranded
<1> QED
    BY <1>3, <1>4, <1>5, <1>6, RowAndClicksKeep DEF ClosePatches

LEMMA ShutdownKeeps ==
    ASSUME AnswerInv, Shutdown
    PROVE  AnswerInv'
<1>1. /\ closing' \in [Callers -> [Request -> ClosingRecord]]
      /\ \A q \in Request : closing'["executor"][q] = closing["executor"][q]
      /\ \A q \in Request : closing'["shutdown"][q].stage # "none" =>
           live[q] = "pending" \/ closing["shutdown"][q].stage # "none"
    BY Typed, NoRowTyped DEF AnswerInv, Shutdown, Callers, NoClosing, ClosingRecord, ClosingStages
<1>2. faults' \in 0..MaxFaults
    BY FaultTyped DEF AnswerInv, Shutdown
<1>3. accepting' \in BOOLEAN
    BY DEF Shutdown
<1>4. TypeOK'
    BY <1>1, <1>2, <1>3, Typed DEF AnswerInv, Shutdown, executorVars, ClosingRecord, TypeOK
<1>5. OneAtATime'
    BY <1>1, <1>2, <1>3, Typed, RequestAssumption DEF AnswerInv, Shutdown, executorVars,
       ClosingRecord, OneAtATime, QuestionOK, Ended, Asking, Early, Opening, Retired, Dead
<1>6. ASSUME NEW q \in Request PROVE QuestionOK(q)'
    BY <1>1, <1>2, <1>3, Typed, RequestAssumption DEF AnswerInv, Shutdown, executorVars,
       ClosingRecord, OneAtATime, Ended, QuestionOK, Asking, Dead, Posed, Early, Opening, Retired
<1>7. Onward
    BY <1>1, <1>2, <1>3, Typed DEF AnswerInv, Shutdown, executorVars, ClosingRecord, Onward,
       QuestionOK, Asking, Dead, Posed, Early, Opening, Retired, Fresh, Stranded
<1> QED
    BY <1>4, <1>5, <1>6, <1>7, RowAndClicksKeep DEF Shutdown

LEMMA ExecutorClosesKeeps ==
    ASSUME AnswerInv, ExecutorCloses
    PROVE  AnswerInv'
<1>1. question \in Request /\ ExpiryIs(question, "reading")
    BY ExpiresIs, Typed DEF AnswerInv, ExecutorCloses, ClosingStages
<1>2. TypeOK'
    BY <1>1, Typed DEF AnswerInv, ExecutorCloses, Open, Registered, ExpiryIs, ClosingIs,
       ClosingRecord, NoExpiry, Callers, TypeOK
<1>3. OneAtATime'
    BY <1>1, Typed, RequestAssumption DEF AnswerInv, ExecutorCloses, Open, Registered, ExpiryIs,
       ClosingIs, ClosingRecord, NoExpiry, Callers, OneAtATime, QuestionOK, Ended, Asking, Early,
       Opening, Retired, Dead
<1>4. ASSUME NEW q \in Request PROVE QuestionOK(q)'
    BY <1>1, Typed, RequestAssumption DEF AnswerInv, ExecutorCloses, Open, Registered, ExpiryIs,
       ClosingIs, ClosingRecord, NoExpiry, Callers, OneAtATime, Ended, QuestionOK, Asking, Dead,
       Posed, Early, Opening, Retired
<1>5. Onward
    BY <1>1, Typed DEF AnswerInv, ExecutorCloses, Open, Registered, ExpiryIs, ClosingIs,
       ClosingRecord, NoExpiry, Callers, Onward, QuestionOK, Asking, Dead, Posed, Early, Opening,
       Retired, Fresh, Stranded
<1> QED
    BY <1>2, <1>3, <1>4, <1>5, RowAndClicksKeep DEF ExecutorCloses

----------------------------------------------------------------------------
(* The steps that write the row *)

\* The row keeps its question and its submitter, or takes a question that no click has yet.
RowStep ==
    \/ /\ row'.request = row.request /\ row'.by = row.by
       /\ row'.status \in {row.status, "expired"}
    \/ /\ row'.request \in Request /\ ~Asking(row'.request, {"ended"})
       /\ row'.status = "pending"

LEMMA RowStepsKeep ==
    ASSUME AnswerInv, TypeOK', OneAtATime', \A q \in Request : QuestionOK(q)', Onward, RowOK',
           RowStep, UNCHANGED click
    PROVE  AnswerInv'
<1>1. ASSUME NEW k \in Click PROVE ClickOK(k)'
  <2>1. ~Has(k, {"idle"}) => click[k].request \in Request
      BY DEF AnswerInv, ClickOK
  <2>2. ClickOK(k)
      BY DEF AnswerInv
  <2>3. CASE Has(k, {"idle"})
      BY <2>2, <2>3 DEF ClickOK, Has, Admitted, RowStep
  <2>4. CASE ~Has(k, {"idle"})
    <3>1. CASE row'.request = row.request /\ row'.by = row.by /\ row'.status \in {row.status, "expired"}
        BY <2>1, <2>2, <2>4, <3>1 DEF ClickOK, Onward, Has, Owns, Admitted
    <3>2. CASE row'.request \in Request /\ ~Asking(row'.request, {"ended"}) /\ row'.status = "pending"
        BY <2>1, <2>2, <2>4, <3>2 DEF ClickOK, Onward, Has, Owns, Admitted, Asking
    <3> QED
        BY <3>1, <3>2 DEF RowStep
  <2> QED
      BY <2>3, <2>4
<1>2. OneAdmitted'
    BY DEF AnswerInv, OneAdmitted, Has
<1> QED
    BY <1>1, <1>2 DEF AnswerInv

LEMMA ResultsTyped ==
    ASSUME TypeOK, NEW after \in Row, Acknowledged(after) \/ Unacknowledged(after)
    PROVE  row' \in {row, after} /\ faults' \in 0..MaxFaults
    BY FaultTyped DEF Acknowledged, Unacknowledged, TypeOK

LEMMA StoreKeeps ==
    ASSUME AnswerInv, NEW r \in Request, Store(r)
    PROVE  AnswerInv'
<1>1. Asking(r, {"storing"}) /\ (r \in cancelled => Dead(r)) /\ (question = r \/ Dead(r))
    BY DEF AnswerInv, Store, QuestionOK, Asking, Opening
<1>2. \A q \in Request : q # r => Asking(q, {"none", "queued"}) \/ Ended(q)
    BY <1>1, RequestAssumption DEF AnswerInv, OneAtATime, Asking, Ended
<1>3. Begun(r) \in Row /\ (Begun(r) = row \/ (Begun(r).request = r /\ Begun(r).status = "pending"))
    BY Typed DEF AnswerInv, Begun, Row, None
<1>4. row' \in {row, Begun(r)} /\ faults' \in 0..MaxFaults
    BY <1>3, ResultsTyped DEF AnswerInv, Store
<1>5. \/ row'.request = r /\ r \in cancelled /\ NoExpiry /\ AskingIs(r, "retiring")
      \/ row'.request = row.request /\ r \in cancelled /\ NoExpiry /\ AskingIs(r, "retiring")
      \/ row'.request = r /\ row'.card = "intent" /\ row'.status = "pending" /\ NoExpiry /\ AskingIs(r, "posting")
      \/ question = r /\ ExpiryIs(r, "refusing") /\ AskingIs(r, "failing")
      \/ question # r /\ NoExpiry /\ AskingIs(r, "ended")
    BY AskingGoesIs, AskFailsIs DEF AnswerInv, Store, Acknowledged, Begun, AskingStages, NoExpiry
<1>6. TypeOK'
    BY <1>3, <1>4, <1>5, Typed DEF AnswerInv, Store, TypeOK, AskingIs, AskingRecord, ExpiryIs,
       ClosingIs, ClosingRecord, NoExpiry
<1>7. OneAtATime'
    BY <1>1, <1>5, Typed, RequestAssumption DEF AnswerInv, OneAtATime, QuestionOK, AskingIs,
       ExpiryIs, ClosingIs, NoExpiry, Callers, Ended, Asking
<1>8. ASSUME NEW q \in Request PROVE QuestionOK(q)'
    BY <1>1, <1>2, <1>3, <1>4, <1>5, Typed DEF AnswerInv, Store, QuestionOK, AskingIs, ExpiryIs,
       ClosingIs, NoExpiry, Callers, Ended, Asking, Dead, Posed, Early, Opening, Retired
<1>9. Onward
    BY <1>1, <1>5, Typed DEF AnswerInv, Store, Onward, AskingIs, ExpiryIs, ClosingIs, NoExpiry,
       Callers, Asking, Dead, Posed, Early, Fresh, Stranded
<1>10. RowStep
    BY <1>1, <1>3, <1>4 DEF RowStep, Asking
<1>11. RowOK'
    BY <1>1, <1>3, <1>4, <1>9, Typed DEF AnswerInv, RowOK, Onward, Row, Fresh, Asking, Early, Begun,
       Dead
<1> QED
    BY <1>6, <1>7, <1>8, <1>9, <1>10, <1>11, RowStepsKeep DEF Store

LEMMA RecordMissingKeeps ==
    ASSUME AnswerInv, NEW r \in Request, RecordMissing(r)
    PROVE  AnswerInv'
<1>1. /\ Asking(r, {"rejected", "lost"}) /\ (question = r \/ Dead(r)) /\ row.request = r
      /\ Missing(asking[r].stage) \in {"failed", "unknown"}
    BY DEF AnswerInv, RecordMissing, QuestionOK, Asking, Opening, Missing
<1> DEFINE after == CardFinished(r, Missing(asking[r].stage))
<1>2. /\ after \in Row /\ after.request = r /\ after.by = row.by
      /\ after.status \in {row.status, "expired"}
      /\ after.status = "submitting" => after.card = row.card
    BY <1>1, Typed DEF AnswerInv, CardFinished, Row, Final, RowOK
<1>3. row' \in {row, after} /\ faults' \in 0..MaxFaults
    BY <1>2, ResultsTyped DEF AnswerInv, RecordMissing
<1> HIDE DEF after
<1>4. \/ question = r /\ ExpiryIs(r, "refusing") /\ AskingIs(r, "failing")
      \/ question # r /\ NoExpiry /\ AskingIs(r, "ended")
    BY AskFailsIs DEF AnswerInv, RecordMissing
<1>5. TypeOK'
    BY <1>2, <1>3, <1>4, Typed DEF AnswerInv, RecordMissing, TypeOK, AskingIs, AskingRecord,
       ExpiryIs, ClosingIs, ClosingRecord, NoExpiry
<1>6. OneAtATime'
    BY <1>1, <1>4, Typed, RequestAssumption DEF AnswerInv, OneAtATime, QuestionOK, AskingIs,
       ExpiryIs, ClosingIs, NoExpiry, Callers, Ended, Asking
<1>7. ASSUME NEW q \in Request PROVE QuestionOK(q)'
    BY <1>1, <1>2, <1>3, <1>4, Typed DEF AnswerInv, RecordMissing, QuestionOK, AskingIs, ExpiryIs,
       ClosingIs, NoExpiry, Callers, Asking, Dead, Posed, Early, Opening, Retired
<1>8. Onward
    BY <1>1, <1>4, Typed DEF AnswerInv, RecordMissing, Onward, AskingIs, ExpiryIs, ClosingIs,
       NoExpiry, Callers, Asking, Dead, Posed, Early, Fresh, Stranded
<1>9. RowStep
    BY <1>1, <1>2, <1>3 DEF RowStep
<1>10. Dead(r)'
    BY <1>1, <1>4, <1>8 DEF Onward, ExpiryIs, ClosingIs, Dead
<1>11. RowOK'
    BY <1>1, <1>2, <1>3, <1>8, <1>10, Typed DEF AnswerInv, RowOK, Onward, Fresh
<1> QED
    BY <1>5, <1>6, <1>7, <1>8, <1>9, <1>11, RowStepsKeep DEF RecordMissing

LEMMA ConfirmKeeps ==
    ASSUME AnswerInv, NEW r \in Request, Confirm(r)
    PROVE  AnswerInv'
<1>1. /\ Asking(r, {"posted"}) /\ (question = r \/ Dead(r)) /\ (r \in cancelled => Dead(r))
      /\ row.request = r /\ row.card = "intent" /\ (row.status = "pending" \/ Dead(r))
    BY DEF AnswerInv, Confirm, QuestionOK, Asking, Opening
<1> DEFINE after == CardFinished(r, "confirmed")
<1>2. /\ after \in Row /\ after.request = r /\ after.by = row.by /\ after.status = row.status
      /\ after.card \in {row.card, "confirmed"}
    BY <1>1, Typed DEF AnswerInv, CardFinished, Row
<1>3. row' \in {row, after} /\ faults' \in 0..MaxFaults
    BY <1>2, ResultsTyped DEF AnswerInv, Confirm
<1>4. \/ (r \in cancelled \/ row.status # "pending") /\ NoExpiry /\ AskingIs(r, "retiring") /\ UNCHANGED live
      \/ r \notin cancelled /\ NoExpiry /\ AskingIs(r, "ended") /\ live' = [live EXCEPT ![r] = "pending"]
      \/ question = r /\ ExpiryIs(r, "refusing") /\ AskingIs(r, "failing") /\ UNCHANGED live
      \/ question # r /\ NoExpiry /\ AskingIs(r, "ended") /\ UNCHANGED live
    BY <1>2, AskingGoesIs, AskFailsIs DEF AnswerInv, Confirm, AskingStages, NoExpiry
<1> HIDE DEF after
<1>11. /\ live' \in [Request -> {"absent", "pending", "submitting"}]
       /\ \A q \in Request : q # r => live'[q] = live[q]
       /\ live'[r] # "absent" => live[r] # "absent" \/ (r \notin cancelled /\ NoExpiry /\ AskingIs(r, "ended"))
    BY <1>4, Typed DEF AnswerInv
<1>5. TypeOK'
  <2>1. UNCHANGED <<turn, job, named, native, card, accepting, click>>
      BY DEF Confirm
  <2> QED
      BY <1>2, <1>3, <1>4, <1>11, <2>1, Typed DEF AnswerInv, TypeOK, AskingIs, AskingRecord,
         ExpiryIs, ClosingIs, ClosingRecord, NoExpiry
<1>6. OneAtATime'
    BY <1>1, <1>4, Typed, RequestAssumption DEF AnswerInv, OneAtATime, QuestionOK, AskingIs,
       ExpiryIs, ClosingIs, NoExpiry, Callers, Ended, Asking
<1>7. ASSUME NEW q \in Request PROVE QuestionOK(q)'
  <2>1. UNCHANGED <<native, accepting>> /\ row'.request = row.request /\ QuestionOK(q)
      BY <1>1, <1>2, <1>3 DEF AnswerInv, Confirm
  <2>2. CASE q # r
    <3>1. ~Asking(q, {"posting", "posted", "rejected", "lost"})
        BY <1>1, <2>1, <2>2 DEF QuestionOK, Asking
    <3> QED
        BY <1>4, <1>11, <2>1, <2>2, <3>1, Typed DEF AnswerInv, QuestionOK, AskingIs, ExpiryIs,
           ClosingIs, NoExpiry, Callers, Asking, Dead, Posed, Early, Opening, Retired
  <2>3. CASE q = r
      BY <1>1, <1>4, <1>11, <2>1, <2>3, Typed DEF AnswerInv, QuestionOK, AskingIs, ExpiryIs,
         ClosingIs, NoExpiry, Callers, Asking, Dead, Posed, Early, Opening, Retired
  <2> QED
      BY <2>2, <2>3
<1>8. Onward
    BY <1>1, <1>4, Typed DEF AnswerInv, Confirm, Onward, AskingIs, ExpiryIs, ClosingIs, NoExpiry,
       Callers, Asking, Dead, Posed, Early, Fresh, Stranded
<1>9. RowStep
    BY <1>1, <1>2, <1>3 DEF RowStep
<1>10. RowOK'
    BY <1>1, <1>2, <1>3, <1>8, Typed DEF AnswerInv, RowOK, Onward, Fresh
<1> QED
    BY <1>5, <1>6, <1>7, <1>8, <1>9, <1>10, RowStepsKeep DEF Confirm

LEMMA ExpiredIs ==
    ASSUME TypeOK, NEW r \in Request
    PROVE  /\ Expired(r) \in Row
           /\ Expired(r) = row \/ (/\ row.request = r /\ Expired(r).request = r /\ Expired(r).by = row.by /\ Expired(r).card = row.card
                                   /\ Expired(r).status = "expired")
    BY Typed DEF Expired, Row, Final

LEMMA RetireKeeps ==
    ASSUME AnswerInv, NEW r \in Request, Retire(r)
    PROVE  AnswerInv'
<1>1. Asking(r, {"retiring"}) /\ Dead(r) /\ AskingIs(r, "marking")
    BY AskingGoesIs DEF AnswerInv, Retire, QuestionOK, Asking, Retired, AskingStages
<1>2. row' \in {row, Expired(r)} /\ faults' \in 0..MaxFaults
    BY ExpiredIs, ResultsTyped DEF AnswerInv, Retire
<1>3. /\ row' \in Row /\ row'.request = row.request /\ row'.by = row.by
      /\ row'.card = row.card /\ (row' = row \/ (row.request = r /\ row'.status = "expired"))
    BY <1>2, ExpiredIs, Typed DEF AnswerInv
<1>4. TypeOK'
    BY <1>1, <1>2, <1>3, Typed DEF AnswerInv, Retire, TypeOK, AskingIs, AskingRecord, executorVars,
       runtimeVars
<1>5. OneAtATime'
    BY <1>1, Typed, RequestAssumption DEF AnswerInv, Retire, OneAtATime, AskingIs, Ended, Asking,
       runtimeVars
<1>6. ASSUME NEW q \in Request PROVE QuestionOK(q)'
    BY <1>1, <1>3, Typed DEF AnswerInv, Retire, QuestionOK, AskingIs, Asking, Dead, Posed, Early,
       Opening, Retired, executorVars, runtimeVars
<1>7. Onward
    BY <1>1, Typed DEF AnswerInv, Retire, Onward, AskingIs, Asking, Dead, Posed, Early, Fresh,
       Stranded, executorVars, runtimeVars
<1>8. RowStep
    BY <1>3 DEF RowStep
<1>9. RowOK'
    BY <1>1, <1>3, <1>7, Typed DEF AnswerInv, RowOK, Onward, Row
<1> QED
    BY <1>4, <1>5, <1>6, <1>7, <1>8, <1>9, RowStepsKeep DEF Retire

LEMMA CloseStoresKeeps ==
    ASSUME AnswerInv, NEW r \in Request, NEW c \in Callers, CloseStores(r, c)
    PROVE  AnswerInv'
<1>1. closing[c][r].stage = "storing" /\ (Dead(r) \/ ~accepting)
    BY DEF AnswerInv, CloseStores, QuestionOK, Dead, Callers
<1>2. row' \in {row, Expired(r)} /\ faults' \in 0..MaxFaults
    BY ExpiredIs, ResultsTyped DEF AnswerInv, CloseStores
<1>3. /\ row' \in Row /\ row'.request = row.request /\ row'.by = row.by
      /\ row'.card = row.card /\ (row' = row \/ (row.request = r /\ row'.status = "expired"))
    BY <1>2, ExpiredIs, Typed DEF AnswerInv
<1>4. ClosingIs(r, c, "patching")
  <2>1. closing[c][r].seen \in Row
      BY Typed DEF AnswerInv, ClosingRecord
  <2> DEFINE seen == IF row.request = r THEN row' ELSE closing[c][r].seen
  <2>2. CASE closing' = [closing EXCEPT ![c][r] =
                             [stage |-> "patching", seen |-> IF row.request = r THEN row' ELSE @.seen]]
    <3>1. PICK m \in Row : m = seen
        BY <1>3, <2>1
    <3>2. closing' = [closing EXCEPT ![c][r] = [stage |-> "patching", seen |-> m]]
        BY <2>2, <3>1
    <3> QED
        BY <3>2, ClosingBecomes DEF AnswerInv, ClosingStages
  <2>3. CASE ClosingGoes(r, c, "patching")
      BY <2>3, ClosingGoesIs DEF AnswerInv, ClosingStages
  <2> QED
      BY <2>2, <2>3 DEF CloseStores
<1>5. /\ live' = [live EXCEPT ![r] = "absent"]
      /\ UNCHANGED <<turn, job, named, native, asking, card, accepting, click, question, cancelled>>
    BY DEF CloseStores, executorVars
<1>6. TypeOK'
    BY <1>2, <1>3, <1>4, <1>5, Typed DEF AnswerInv, TypeOK, ClosingIs, ClosingRecord
<1>7. OneAtATime'
    BY <1>1, <1>4, <1>5, OrderKept DEF AnswerInv, ClosingIs, Callers
<1>8. ASSUME NEW q \in Request PROVE QuestionOK(q)'
    BY <1>1, <1>3, <1>4, <1>5, Typed DEF AnswerInv, QuestionOK, ClosingIs, Callers, Asking, Dead,
       Posed, Early, Opening, Retired
<1>9. Onward
    BY <1>1, <1>4, <1>5, Typed DEF AnswerInv, Onward, ClosingIs, Callers, Asking, Dead, Posed,
       Early, Fresh, Stranded
<1>10. RowStep
    BY <1>3 DEF RowStep
<1>11. RowOK'
    BY <1>1, <1>3, <1>9, Typed DEF AnswerInv, RowOK, Onward, Row
<1> QED
    BY <1>5, <1>6, <1>7, <1>8, <1>9, <1>10, <1>11, RowStepsKeep

----------------------------------------------------------------------------
(* The steps of a click *)

\* A click changes the row of its own question only, which is answerable or being answered by it.
OwnRow(k) ==
    \/ row' = row
    \/ /\ row.request # None /\ row.request = click[k].request
       /\ row.card = "confirmed" \/ Asking(row.request, {"ended"})
       /\ row.status = "pending" \/ (row.status = "submitting" /\ row.by = k)
       /\ row'.request = row.request /\ row'.card = row.card /\ row'.by = k

Elsewhere ==
    UNCHANGED <<turn, job, named, native, question, asking, cancelled, closing, accepting>>

LEMMA ClicksKeep ==
    ASSUME AnswerInv, TypeOK', NEW k \in Click, Elsewhere, OwnRow(k), RowOK', ClickOK(k)',
           \A l \in Click : l # k => click'[l] = click[l],
           \A q \in Request : live'[q] # "absent" => live[q] # "absent",
           \A l \in Click : l # k /\ Has(l, Admitted) /\ Has(k, Admitted)' => click'[k].request # click[l].request
    PROVE  AnswerInv'
<1>1. OneAtATime'
    BY DEF AnswerInv, Elsewhere, OneAtATime, Ended, Asking
<1>2. ASSUME NEW q \in Request PROVE QuestionOK(q)'
    BY <1>2 DEF AnswerInv, Elsewhere, OwnRow, QuestionOK, Asking, Dead, Posed, Early, Opening,
       Retired
<1>3. ASSUME NEW l \in Click PROVE ClickOK(l)'
  <2>1. CASE l = k
      BY <2>1
  <2>2. CASE l # k
    <3>1. click'[l] = click[l] /\ ClickOK(l)
        BY <2>2 DEF AnswerInv
    <3> QED
        BY <2>2, <3>1 DEF ClickOK, Elsewhere, OwnRow, Has, Owns, Dead, Posed, Fresh, Stranded,
           Asking, Admitted
  <2> QED
      BY <2>1, <2>2
<1>4. OneAdmitted'
    BY DEF AnswerInv, OneAdmitted, Has
<1> QED
    BY <1>1, <1>2, <1>3, <1>4 DEF AnswerInv

LEMMA ClickBecomes ==
    ASSUME TypeOK, NEW k \in Click, NEW s \in ClickStages, NEW m \in Row, NEW t \in Final \cup {"none"},
           click' = [click EXCEPT ![k].stage = s, ![k].seen = m, ![k].status = t]
    PROVE  /\ ClickIs(k, s) /\ click'[k].request = click[k].request
           /\ click'[k].status = t /\ click'[k].seen = m
<1>1. click \in [Click -> ClickRecord] /\ click[k] \in ClickRecord
    BY Typed
<1>2. click'[k] = [stage |-> s, request |-> click[k].request, status |-> t, seen |-> m]
    BY <1>1 DEF ClickRecord
<1>3. click'[k] \in ClickRecord
    BY <1>1, <1>2 DEF ClickRecord
<1>4. \A l \in Click : l # k => click'[l] = click[l]
    BY <1>1
<1>5. click' \in [Click -> ClickRecord]
    BY <1>1, <1>3, <1>4
<1> QED
    BY <1>2, <1>4, <1>5 DEF ClickIs

LEMMA SubmitKeeps ==
    ASSUME AnswerInv, NEW k \in Click, NEW r \in Request, Submit(k, r)
    PROVE  AnswerInv'
<1>1. ClickOK(k) /\ Has(k, {"idle"})
    BY DEF AnswerInv, Submit, Has
<1>2. PICK s \in {"checked", "done"} : s = IF Answerable(r) THEN "checked" ELSE "done"
    OBVIOUS
<1>3. click' = [click EXCEPT ![k] = [NoClick EXCEPT !.stage = s, !.request = r]]
    BY <1>2 DEF Submit
<1>4. [NoClick EXCEPT !.stage = s, !.request = r] \in ClickRecord
    BY <1>2, NoRowTyped DEF NoClick, ClickRecord, ClickStages
<1>5. ClickIs(k, s) /\ click'[k].request = r
    BY <1>3, <1>4, Typed DEF AnswerInv, ClickIs, NoClick
<1>6. Elsewhere /\ UNCHANGED <<row, card, live, faults>>
    BY DEF Submit, Elsewhere, executorVars, runtimeVars
<1>7. TypeOK'
    BY <1>5, <1>6, Typed DEF AnswerInv, Elsewhere, TypeOK, ClickIs, ClickRecord
<1>8. RowOK'
    BY <1>6 DEF AnswerInv, RowOK, Elsewhere, Asking, Fresh, Dead, Stranded
<1>9. ClickOK(k)' /\ ~Has(k, Admitted)'
    BY <1>1, <1>2, <1>5, <1>6 DEF ClickOK, ClickIs, Has, Admitted
<1> QED
    BY <1>5, <1>6, <1>7, <1>8, <1>9, ClicksKeep DEF ClickIs, OwnRow

LEMMA BeginAnswerKeeps ==
    ASSUME AnswerInv, NEW k \in Click, BeginAnswer(k)
    PROVE  AnswerInv'
<1> DEFINE r == click[k].request
<1>1. ClickOK(k) /\ Has(k, {"checked"}) /\ r \in Request
    BY DEF AnswerInv, BeginAnswer, Has, ClickOK
<1>2. MayAnswer(k) => Asking(r, {"ended"}) /\ Posed(r)
    BY <1>1 DEF AnswerInv, MayAnswer, QuestionOK
<1>3. /\ AnswerBegun(r, k) \in Row
      /\ ~Answerable(r) => AnswerBegun(r, k) = row
      /\ Answerable(r) =>
            /\ AnswerBegun(r, k).request = r /\ AnswerBegun(r, k).by = k
            /\ AnswerBegun(r, k).status = "submitting" /\ AnswerBegun(r, k).card = "confirmed"
    BY <1>1, Typed DEF AnswerInv, AnswerBegun, Answerable, Row
<1>4. Answerable(r) => row.request = r /\ row.status = "pending" /\ row.card = "confirmed" /\ Fresh(r)
    BY <1>1, Typed DEF AnswerInv, Answerable, RowOK
<1>5. \/ ClickGoes(k, "done") /\ UNCHANGED <<row, faults>>
      \/ /\ MayAnswer(k) /\ Answerable(r) /\ ClickGoes(k, "begun")
         /\ row' = AnswerBegun(r, k) /\ UNCHANGED faults
      \/ ~Answerable(r) /\ ClickGoes(k, "done") /\ row' = AnswerBegun(r, k) /\ UNCHANGED faults
      \/ MayAnswer(k) /\ ClickGoes(k, "doubting") /\ Unacknowledged(AnswerBegun(r, k))
    BY DEF BeginAnswer, Acknowledged
<1>6. Elsewhere /\ UNCHANGED <<card, live>>
    BY DEF BeginAnswer, Elsewhere, executorVars, runtimeVars
<1>7. row' \in {row, AnswerBegun(r, k)} /\ faults' \in 0..MaxFaults
    BY <1>3, <1>5, ResultsTyped DEF AnswerInv, TypeOK
<1>8. /\ click' \in [Click -> ClickRecord] /\ click'[k].request = r
      /\ \A l \in Click : l # k => click'[l] = click[l]
      /\ \/ click'[k].stage = "done"
         \/ /\ MayAnswer(k) /\ Answerable(r) /\ click'[k].stage = "begun"
            /\ row' = AnswerBegun(r, k)
         \/ MayAnswer(k) /\ click'[k].stage = "doubting"
    BY <1>5, ClickGoesIs DEF AnswerInv, ClickStages, ClickIs
<1>9. TypeOK'
    BY <1>3, <1>6, <1>7, <1>8, Typed DEF AnswerInv, Elsewhere, TypeOK, ClickRecord
<1>10. OwnRow(k)
    BY <1>1, <1>3, <1>4, <1>7, Typed DEF OwnRow, AnswerInv
<1>11. RowOK'
    BY <1>1, <1>3, <1>4, <1>6, <1>7 DEF AnswerInv, RowOK, Elsewhere, Asking, Fresh, Dead, Stranded
<1>12. ClickOK(k)'
  <2>1. Owns(k, r)' => Fresh(r) /\ row' = AnswerBegun(r, k)
      BY <1>1, <1>3, <1>4, <1>7 DEF Owns, ClickOK, Has
  <2> QED
      BY <1>1, <1>2, <1>3, <1>4, <1>6, <1>8, <2>1
      DEF ClickOK, Has, Admitted, Elsewhere, Owns, Asking, Posed, Fresh, Dead
<1>13. \A l \in Click : l # k /\ Has(l, Admitted) /\ Has(k, Admitted)' => r # click[l].request
    BY <1>4, <1>8 DEF AnswerInv, ClickOK, Has, Admitted
<1> QED
    BY <1>6, <1>8, <1>9, <1>10, <1>11, <1>12, <1>13, ClicksKeep

LEMMA MarkSubmittingKeeps ==
    ASSUME AnswerInv, NEW k \in Click, MarkSubmitting(k)
    PROVE  AnswerInv'
<1> DEFINE r == click[k].request
<1>1. ClickOK(k) /\ Has(k, {"begun"}) /\ r \in Request
    BY DEF AnswerInv, MarkSubmitting, Has, ClickOK
<1>2. ClickIs(k, "answering") /\ click'[k].request = r
    BY ClickGoesIs DEF AnswerInv, MarkSubmitting, ClickStages
<1>3. Elsewhere /\ UNCHANGED <<row, card, faults>>
    BY DEF MarkSubmitting, Elsewhere, executorVars
<1>4. live' \in [Request -> {"absent", "pending", "submitting"}]
      /\ \A q \in Request : live'[q] # "absent" => live[q] # "absent"
    BY <1>1, Typed DEF AnswerInv, MarkSubmitting
<1>5. TypeOK'
    BY <1>2, <1>3, <1>4, Typed DEF AnswerInv, Elsewhere, TypeOK, ClickIs, ClickRecord
<1>6. RowOK'
    BY <1>3 DEF AnswerInv, RowOK, Elsewhere, Asking, Fresh, Dead, Stranded
<1>7. ClickOK(k)'
    BY <1>1, <1>2, <1>3 DEF ClickOK, ClickIs, Has, Admitted, Elsewhere, Owns, Asking, Posed, Fresh,
       Dead
<1>8. \A l \in Click : l # k /\ Has(l, Admitted) => r # click[l].request
    BY <1>1 DEF AnswerInv, OneAdmitted, Has, Admitted
<1> QED
    BY <1>2, <1>3, <1>4, <1>5, <1>6, <1>7, <1>8, ClicksKeep DEF ClickIs, OwnRow

LEMMA DoubtedIs ==
    ASSUME TypeOK, NEW r \in Request, NEW k \in Click
    PROVE  /\ Doubted(r, k) \in Row
           /\ \/ Doubted(r, k) = row
              \/ /\ row.request = r /\ (row.status = "pending" \/ (row.status = "submitting" /\ row.by = k))
                 /\ Doubted(r, k).request = r /\ Doubted(r, k).by = k /\ Doubted(r, k).card = row.card
                 /\ Doubted(r, k).status = "unknown"
    BY Typed DEF Doubted, Row, Final

LEMMA ResolveBeginKeeps ==
    ASSUME AnswerInv, NEW k \in Click, ResolveBegin(k)
    PROVE  AnswerInv'
<1> DEFINE r == click[k].request
<1>1. ClickOK(k) /\ Has(k, {"doubting"}) /\ r \in Request /\ Asking(r, {"ended"}) /\ Posed(r)
    BY DEF AnswerInv, ResolveBegin, Has, ClickOK
<1>2. Elsewhere /\ UNCHANGED card
    BY DEF ResolveBegin, Elsewhere, executorVars
<1>3. CASE Owns(k, r) /\ ClickGoes(k, "begun") /\ UNCHANGED <<row, live, faults>>
  <2>1. ClickIs(k, "begun") /\ click'[k].request = r
      BY <1>3, ClickGoesIs DEF AnswerInv, ClickStages
  <2>2. TypeOK'
      BY <1>2, <1>3, <2>1, Typed DEF AnswerInv, Elsewhere, TypeOK, ClickIs, ClickRecord
  <2>3. RowOK'
      BY <1>2, <1>3 DEF AnswerInv, RowOK, Elsewhere, Asking, Fresh, Dead, Stranded
  <2>4. ClickOK(k)'
      BY <1>1, <1>2, <1>3, <2>1 DEF ClickOK, ClickIs, Has, Admitted, Elsewhere, Owns, Asking, Posed,
         Fresh, Dead
  <2>5. \A l \in Click : l # k /\ Has(l, Admitted) => r # click[l].request
      BY <1>3 DEF AnswerInv, ClickOK, Owns
  <2> QED
      BY <1>2, <1>3, <2>1, <2>2, <2>3, <2>4, <2>5, ClicksKeep DEF ClickIs, OwnRow
<1>4. CASE ~(Owns(k, r) /\ ClickGoes(k, "begun") /\ UNCHANGED <<row, live, faults>>)
  <2>1. row' \in {row, Doubted(r, k)} /\ row' \in Row /\ faults' \in 0..MaxFaults
      BY <1>1, <1>4, DoubtedIs, ResultsTyped, Typed DEF AnswerInv, ResolveBegin
  <2>2. live' = [live EXCEPT ![r] = "absent"]
      BY <1>4 DEF ResolveBegin
  <2>3. PICK m \in Row :
          click' = [click EXCEPT ![k].stage = "patching", ![k].seen = m,
                       ![k].status = IF m.status = "submitted" THEN "submitted" ELSE "unknown"]
      BY <1>4, <2>1, Typed DEF AnswerInv, ResolveBegin
  <2>4. PICK t \in Final \cup {"none"} : t = IF m.status = "submitted" THEN "submitted" ELSE "unknown"
      BY DEF Final
  <2>5. ClickIs(k, "patching") /\ click'[k].request = r
      BY <2>3, <2>4, ClickBecomes DEF AnswerInv, ClickStages
  <2>6. TypeOK'
      BY <1>1, <1>2, <2>1, <2>2, <2>5, Typed DEF AnswerInv, Elsewhere, TypeOK, ClickIs, ClickRecord
  <2>7. OwnRow(k)
      BY <1>1, <2>1, DoubtedIs, Typed DEF AnswerInv, OwnRow
  <2>8. RowOK'
      BY <1>1, <1>2, <2>1, DoubtedIs DEF AnswerInv, RowOK, Elsewhere, Asking, Fresh, Dead, Stranded
  <2>9. ClickOK(k)' /\ ~Has(k, Admitted)'
      BY <1>1, <2>5 DEF ClickOK, ClickIs, Has, Admitted
  <2>10. \A q \in Request : live'[q] # "absent" => live[q] # "absent"
      BY <1>1, <2>2, Typed DEF AnswerInv
  <2> QED
      BY <1>2, <2>5, <2>6, <2>7, <2>8, <2>9, <2>10, ClicksKeep DEF ClickIs
<1> QED
    BY <1>3, <1>4

Says(k, t) == click' = [click EXCEPT ![k].stage = "finishing", ![k].status = t]

LEMMA SaysIs ==
    ASSUME TypeOK, NEW k \in Click, NEW t \in Final, Says(k, t)
    PROVE  ClickIs(k, "finishing") /\ click'[k].request = click[k].request /\ click'[k].status = t
    BY Typed DEF Says, ClickIs, ClickRecord, ClickStages

LEMMA AnswerIs ==
    ASSUME AnswerInv, NEW k \in Click, Answer(k)
    PROVE  LET r == click[k].request IN
           \E t \in {"submitted", "unknown", "expired"} :
              /\ Says(k, t)
              /\ \/ /\ question # r \/ ~Registered
                    /\ UNCHANGED <<native, question, cancelled, faults>> /\ t = "expired"
                 \/ /\ question = r /\ Registered /\ question' = None /\ cancelled' = cancelled \cup {r}
                    /\ native' \in {native, [native EXCEPT ![r] = "answered"]}
                    /\ t = "submitted" => Open(r) /\ native' = [native EXCEPT ![r] = "answered"]
                    /\ t # "expired" /\ faults' \in 0..MaxFaults
<1> DEFINE r == click[k].request
<1>1. CASE (question # r \/ ~Registered) /\ Says(k, "expired") /\ UNCHANGED <<native, question, cancelled, faults>>
    BY <1>1
<1>2. CASE /\ question = r /\ Registered /\ question' = None /\ cancelled' = cancelled \cup {r}
           /\ Open(r) /\ Says(k, "submitted") /\ UNCHANGED faults
           /\ native' = [native EXCEPT ![r] = "answered"]
    BY <1>2 DEF AnswerInv, TypeOK
<1>3. CASE /\ question = r /\ Registered /\ question' = None /\ cancelled' = cancelled \cup {r}
           /\ Fault /\ Says(k, "unknown")
           /\ native' \in {native, [native EXCEPT ![r] = "answered"]}
    BY <1>3, FaultTyped DEF AnswerInv
<1> QED
    BY <1>1, <1>2, <1>3 DEF Answer, Says

LEMMA AnswerKeeps ==
    ASSUME AnswerInv, NEW k \in Click, Answer(k)
    PROVE  AnswerInv'
<1> DEFINE r == click[k].request
<1>1. ClickOK(k) /\ Has(k, {"answering"}) /\ r \in Request /\ Asking(r, {"ended"}) /\ Posed(r) /\ Fresh(r)
    BY DEF AnswerInv, Answer, Has, ClickOK, Admitted
<1>2. UNCHANGED <<turn, job, named, asking, row, card, closing, live, accepting>>
    BY DEF Answer, runtimeVars
<1>3. PICK t \in {"submitted", "unknown", "expired"} :
        /\ Says(k, t)
        /\ \/ /\ question # r \/ ~Registered
              /\ UNCHANGED <<native, question, cancelled, faults>> /\ t = "expired"
           \/ /\ question = r /\ Registered /\ question' = None /\ cancelled' = cancelled \cup {r}
              /\ native' \in {native, [native EXCEPT ![r] = "answered"]}
              /\ t = "submitted" => Open(r) /\ native' = [native EXCEPT ![r] = "answered"]
              /\ t # "expired" /\ faults' \in 0..MaxFaults
    BY AnswerIs
<1>4. ClickIs(k, "finishing") /\ click'[k].request = r /\ click'[k].status = t
    BY <1>3, SaysIs DEF AnswerInv, Final
<1>5. CASE (question # r \/ ~Registered) /\ UNCHANGED <<native, question, cancelled, faults>> /\ t = "expired"
  <2>1. Elsewhere
      BY <1>2, <1>5 DEF Elsewhere
  <2>2. Dead(r) \/ Stranded(r)
      BY <1>1, <1>5 DEF AnswerInv, QuestionOK, Posed, Fresh, Stranded, Registered
  <2>3. TypeOK'
      BY <1>2, <1>4, <1>5, Typed DEF AnswerInv, TypeOK, ClickIs, ClickRecord
  <2>4. RowOK'
      BY <1>2, <1>5 DEF AnswerInv, RowOK, Asking, Fresh, Dead, Stranded
  <2>5. ClickOK(k)'
      BY <1>1, <1>2, <1>4, <1>5, <2>2 DEF ClickOK, ClickIs, Has, Admitted, Asking, Posed, Dead,
         Stranded
  <2>6. \A l \in Click : l # k /\ Has(l, Admitted) => r # click[l].request
      BY <1>1 DEF AnswerInv, OneAdmitted, Has, Admitted
  <2> QED
      BY <1>2, <1>4, <2>1, <2>3, <2>4, <2>5, <2>6, ClicksKeep DEF ClickIs, OwnRow
<1>6. CASE /\ question = r /\ Registered /\ question' = None /\ cancelled' = cancelled \cup {r}
           /\ native' \in {native, [native EXCEPT ![r] = "answered"]}
           /\ t = "submitted" => Open(r) /\ native' = [native EXCEPT ![r] = "answered"]
           /\ t # "expired" /\ faults' \in 0..MaxFaults
  <2>1. r \notin cancelled /\ ~Dead(r)
      BY <1>1, <1>6 DEF AnswerInv, QuestionOK
  <2>2. TypeOK'
    <3>1. native' \in [Request -> {"none", "open", "answered", "refused", "resolved", "gone"}]
        BY <1>6, Typed DEF AnswerInv
    <3> QED
        BY <1>1, <1>2, <1>4, <1>6, <3>1, Typed DEF AnswerInv, TypeOK, ClickIs, ClickRecord
  <2>3. OneAtATime'
      BY <1>2 DEF AnswerInv, OneAtATime, Ended, Asking
  <2>4. /\ \A q \in Request : q # r => native'[q] = native[q]
        /\ native'[r] = native[r] \/ native'[r] = "answered"
        /\ t = "submitted" => native'[r] = "answered"
      BY <1>1, <1>6, Typed DEF AnswerInv
  <2>5. ASSUME NEW q \in Request PROVE QuestionOK(q)'
    <3>1. CASE q = r
        BY <1>1, <1>2, <1>6, <2>1, <2>4, <3>1, Typed DEF AnswerInv, QuestionOK, Asking, Dead, Posed,
           Early, Opening, Retired
    <3>2. CASE q # r
        BY <1>1, <1>2, <1>6, <2>1, <2>4, <3>2, Typed DEF AnswerInv, QuestionOK, Asking, Dead, Posed,
           Early, Opening, Retired
    <3> QED
        BY <3>1, <3>2
  <2>6. RowOK'
    <3> SUFFICES ASSUME row.request # None PROVE RowOK'
        BY <1>2 DEF RowOK
    <3>1. row.request \in Request
        BY Typed DEF AnswerInv, Row
    <3>2. CASE row.request = r
        BY <1>1, <1>2, <1>6, <2>1, <2>4, <3>2 DEF AnswerInv, RowOK, ClickOK, Has, Admitted, Asking,
           Fresh, Dead, Stranded, Registered
    <3>3. CASE row.request # r
      <4>1. PICK p \in Request : p = row.request
          BY <3>1
      <4>2. (p \in cancelled' => p \in cancelled) /\ native'[p] = native[p]
        <5>1. p # r /\ cancelled' = cancelled \cup {r}
            BY <1>6, <3>3, <4>1
        <5> QED
            BY <2>4, <5>1
      <4> QED
          BY <1>2, <4>1, <4>2 DEF AnswerInv, RowOK, Asking, Fresh, Dead, Stranded
    <3> QED
        BY <3>2, <3>3
  <2>7. ASSUME NEW l \in Click PROVE ClickOK(l)'
    <3>1. CASE l = k
        BY <1>1, <1>2, <1>4, <1>6, <2>4, <3>1 DEF ClickOK, ClickIs, Has, Admitted, Asking, Posed
    <3>2. CASE l # k
      <4>1. click'[l] = click[l] /\ ClickOK(l)
          BY <1>4, <3>2 DEF AnswerInv, ClickIs
      <4>2. CASE Has(l, {"idle"})
          BY <1>2, <4>1, <4>2 DEF ClickOK, Has, Admitted
      <4>3. CASE ~Has(l, {"idle"}) /\ click[l].request # r
        <5>1. PICK p \in Request : p = click[l].request
            BY <4>1, <4>3 DEF ClickOK
        <5>2. native'[p] = native[p] /\ (p \in cancelled' <=> p \in cancelled) /\ (question' = p <=> question = p)
            BY <1>1, <1>6, <2>4, <4>3, <5>1, Typed DEF AnswerInv
        <5> QED
            BY <1>2, <4>1, <5>1, <5>2 DEF ClickOK, Has, Admitted, Owns, Asking, Posed, Fresh, Dead,
               Stranded
      <4>4. CASE click[l].request = r
        <5>1. ~Has(l, Admitted)
            BY <1>1, <3>2, <4>4 DEF AnswerInv, OneAdmitted, Has, Admitted
        <5>2. ~Owns(l, r)
            BY <1>1, <3>2 DEF ClickOK, Has, Admitted, Owns
        <5> QED
            BY <1>2, <1>6, <2>4, <4>1, <4>4, <5>1, <5>2
            DEF ClickOK, Has, Admitted, Owns, Asking, Posed, Fresh, Dead, Stranded
      <4> QED
          BY <4>2, <4>3, <4>4
    <3> QED
        BY <3>1, <3>2
  <2>8. OneAdmitted'
      BY <1>1, <1>4 DEF AnswerInv, OneAdmitted, ClickIs, Has, Admitted
  <2> QED
      BY <2>2, <2>3, <2>5, <2>6, <2>7, <2>8 DEF AnswerInv
<1> QED
    BY <1>3, <1>5, <1>6

LEMMA FinishedIs ==
    ASSUME TypeOK, NEW r \in Request, NEW k \in Click, NEW s \in Final \cup {"none"}
    PROVE  /\ AnswerFinished(r, k, s) \in Row
           /\ \/ AnswerFinished(r, k, s) = row
              \/ /\ Owns(k, r) /\ AnswerFinished(r, k, s).request = r /\ AnswerFinished(r, k, s).by = k
                 /\ AnswerFinished(r, k, s).card = row.card /\ AnswerFinished(r, k, s).status = s
    BY Typed DEF AnswerFinished, Row, Owns

LEMMA ShowsIs ==
    ASSUME TypeOK, NEW k \in Click, NEW m \in Row, Shows(k, m)
    PROVE  ClickIs(k, "patching") /\ click'[k].request = click[k].request
<1>1. PICK t \in Final \cup {"none"} : t = Terminal(m)
    BY DEF Terminal, Final
<1> QED
    BY <1>1, ClickBecomes DEF Shows, ClickStages

LEMMA FinishAnswerKeeps ==
    ASSUME AnswerInv, NEW k \in Click, FinishAnswer(k)
    PROVE  AnswerInv'
<1> DEFINE r == click[k].request
           after == AnswerFinished(r, k, click[k].status)
<1>1. ClickOK(k) /\ Has(k, {"finishing"}) /\ r \in Request /\ click[k].status \in Final \cup {"none"}
    BY Typed DEF AnswerInv, FinishAnswer, Has, ClickOK, ClickRecord
<1>2. Elsewhere /\ UNCHANGED card
    BY DEF FinishAnswer, Elsewhere, executorVars
<1>3. /\ after \in Row
      /\ \/ after = row
         \/ /\ Owns(k, r) /\ after.request = r /\ after.by = k
            /\ after.card = row.card /\ after.status = click[k].status
    BY <1>1, FinishedIs DEF AnswerInv
<1>4. row' \in {row, after} /\ faults' \in 0..MaxFaults
    BY <1>3, ResultsTyped DEF AnswerInv, FinishAnswer
<1>5. /\ live' \in [Request -> {"absent", "pending", "submitting"}]
      /\ \A q \in Request : live'[q] # "absent" => live[q] # "absent"
    BY <1>1, Typed DEF AnswerInv, FinishAnswer
<1>6. PICK m \in Row : Shows(k, m) \/ ClickGoes(k, "reconciling")
    BY <1>3, NoRowTyped DEF FinishAnswer
<1> HIDE DEF after
<1>7. /\ click' \in [Click -> ClickRecord] /\ click'[k].request = r
      /\ \A l \in Click : l # k => click'[l] = click[l]
      /\ click'[k].stage \in {"patching", "reconciling"}
    BY <1>6, ShowsIs, ClickGoesIs DEF AnswerInv, ClickIs, ClickStages
<1>8. TypeOK'
    BY <1>2, <1>3, <1>4, <1>5, <1>7, Typed DEF AnswerInv, Elsewhere, TypeOK, ClickRecord
<1>9. OwnRow(k)
    BY <1>1, <1>3, <1>4, Typed DEF AnswerInv, OwnRow, Owns, ClickOK, Has, Admitted
<1>10. RowOK'
    BY <1>1, <1>2, <1>3, <1>4 DEF AnswerInv, RowOK, Elsewhere, ClickOK, Owns, Asking, Fresh, Dead,
       Stranded, Final, Has
<1>11. ClickOK(k)' /\ ~Has(k, Admitted)'
    BY <1>1, <1>7 DEF ClickOK, Has, Admitted
<1> QED
    BY <1>2, <1>5, <1>7, <1>8, <1>9, <1>10, <1>11, ClicksKeep

LEMMA ReconcileKeeps ==
    ASSUME AnswerInv, NEW k \in Click, Reconcile(k)
    PROVE  AnswerInv'
<1> DEFINE r == click[k].request
           after == IF Owns(k, r) THEN Doubted(r, k) ELSE row
<1>1. Has(k, {"reconciling"}) /\ r \in Request
    BY DEF AnswerInv, Reconcile, Has, ClickOK
<1>2. Elsewhere /\ UNCHANGED card
    BY DEF Reconcile, Elsewhere, executorVars
<1>3. /\ after \in Row
      /\ \/ after = row
         \/ /\ Owns(k, r) /\ after.request = r /\ after.by = k
            /\ after.card = row.card /\ after.status = "unknown"
    BY <1>1, DoubtedIs, Typed DEF AnswerInv
<1>4. row' \in {row, after} /\ faults' \in 0..MaxFaults
    BY <1>3, ResultsTyped DEF AnswerInv, Reconcile
<1>5. /\ live' \in [Request -> {"absent", "pending", "submitting"}]
      /\ \A q \in Request : live'[q] # "absent" => live[q] # "absent"
    BY <1>1, Typed DEF AnswerInv, Reconcile
<1>6. Shows(k, after) \/ ClickGoes(k, "done")
    BY DEF Reconcile
<1> HIDE DEF after
<1>7. /\ click' \in [Click -> ClickRecord] /\ click'[k].request = r
      /\ \A l \in Click : l # k => click'[l] = click[l]
      /\ click'[k].stage \in {"patching", "done"}
    BY <1>3, <1>6, ShowsIs, ClickGoesIs DEF AnswerInv, ClickIs, ClickStages
<1>8. TypeOK'
    BY <1>2, <1>3, <1>4, <1>5, <1>7, Typed DEF AnswerInv, Elsewhere, TypeOK, ClickRecord
<1>9. OwnRow(k)
    BY <1>1, <1>3, <1>4, Typed DEF AnswerInv, OwnRow, Owns, RowOK
<1>10. RowOK'
    BY <1>2, <1>3, <1>4 DEF AnswerInv, RowOK, Elsewhere, Owns, Asking, Fresh, Dead, Stranded
<1>11. ClickOK(k)' /\ ~Has(k, Admitted)'
    BY <1>1, <1>7 DEF ClickOK, Has, Admitted
<1> QED
    BY <1>2, <1>5, <1>7, <1>8, <1>9, <1>10, <1>11, ClicksKeep

LEMMA ClickPatchesKeeps ==
    ASSUME AnswerInv, NEW k \in Click, ClickPatches(k)
    PROVE  AnswerInv'
<1>1. /\ Has(k, {"patching"}) /\ click[k].request \in Request
      /\ click[k].seen.card = "confirmed" => click[k].status \in Final \cup {"none"}
    BY Typed DEF AnswerInv, ClickPatches, Has, ClickOK, ClickRecord
<1>2. ClickIs(k, "done") /\ click'[k].request = click[k].request
    BY ClickGoesIs DEF AnswerInv, ClickPatches, ClickStages
<1>3. Elsewhere /\ UNCHANGED <<row, live>>
    BY DEF ClickPatches, Elsewhere, executorVars, runtimeVars
<1>4. TypeOK'
  <2>1. faults' \in 0..MaxFaults
      BY FaultTyped DEF AnswerInv, ClickPatches, Patches, TypeOK
  <2>2. card' \in [Request -> Final \cup {"none", "form"}]
      BY <1>1, Typed DEF AnswerInv, ClickPatches, Patches, Patched
  <2> QED
      BY <1>1, <1>2, <1>3, <2>1, <2>2, Typed DEF AnswerInv, Elsewhere, TypeOK, ClickIs, ClickRecord
<1>5. RowOK'
    BY <1>3 DEF AnswerInv, RowOK, Elsewhere, Asking, Fresh, Dead, Stranded
<1>6. ClickOK(k)' /\ ~Has(k, Admitted)'
    BY <1>1, <1>2 DEF ClickOK, ClickIs, Has, Admitted
<1> QED
    BY <1>2, <1>3, <1>4, <1>5, <1>6, ClicksKeep DEF ClickIs, OwnRow

----------------------------------------------------------------------------
(* The invariant *)

LEMMA AnswersStart == Init => AnswerInv
<1> SUFFICES ASSUME Init PROVE AnswerInv
    OBVIOUS
<1>1. TypeOK
  <2>1. NoClosing \in ClosingRecord /\ NoClick \in ClickRecord /\ NoRow \in Row
      BY NoRowTyped DEF NoClosing, NoClick, ClosingRecord, ClickRecord, ClosingStages, ClickStages
  <2>2. named \in BOOLEAN /\ accepting \in BOOLEAN
      BY DEF Init
  <2> QED
      BY <2>1, <2>2, FaultAssumption DEF Init, TypeOK, AskingStages, ClosingRecord, ClickRecord
<1>2. OneAtATime /\ RowOK
    BY DEF Init, OneAtATime, Asking, RowOK, NoRow
<1>3. ASSUME NEW r \in Request PROVE QuestionOK(r)
  <2>1. r # None
      BY RequestAssumption DEF None
  <2> QED
      BY <2>1 DEF Init, QuestionOK, Asking, Dead, Posed, Early, Opening, Retired, NoClosing, Callers
<1>4. ASSUME NEW k \in Click PROVE ClickOK(k)
    BY DEF Init, ClickOK, NoClick, Has, Admitted, NoRow
<1>5. OneAdmitted
    BY DEF Init, OneAdmitted, NoClick, Has, Admitted
<1> QED
    BY <1>1, <1>2, <1>3, <1>4, <1>5 DEF AnswerInv

LEMMA AnswersStep == AnswerInv /\ [Next]_vars => AnswerInv'
<1> SUFFICES ASSUME AnswerInv, [Next]_vars PROVE AnswerInv'
    OBVIOUS
<1>1. ASSUME NEW r \in Request, Ask(r) \/ Handles(r) \/ NativeResolves(r) PROVE AnswerInv'
    BY <1>1, AskKeeps, StartKeeps, SupersededKeeps, StoreKeeps, PostKeeps, RecordMissingKeeps,
       ConfirmKeeps, RetireKeeps, MarkKeeps, NativeResolvesKeeps DEF Handles, Opens
<1>2. ASSUME NEW r \in Request, NEW c \in Callers, Closes(r, c) PROVE AnswerInv'
    BY <1>2, RefuseKeeps, CloseReadsKeeps, CloseStoresKeeps, ClosePatchesKeeps DEF Closes
<1>3. ASSUME NEW k \in Click, Clicks(k) \/ \E r \in Request : Submit(k, r) PROVE AnswerInv'
    BY <1>3, SubmitKeeps, BeginAnswerKeeps, MarkSubmittingKeeps, ResolveBeginKeeps, AnswerKeeps,
       FinishAnswerKeeps, ReconcileKeeps, ClickPatchesKeeps DEF Clicks
<1>4. CASE UNCHANGED vars
  <2>1. /\ UNCHANGED <<turn, job, named, native, question, asking, cancelled, closing, row, card>>
        /\ UNCHANGED <<live, accepting, click, faults>>
      BY <1>4 DEF vars, executorVars, runtimeVars
  <2>2. TypeOK' /\ OneAtATime' /\ RowOK' /\ OneAdmitted'
      BY <2>1 DEF AnswerInv, TypeOK, OneAtATime, Ended, RowOK, OneAdmitted, Asking, Has, Fresh,
         Dead, Stranded
  <2>3. ASSUME NEW r \in Request PROVE QuestionOK(r)'
      BY <2>1 DEF AnswerInv, QuestionOK, Asking, Dead, Posed
  <2>4. ASSUME NEW k \in Click PROVE ClickOK(k)'
      BY <2>1 DEF AnswerInv, ClickOK, Has, Asking, Posed, Owns, Fresh, Dead, Stranded
  <2> QED
      BY <2>2, <2>3, <2>4 DEF AnswerInv
<1> QED
    BY <1>1, <1>2, <1>3, <1>4, TurnSettlesKeeps, TurnFinishesKeeps, DisconnectKeeps, JobEndsKeeps,
       PatchExecutionKeeps, ShutdownKeeps, ExecutorClosesKeeps DEF Next

LEMMA AnswerInvariant == Spec => []AnswerInv
    BY AnswersStart, AnswersStep, PTL DEF Spec

\* Every variable of the questions keeps its type, however many questions, clicks and faults
\* there are.
THEOREM QuestionTypeCorrect == Spec => []TypeOK
<1>1. AnswerInv => TypeOK
    BY DEF AnswerInv
<1> QED
    BY <1>1, AnswerInvariant, PTL

\* What the row records of an answer is true, and Codex is answered by the click that the row
\* admitted and by no other.
THEOREM AnswersAreTrue == Spec => []AnswerRecordedTruly
<1>1. AnswerInv => AnswerRecordedTruly
  <2> SUFFICES ASSUME AnswerInv PROVE AnswerRecordedTruly
      OBVIOUS
  <2>1. row.request # None => row.request \in Request
      BY Typed DEF AnswerInv, Row
  <2>2. ASSUME row.request # None, row.status = "expired", native[row.request] = "answered"
        PROVE  ~accepting
      BY <2>1, <2>2 DEF AnswerInv, RowOK, QuestionOK, Stranded
  <2>3. OneAnswerPerQuestion
      BY DEF AnswerInv, OneAnswerPerQuestion, ClickOK, OneAdmitted, Has, Admitted
  <2> QED
      BY <2>2, <2>3 DEF AnswerInv, RowOK, AnswerRecordedTruly
<1> QED
    BY <1>1, AnswerInvariant, PTL

----------------------------------------------------------------------------
(* Without a fault: the forms on show *)

LEMMA NoFault == ASSUME AnswerInv, faults' = 0 PROVE ~Fault
    BY DEF AnswerInv, TypeOK, Fault

LEMMA CalmKept ==
    ASSUME AnswerInv, Calm, UNCHANGED <<turn, question, asking, accepting>>,
           \A r \in Request :
              /\ Open(r)' => Open(r)
              /\ Open(r)' /\ closing["executor"][r].stage = "refusing" => closing'["executor"][r].stage = "refusing"
              /\ Alone(r)' => Alone(r)
              /\ Confirmed(r) => Confirmed(r)'
              /\ card'[r] = "form" => card[r] = "form"
              /\ card'[r] = "form" /\ Replaced(r) => Replaced(r)'
    PROVE  Calm'
<1>1. ASSUME NEW r \in Request PROVE FaultlessOK(r)'
    BY DEF Calm, FaultlessOK, Heeded, Covered, Opened, Awaited, Asking
<1> QED
    BY <1>1 DEF Calm

LEMMA JobEndsCalm == ASSUME AnswerInv, Calm, JobEnds PROVE Calm'
    BY CalmKept DEF JobEnds, executorVars, runtimeVars, Open, Alone, Confirmed, Replaced, Clicked,
       Asking, Has

LEMMA PatchExecutionCalm == ASSUME AnswerInv, Calm, PatchExecution PROVE Calm'
    BY CalmKept DEF PatchExecution, executorVars, runtimeVars, Open, Alone, Confirmed, Replaced,
       Clicked, Asking, Has

LEMMA SubmitCalm ==
    ASSUME AnswerInv, Calm, NEW k \in Click, NEW r \in Request, Submit(k, r)
    PROVE  Calm'
<1>1. Has(k, {"idle"}) /\ \A l \in Click : l # k => click'[l] = click[l]
    BY Typed DEF Submit, Has, AnswerInv
<1>2. UNCHANGED <<turn, question, asking, accepting, native, closing, card, row>>
    BY DEF Submit, executorVars, runtimeVars
<1>3. ASSUME NEW q \in Request, Replaced(q) PROVE Replaced(q)'
  <2>1. Clicked(q) => Clicked(q)'
      BY <1>1, <1>2 DEF Clicked, Has, Confirmed
  <2> QED
      BY <1>2, <1>3, <2>1 DEF Replaced, Asking, Confirmed
<1> QED
    BY <1>2, <1>3, CalmKept DEF Open, Alone, Confirmed

LEMMA ClickCalm ==
    ASSUME AnswerInv, Calm, NEW k \in Click,
           UNCHANGED <<turn, question, asking, accepting, native, closing>>,
           row'.request = row.request /\ row'.card = row.card,
           \A l \in Click : l # k => click'[l] = click[l],
           \A l \in Click : l # k /\ row.by = l /\ row.status = "submitting" => row' = row,
           \A q \in Request : card'[q] = "form" => card[q] = "form",
           \A q \in Request :
              card'[q] = "form" /\ click[k].request = q /\ ~Clicked(q)' =>
                 /\ ~(Has(k, {"finishing"}) /\ Confirmed(q) /\ row.by = k)
                 /\ ~(Has(k, {"patching"}) /\ click[k].seen.request = q /\ click[k].seen.card = "confirmed")
    PROVE  Calm'
<1>1. ASSUME NEW q \in Request, Replaced(q), card'[q] = "form" PROVE Replaced(q)'
  <2>1. ASSUME Clicked(q) PROVE Clicked(q)'
    <3>1. PICK l \in Click :
            /\ click[l].request = q
            /\ \/ Has(l, {"finishing"}) /\ click[l].status = "submitted"
                  /\ Confirmed(q) /\ row.by = l /\ row.status = "submitting"
               \/ Has(l, {"patching"}) /\ click[l].seen.request = q /\ click[l].seen.card = "confirmed"
        BY <2>1 DEF Clicked
    <3>2. CASE l # k
        BY <3>1, <3>2 DEF Clicked, Has, Confirmed
    <3>3. CASE l = k
        BY <1>1, <3>1, <3>3
    <3> QED
        BY <3>2, <3>3
  <2> QED
      BY <1>1, <2>1 DEF Replaced, Asking, Confirmed
<1> QED
    BY <1>1, CalmKept DEF Open, Alone, Confirmed

LEMMA BeginAnswerCalm ==
    ASSUME AnswerInv, Calm, NEW k \in Click, BeginAnswer(k), faults' = 0
    PROVE  Calm'
<1> DEFINE r == click[k].request
<1>1. Has(k, {"checked"})
    BY DEF BeginAnswer, Has
<1>2. row' = row \/ (Answerable(r) /\ row' = AnswerBegun(r, k))
    BY NoFault DEF BeginAnswer, Acknowledged, Unacknowledged, AnswerBegun
<1>3. row'.request = row.request /\ row'.card = row.card /\ (row' = row \/ row.status = "pending")
    BY <1>2, Typed DEF AnswerInv, AnswerBegun, Answerable, Row
<1>4. \A l \in Click : l # k => click'[l] = click[l]
    BY Typed DEF AnswerInv, BeginAnswer, ClickGoes
<1>5. UNCHANGED <<turn, question, asking, accepting, native, closing, card>>
    BY DEF BeginAnswer, executorVars, runtimeVars
<1> QED
    BY <1>1, <1>3, <1>4, <1>5, ClickCalm DEF Has

LEMMA MarkSubmittingCalm ==
    ASSUME AnswerInv, Calm, NEW k \in Click, MarkSubmitting(k)
    PROVE  Calm'
<1>1. Has(k, {"begun"}) /\ \A l \in Click : l # k => click'[l] = click[l]
    BY Typed DEF AnswerInv, MarkSubmitting, ClickGoes, Has
<1>2. UNCHANGED <<turn, question, asking, accepting, native, closing, card, row>>
    BY DEF MarkSubmitting, executorVars
<1> QED
    BY <1>1, <1>2, ClickCalm DEF Has

LEMMA ResolveBeginCalm ==
    ASSUME AnswerInv, Calm, NEW k \in Click, ResolveBegin(k), faults' = 0
    PROVE  Calm'
<1> DEFINE r == click[k].request
<1>1. Has(k, {"doubting"}) /\ r \in Request
    BY DEF AnswerInv, ResolveBegin, ClickOK, Has
<1>2. row' \in {row, Doubted(r, k)}
    BY NoFault DEF ResolveBegin, Acknowledged, Unacknowledged
<1>3. \A l \in Click : l # k => click'[l] = click[l]
    BY Typed DEF AnswerInv, ResolveBegin, ClickGoes
<1>4. UNCHANGED <<turn, question, asking, accepting, native, closing, card>>
    BY DEF ResolveBegin, executorVars
<1>5. row'.request = row.request /\ row'.card = row.card
      /\ (row' = row \/ row.status = "pending" \/ row.by = k)
    BY <1>1, <1>2, DoubtedIs DEF AnswerInv
<1> QED
    BY <1>1, <1>3, <1>4, <1>5, ClickCalm DEF Has

LEMMA ShowsSees ==
    ASSUME TypeOK, NEW k \in Click, NEW m \in Row, Shows(k, m)
    PROVE  click'[k].seen = m
<1>1. PICK t \in Final \cup {"none"} : t = Terminal(m)
    BY DEF Terminal, Final
<1> QED
    BY <1>1, ClickBecomes DEF Shows, ClickStages

LEMMA FinishAnswerCalm ==
    ASSUME AnswerInv, Calm, NEW k \in Click, FinishAnswer(k), faults' = 0
    PROVE  Calm'
<1> DEFINE r == click[k].request
           after == AnswerFinished(r, k, click[k].status)
           m == IF row.request = r /\ row.by = k THEN after ELSE NoRow
<1>1. ClickOK(k) /\ Has(k, {"finishing"}) /\ r \in Request /\ click[k].status \in Final \cup {"none"}
    BY Typed DEF AnswerInv, FinishAnswer, Has, ClickOK, ClickRecord
<1>2. row' = after /\ Shows(k, m)
    BY NoFault DEF FinishAnswer, Acknowledged, Unacknowledged
<1>3. /\ after \in Row /\ m \in Row
      /\ \/ after = row
         \/ /\ Owns(k, r) /\ after.request = r /\ after.by = k
            /\ after.card = row.card /\ after.status = click[k].status
    BY <1>1, FinishedIs, NoRowTyped DEF AnswerInv
<1>4. UNCHANGED <<turn, question, asking, accepting, native, closing, card>>
    BY DEF FinishAnswer, executorVars
<1>5. ClickIs(k, "patching") /\ click'[k].request = r /\ click'[k].seen = m
    BY <1>2, <1>3, ShowsIs, ShowsSees DEF AnswerInv
<1> HIDE DEF after
<1>6. row'.request = row.request /\ row'.card = row.card /\ (row' = row \/ row.by = k)
    BY <1>2, <1>3 DEF Owns
<1>7. ASSUME Confirmed(r), row.by = k PROVE Clicked(r)'
    BY <1>2, <1>5, <1>6, <1>7 DEF Clicked, ClickIs, Has, Confirmed
<1> QED
    BY <1>1, <1>4, <1>5, <1>6, <1>7, ClickCalm DEF ClickIs, Has

LEMMA ReconcileCalm ==
    ASSUME AnswerInv, Calm, NEW k \in Click, Reconcile(k), faults' = 0
    PROVE  Calm'
<1> DEFINE r == click[k].request
<1>1. Has(k, {"reconciling"}) /\ r \in Request
    BY DEF AnswerInv, Reconcile, ClickOK, Has
<1>2. row' \in {row, Doubted(r, k)}
    BY NoFault DEF Reconcile, Acknowledged, Unacknowledged
<1>3. \A l \in Click : l # k => click'[l] = click[l]
    BY Typed DEF AnswerInv, Reconcile, ClickGoes, Shows
<1>4. UNCHANGED <<turn, question, asking, accepting, native, closing, card>>
    BY DEF Reconcile, executorVars
<1>5. row'.request = row.request /\ row'.card = row.card
      /\ (row' = row \/ row.status = "pending" \/ row.by = k)
    BY <1>1, <1>2, DoubtedIs DEF AnswerInv
<1> QED
    BY <1>1, <1>3, <1>4, <1>5, ClickCalm DEF Has

LEMMA ClickPatchesCalm ==
    ASSUME AnswerInv, Calm, NEW k \in Click, ClickPatches(k), faults' = 0
    PROVE  Calm'
<1>1. Has(k, {"patching"}) /\ click[k].status \in Final \cup {"none"} /\ click[k].seen.request \in Request \cup {None}
    BY Typed DEF AnswerInv, ClickPatches, Has, ClickRecord, Row
<1>2. card' = Patched(click[k].seen, click[k].status)
    BY NoFault DEF ClickPatches, Patches
<1>3. \A l \in Click : l # k => click'[l] = click[l]
    BY Typed DEF AnswerInv, ClickPatches, ClickGoes
<1>4. UNCHANGED <<turn, question, asking, accepting, native, closing, row>>
    BY DEF ClickPatches, executorVars, runtimeVars
<1>5. ASSUME NEW q \in Request, card'[q] = "form"
      PROVE  card[q] = "form" /\ ~(click[k].seen.request = q /\ click[k].seen.card = "confirmed")
    BY <1>1, <1>2, <1>5, Typed DEF AnswerInv, Patched, Final
<1> QED
    BY <1>1, <1>3, <1>4, <1>5, ClickCalm DEF Has

LEMMA NoShutdown ==
    ASSUME AnswerInv, Calm, NEW r \in Request, NEW c \in Callers, closing[c][r].stage # "none"
    PROVE  c = "executor"
    BY DEF AnswerInv, Calm, QuestionOK, Callers

\* A step of an expiry, which is under way before it.
LEMMA ExpiryCalm ==
    ASSUME AnswerInv, Calm, NEW r \in Request, NEW s \in {"reading", "storing", "patching", "done"},
           ClosingIs(r, "executor", s), closing["executor"][r].stage \in Underway,
           UNCHANGED <<turn, question, asking, accepting, click>>,
           \A q \in Request : (q # r => native'[q] = native[q]) /\ (Open(q)' => Open(q)),
           native[r] = "resolved" <=> native'[r] = "resolved",
           closing["executor"][r].stage = "refusing" => ~Open(r)',
           row'.request = row.request /\ row'.card = row.card,
           row' = row \/ (row.request = r /\ closing["executor"][r].stage = "storing"),
           \A q \in Request : card'[q] = "form" => card[q] = "form",
           card'[r] = "form" /\ closing["executor"][r].stage \in {"refusing", "reading", "storing"} /\ Confirmed(r) =>
              \/ s \in {"reading", "storing"}
              \/ s = "patching" /\ closing'["executor"][r].seen.request = r
                    /\ closing'["executor"][r].seen.card = "confirmed",
           closing["executor"][r].stage = "patching" =>
              s = "done" /\ (card'[r] = "form" => closing["executor"][r].seen.request # r
                                                     \/ closing["executor"][r].seen.card # "confirmed")
    PROVE  Calm'
<1>1. closing' \in [Callers -> [Request -> ClosingRecord]] /\ closing'["executor"][r].stage = s
      /\ \A q \in Request : q # r => closing'["executor"][q] = closing["executor"][q]
    BY DEF ClosingIs, Callers
<1>2. ASSUME NEW q \in Request, Replaced(q), card'[q] = "form" PROVE Replaced(q)'
  <2>1. CASE q = r
    <3>1. CASE closing["executor"][r].stage \in {"refusing", "reading", "storing"} /\ Confirmed(r)
        BY <1>1, <1>2, <2>1, <3>1 DEF Replaced, Confirmed
    <3>2. CASE ~Confirmed(r)
        BY <1>1, <1>2, <2>1, <3>2 DEF Replaced, Confirmed, Clicked, Asking, Has
    <3>3. CASE Confirmed(r) /\ closing["executor"][r].stage = "patching"
        BY <1>1, <1>2, <2>1, <3>3 DEF Replaced, Confirmed, Clicked, Asking, Has
    <3> QED
        BY <3>1, <3>2, <3>3 DEF Underway
  <2>2. CASE q # r
    <3>1. Clicked(q) => Clicked(q)'
        BY <2>2 DEF Clicked, Has, Confirmed
    <3> QED
        BY <1>1, <1>2, <2>2, <3>1 DEF Replaced, Confirmed, Asking
  <2> QED
      BY <2>1, <2>2
<1>3. ASSUME NEW q \in Request
      PROVE  /\ Open(q)' /\ closing["executor"][q].stage = "refusing" => closing'["executor"][q].stage = "refusing"
             /\ Alone(q)' => Alone(q)
             /\ Confirmed(q) => Confirmed(q)'
    BY <1>1 DEF Alone, Confirmed
<1> QED
    BY <1>2, <1>3, CalmKept

LEMMA RefuseCalm ==
    ASSUME AnswerInv, Calm, NEW r \in Request, Refuse(r)
    PROVE  Calm'
<1>1. ClosingIs(r, "executor", "reading") /\ closing["executor"][r].stage = "refusing"
    BY ClosingGoesIs DEF AnswerInv, Refuse, Callers, ClosingStages
<1>2. UNCHANGED <<turn, question, asking, accepting, click, row, card>>
    BY DEF Refuse, executorVars
<1>3. /\ \A q \in Request : (q # r => native'[q] = native[q]) /\ (Open(q)' => Open(q))
      /\ (native[r] = "resolved" <=> native'[r] = "resolved") /\ ~Open(r)'
    BY Typed DEF AnswerInv, Refuse, Refused, Open
<1> QED
    BY <1>1, <1>2, <1>3, ExpiryCalm DEF Underway

LEMMA CloseReadsCalm ==
    ASSUME AnswerInv, Calm, NEW r \in Request, NEW c \in Callers, CloseReads(r, c), faults' = 0
    PROVE  Calm'
<1>1. c = "executor" /\ closing["executor"][r].stage = "reading"
    BY NoShutdown DEF CloseReads
<1>2. ClosingIs(r, "executor", "storing")
    BY <1>1, NoFault, ClosingBecomes, Typed DEF AnswerInv, CloseReads, ClosingStages, Callers
<1>3. UNCHANGED <<turn, question, asking, accepting, click, row, card, native>>
    BY DEF CloseReads, executorVars
<1> QED
    BY <1>1, <1>2, <1>3, ExpiryCalm DEF Underway, Open

LEMMA CloseStoresCalm ==
    ASSUME AnswerInv, Calm, NEW r \in Request, NEW c \in Callers, CloseStores(r, c), faults' = 0
    PROVE  Calm'
<1>1. c = "executor" /\ closing["executor"][r].stage = "storing"
    BY NoShutdown DEF CloseStores
<1>2. row' = Expired(r) /\ row' \in Row
    BY NoFault, ExpiredIs DEF AnswerInv, CloseStores, Acknowledged, Unacknowledged
<1>3. row'.request = row.request /\ row'.card = row.card /\ (row' = row \/ row.request = r)
    BY <1>2, ExpiredIs DEF AnswerInv
<1>4. PICK m \in Row : m = IF row.request = r THEN row' ELSE closing["executor"][r].seen
    BY <1>2, Typed DEF AnswerInv, Callers, ClosingRecord
<1>5. closing' = [closing EXCEPT !["executor"][r] = [stage |-> "patching", seen |-> m]]
    BY <1>1, <1>4, NoFault DEF CloseStores, Unacknowledged
<1>6. ClosingIs(r, "executor", "patching") /\ closing'["executor"][r].seen = m
    BY <1>5, ClosingBecomes DEF AnswerInv, ClosingStages, Callers
<1>7. UNCHANGED <<turn, question, asking, accepting, click, card, native>>
    BY DEF CloseStores, executorVars
<1>8. Confirmed(r) => m.request = r /\ m.card = "confirmed"
    BY <1>3, <1>4 DEF Confirmed
<1> QED
    BY <1>1, <1>3, <1>6, <1>7, <1>8, ExpiryCalm DEF Underway, Open

LEMMA ClosePatchesCalm ==
    ASSUME AnswerInv, Calm, NEW r \in Request, NEW c \in Callers, ClosePatches(r, c), faults' = 0
    PROVE  Calm'
<1>1. c = "executor" /\ closing["executor"][r].stage = "patching"
    BY NoShutdown DEF ClosePatches
<1>2. ClosingIs(r, "executor", "done")
    BY <1>1, ClosingGoesIs DEF AnswerInv, ClosePatches, ClosingStages, Callers
<1>3. card' = Patched(closing["executor"][r].seen, "expired")
    BY <1>1, NoFault DEF ClosePatches, Patches
<1>4. ASSUME NEW q \in Request, card'[q] = "form"
      PROVE  card[q] = "form" /\ ~(closing["executor"][r].seen.request = q
                                     /\ closing["executor"][r].seen.card = "confirmed")
    BY <1>3, <1>4, Typed DEF AnswerInv, Patched
<1>5. UNCHANGED <<turn, question, asking, accepting, click, row, native>>
    BY DEF ClosePatches, executorVars
<1> QED
    BY <1>1, <1>2, <1>4, <1>5, ExpiryCalm DEF Underway, Open

----------------------------------------------------------------------------
(* Without a fault: the steps of the questions *)

LEMMA InTurn ==
    ASSUME AnswerInv, NEW r \in Request, ~Ended(r), ~Asking(r, {"queued"})
    PROVE  \A q \in Request : q # r => Asking(q, {"none", "queued"}) \/ Ended(q)
<1>1. ~Asking(r, {"none", "queued"})
    BY DEF Ended, Asking
<1>2. ASSUME NEW q \in Request, q < r PROVE Ended(q)
    BY <1>1, <1>2 DEF AnswerInv, OneAtATime
<1>3. ASSUME NEW q \in Request, r < q PROVE Asking(q, {"none", "queued"})
    BY <1>3 DEF AnswerInv, OneAtATime
<1>4. \A q \in Request : q # r => q < r \/ r < q
    BY RequestAssumption
<1> QED
    BY <1>2, <1>3, <1>4

LEMMA ClickedKept ==
    ASSUME NEW r \in Request, UNCHANGED <<click, row>>
    PROVE  Clicked(r) <=> Clicked(r)'
    BY DEF Clicked, Has, Confirmed

LEMMA AskCalm ==
    ASSUME AnswerInv, Calm, NEW r \in Request, Ask(r)
    PROVE  Calm'
<1>1. AskingIs(r, "queued") /\ Asking(r, {"none"}) /\ ~Dead(r)
    BY AskingGoesIs DEF AnswerInv, Ask, AskingStages, QuestionOK, Asking, Early
<1>2. UNCHANGED <<turn, question, closing, accepting, row, card, click>>
    BY DEF Ask, executorVars, runtimeVars
<1>3. (\A q \in Request : q # r => native'[q] = native[q]) /\ native'[r] = "open" /\ native[r] = "none"
    BY Typed DEF AnswerInv, Ask
<1>4. ASSUME NEW q \in Request PROVE FaultlessOK(q)'
  <2>1. FaultlessOK(q) /\ (Clicked(q) <=> Clicked(q)')
      BY <1>2, ClickedKept DEF Calm
  <2>2. Heeded(q)'
      BY <1>1, <1>2, <1>3, <2>1 DEF FaultlessOK, Heeded, AskingIs, Asking, Open
  <2>3. Covered(q)' /\ Opened(q)'
      BY <1>1, <1>2, <1>3, <2>1 DEF FaultlessOK, Covered, Opened, Replaced, AskingIs, Asking, Early,
         Opening, Retired, Confirmed
  <2>4. Awaited(q)'
    <3>1. Alone(q) <=> Alone(q)'
        BY <1>1, <1>2, <1>3 DEF Alone, Dead, Underway
    <3> QED
        BY <1>1, <1>2, <2>1, <3>1 DEF FaultlessOK, Awaited, AskingIs, Asking
  <2> QED
      BY <2>2, <2>3, <2>4 DEF FaultlessOK
<1> QED
    BY <1>2, <1>4 DEF Calm

LEMMA TurnSettlesCalm == ASSUME AnswerInv, Calm, TurnSettles PROVE Calm'
<1>1. UNCHANGED <<question, native, asking, closing, accepting, row, card, click>> /\ turn' = "settled"
    BY DEF TurnSettles, runtimeVars
<1>2. ASSUME NEW q \in Request PROVE FaultlessOK(q)'
  <2>1. FaultlessOK(q) /\ (Clicked(q) <=> Clicked(q)')
      BY <1>1, ClickedKept DEF Calm
  <2>2. Heeded(q)' /\ Covered(q)' /\ Opened(q)'
      BY <1>1, <2>1 DEF FaultlessOK, Heeded, Covered, Opened, Replaced, Asking, Confirmed, Open
  <2>3. Awaited(q)'
      BY <1>1, <2>1 DEF FaultlessOK, Awaited, Alone, Asking
  <2> QED
      BY <2>2, <2>3 DEF FaultlessOK
<1> QED
    BY <1>1, <1>2 DEF Calm

\* The form of the pending question is confirmed, or on its way to be.
LEMMA PendingForm ==
    ASSUME AnswerInv, Calm, NEW r \in Request, question = r, card[r] = "form"
    PROVE  Asking(r, {"posted"}) \/ Confirmed(r)
    BY DEF AnswerInv, Calm, QuestionOK, FaultlessOK, Opened, Asking, Early, Opening, Retired,
       TypeOK, AskingStages

LEMMA NativeResolvesCalm ==
    ASSUME AnswerInv, Calm, NEW r \in Request, NativeResolves(r)
    PROVE  Calm'
<1>1. \/ question = r /\ ExpiryIs(r, "reading")
      \/ question # r /\ NoExpiry
    BY ExpiresIs DEF AnswerInv, NativeResolves, ClosingStages, NoExpiry
<1>2. UNCHANGED <<turn, asking, accepting, row, card, click>>
    BY DEF NativeResolves
<1>3. (\A q \in Request : q # r => native'[q] = native[q]) /\ native'[r] = "resolved"
    BY Typed DEF AnswerInv, NativeResolves
<1>4. ASSUME NEW q \in Request PROVE FaultlessOK(q)'
  <2>1. FaultlessOK(q) /\ (Clicked(q) <=> Clicked(q)')
      BY <1>2, ClickedKept DEF Calm
  <2>2. Heeded(q)'
      BY <1>1, <1>2, <1>3, <2>1 DEF FaultlessOK, Heeded, Asking, Open, ExpiryIs, ClosingIs,
         NoExpiry, Callers
  <2>3. Covered(q)'
      BY <1>1, <1>2, <1>3, <2>1, PendingForm DEF FaultlessOK, Covered, Replaced, Asking, Confirmed,
         ExpiryIs, ClosingIs, NoExpiry, Callers
  <2>4. Opened(q)'
      BY <1>1, <1>2, <2>1, Typed DEF AnswerInv, FaultlessOK, Opened, Asking, Confirmed, ExpiryIs,
         NoExpiry
  <2>5. Awaited(q)'
    <3>1. Alone(q)' => Alone(q)
        BY <1>1, <1>3 DEF Alone, ExpiryIs, ClosingIs, NoExpiry, Callers
    <3> QED
        BY <1>2, <2>1, <3>1 DEF FaultlessOK, Awaited, Asking
  <2> QED
      BY <2>2, <2>3, <2>4, <2>5 DEF FaultlessOK
<1> QED
    BY <1>2, <1>4 DEF Calm

LEMMA TurnFinishesCalm == ASSUME AnswerInv, Calm, TurnFinishes PROVE Calm'
<1>1. \/ question = None /\ NoExpiry
      \/ \E p \in Request : question = p /\ ExpiryIs(p, "refusing")
    BY ExpiresIs, Typed DEF AnswerInv, TurnFinishes, ExpiresAny, ClosingStages, NoExpiry
<1>2. UNCHANGED <<native, asking, accepting, row, card, click>> /\ turn' = "finished"
    BY DEF TurnFinishes
<1>3. ASSUME NEW q \in Request PROVE FaultlessOK(q)'
  <2>1. FaultlessOK(q) /\ (Clicked(q) <=> Clicked(q)')
      BY <1>2, ClickedKept DEF Calm
  <2>2. CASE NoExpiry
      BY <1>2, <2>1, <2>2 DEF FaultlessOK, Heeded, Covered, Opened, Awaited, Replaced, Asking,
         Confirmed, Alone, Open, NoExpiry
  <2>3. ASSUME NEW p \in Request, question = p, ExpiryIs(p, "refusing") PROVE FaultlessOK(q)'
    <3>1. Heeded(q)'
        BY <1>2, <2>1, <2>3 DEF FaultlessOK, Heeded, Asking, Open, ExpiryIs, ClosingIs, Callers
    <3>2. Covered(q)'
        BY <1>2, <2>1, <2>3, PendingForm DEF FaultlessOK, Covered, Replaced, Asking, Confirmed,
           ExpiryIs, ClosingIs, Callers
    <3>3. Opened(q)'
        BY <1>2, <2>1, <2>3, Typed DEF AnswerInv, FaultlessOK, Opened, Asking, Confirmed, ExpiryIs
    <3>4. Awaited(q)'
      <4>1. Alone(q)' => Alone(q) \/ q = p
          BY <1>2, <2>3 DEF Alone, ExpiryIs, ClosingIs, Callers
      <4>2. ASSUME NEW x \in Request PROVE ~Asking(x, {"superseding"})
          BY <2>3, Typed DEF AnswerInv, QuestionOK, Asking
      <4>3. ASSUME NEW x \in Request, x # p PROVE ~Asking(x, {"storing"})
          BY <2>3, <4>3, Typed DEF AnswerInv, Calm, FaultlessOK, Opened, Asking, Opening
      <4> QED
          BY <1>2, <2>1, <4>1, <4>2, <4>3 DEF FaultlessOK, Awaited, Asking
    <3> QED
        BY <3>1, <3>2, <3>3, <3>4 DEF FaultlessOK
  <2> QED
      BY <1>1, <2>2, <2>3
<1> QED
    BY <1>2, <1>3 DEF Calm

LEMMA StartCalm ==
    ASSUME AnswerInv, Calm, NEW r \in Request, Start(r)
    PROVE  Calm'
<1>1. Asking(r, {"queued"}) /\ r \notin cancelled /\ question # r /\ ~Dead(r)
    BY DEF AnswerInv, Start, QuestionOK, Asking, Early
<1>2. \A q \in Request : q # r => Asking(q, {"none", "queued"}) \/ Ended(q)
  <2>1. \A q \in Request : q < r => Ended(q)
      BY DEF Start
  <2>2. ASSUME NEW q \in Request, r < q PROVE Asking(q, {"none", "queued"})
      BY <1>1, <2>2 DEF AnswerInv, OneAtATime, Ended, Asking
  <2>3. \A q \in Request : q # r => q < r \/ r < q
      BY RequestAssumption
  <2> QED
      BY <2>1, <2>2, <2>3
<1>3. UNCHANGED <<turn, accepting, row, card, click>>
    BY DEF Start
<1>4. ASSUME turn = "running", NEW q \in Request PROVE ~Alone(q)
  <2>1. \A x \in Request : ~Asking(x, {"superseding"})
      BY <1>1, <1>2 DEF Ended, Asking
  <2>2. Asking(q, {"failing"}) => closing["executor"][q].stage = "done"
      BY <1>1, <1>2 DEF Ended, Asking
  <2> QED
      BY <1>4, <2>1, <2>2 DEF Calm, FaultlessOK, Awaited, Alone, Underway
<1>5. ASSUME NEW q \in Request PROVE FaultlessOK(q) /\ (Clicked(q) <=> Clicked(q)')
    BY <1>3, ClickedKept DEF Calm
<1>6. CASE Turned(r) /\ native' = Refused(r) /\ AskingGoes(r, "ended") /\ UNCHANGED <<question, cancelled, closing>>
  <2>1. AskingIs(r, "ended")
      BY <1>6, AskingGoesIs DEF AnswerInv, AskingStages
  <2>2. /\ \A q \in Request : (q # r => native'[q] = native[q]) /\ (Open(q)' => Open(q))
        /\ ~Open(r)' /\ (native[r] = "resolved" <=> native'[r] = "resolved")
      BY <1>6, Typed DEF AnswerInv, Refused, Open
  <2>3. ASSUME NEW q \in Request PROVE FaultlessOK(q)'
    <3>1. Heeded(q)' /\ Covered(q)'
        BY <1>1, <1>3, <1>5, <1>6, <2>1, <2>2 DEF FaultlessOK, Heeded, Covered, Replaced, AskingIs,
           Asking, Confirmed, Retired
    <3>2. Opened(q)'
        BY <1>1, <1>3, <1>5, <1>6, <2>1 DEF FaultlessOK, Opened, AskingIs, Asking, Confirmed, Early,
           Opening, Retired
    <3>3. Alone(q)' <=> Alone(q)
        BY <1>6, <2>2 DEF Alone
    <3>4. Awaited(q)'
        BY <1>1, <1>3, <1>5, <2>1, <3>3 DEF FaultlessOK, Awaited, AskingIs, Asking
    <3> QED
        BY <3>1, <3>2, <3>4 DEF FaultlessOK
  <2> QED
      BY <1>3, <2>3 DEF Calm
<1>7. CASE ~Turned(r) /\ question = None /\ Poses(r) /\ UNCHANGED native
  <2>1. question' = r /\ AskingIs(r, "storing") /\ UNCHANGED <<cancelled, closing>>
      BY <1>7, PosesIs DEF AnswerInv, Calm
  <2>2. ASSUME NEW q \in Request PROVE FaultlessOK(q)'
    <3>1. Heeded(q)' /\ Covered(q)'
        BY <1>1, <1>3, <1>5, <1>7, <2>1, Typed DEF AnswerInv, FaultlessOK, Heeded, Covered,
           Replaced, AskingIs, Asking, Confirmed, Retired, Open
    <3>2. Opened(q)'
        BY <1>1, <1>2, <1>3, <1>5, <1>7, <2>1, Typed DEF AnswerInv, FaultlessOK, Opened, AskingIs,
           Asking, Confirmed, Early, Opening, Retired, Ended
    <3>3. ~Alone(q)'
        BY <1>4, <1>7, <2>1 DEF Alone, Turned
    <3>4. Awaited(q)'
        BY <3>3 DEF Awaited
    <3> QED
        BY <3>1, <3>2, <3>4 DEF FaultlessOK
  <2> QED
      BY <1>3, <2>2 DEF Calm
<1>8. CASE /\ ~Turned(r) /\ question # None /\ Expires(question, "refusing") /\ UNCHANGED native
           /\ asking' = [asking EXCEPT ![r] = [stage |-> "superseding", after |-> question]]
  <2>1. PICK p \in Request : p = question
      BY <1>8, Typed DEF AnswerInv
  <2>2. ExpiryIs(p, "refusing")
      BY <1>8, <2>1, ExpiresIs DEF AnswerInv, ClosingStages
  <2>3. /\ \A q \in Request : q # r => asking'[q] = asking[q]
        /\ asking'[r].stage = "superseding" /\ asking'[r].after = p
      BY <1>8, <2>1, Typed DEF AnswerInv
  <2>4. Confirmed(p) /\ p # r
      BY <1>1, <1>2, <1>5, <2>1 DEF AnswerInv, QuestionOK, FaultlessOK, Opened, Ended, Asking, Early
  <2>5. ASSUME NEW q \in Request PROVE FaultlessOK(q)'
    <3>1. Heeded(q)'
        BY <1>1, <1>3, <1>5, <1>8, <2>1, <2>2, <2>3, <2>4 DEF FaultlessOK, Heeded, Asking, Open,
           ExpiryIs, ClosingIs, Callers
    <3>2. Covered(q)'
        BY <1>1, <1>3, <1>5, <1>8, <2>1, <2>2, <2>3, <2>4 DEF FaultlessOK, Covered, Replaced,
           Asking, Confirmed, ExpiryIs, ClosingIs, Callers, Retired
    <3>3. Opened(q)'
        BY <1>1, <1>3, <1>5, <2>2, <2>3, Typed DEF AnswerInv, FaultlessOK, Opened, Asking,
           Confirmed, ExpiryIs, Early, Opening, Retired
    <3>4. Alone(q)' => q = p
        BY <1>4, <1>8, <2>2 DEF Alone, Turned, ExpiryIs, ClosingIs, Callers
    <3>5. ASSUME NEW x \in Request
          PROVE  (Asking(x, {"superseding"})' => x = r) /\ ~Asking(x, {"storing"})'
        BY <1>2, <2>3 DEF Asking, Ended
    <3>6. Awaited(q)'
        BY <2>3, <3>4, <3>5 DEF Awaited, Asking
    <3> QED
        BY <3>1, <3>2, <3>3, <3>6 DEF FaultlessOK
  <2> QED
      BY <1>3, <2>5 DEF Calm
<1> QED
    BY <1>6, <1>7, <1>8 DEF Start

LEMMA SupersededCalm ==
    ASSUME AnswerInv, Calm, NEW r \in Request, Superseded(r)
    PROVE  Calm'
<1>1. /\ Asking(r, {"superseding"}) /\ question = None /\ asking[r].after \in Request
      /\ closing["executor"][asking[r].after].stage = "done"
    BY DEF AnswerInv, Superseded, QuestionOK, Asking
<1>2. \A q \in Request : q # r => Asking(q, {"none", "queued"}) \/ Ended(q)
    BY <1>1, InTurn DEF Ended, Asking
<1>3. UNCHANGED <<turn, native, accepting, row, card, click>>
    BY DEF Superseded
<1>4. ASSUME NEW q \in Request PROVE FaultlessOK(q) /\ (Clicked(q) <=> Clicked(q)') /\ ~Alone(q)
  <2>1. FaultlessOK(q) /\ (Clicked(q) <=> Clicked(q)')
      BY <1>3, ClickedKept DEF Calm
  <2> QED
      BY <1>1, <2>1 DEF FaultlessOK, Awaited, Alone, Underway
<1>5. \/ native[r] = "resolved" /\ AskingIs(r, "ended") /\ UNCHANGED <<question, closing>>
      \/ question' = r /\ AskingIs(r, "storing") /\ UNCHANGED closing
    BY AskingGoesIs, PosesIs DEF AnswerInv, Calm, Superseded, AskingStages
<1>6. ASSUME NEW q \in Request PROVE FaultlessOK(q)'
  <2>1. Heeded(q)' /\ Covered(q)'
      BY <1>1, <1>3, <1>4, <1>5, Typed DEF AnswerInv, FaultlessOK, Heeded, Covered, Replaced,
         AskingIs, Asking, Confirmed, Retired, Open
  <2>2. Opened(q)'
      BY <1>1, <1>2, <1>3, <1>4, <1>5, Typed DEF AnswerInv, FaultlessOK, Opened, AskingIs, Asking,
         Confirmed, Early, Opening, Retired, Ended
  <2>3. Awaited(q)'
      BY <1>3, <1>4, <1>5 DEF Awaited, Alone
  <2> QED
      BY <2>1, <2>2, <2>3 DEF FaultlessOK
<1> QED
    BY <1>3, <1>6 DEF Calm

LEMMA StoreCalm ==
    ASSUME AnswerInv, Calm, NEW r \in Request, Store(r), faults' = 0
    PROVE  Calm'
<1>1. Asking(r, {"storing"}) /\ (question = r \/ Dead(r)) /\ (r \in cancelled => Dead(r))
    BY DEF AnswerInv, Store, QuestionOK, Asking, Opening
<1>2. \A q \in Request : q # r => Asking(q, {"none", "queued"}) \/ Ended(q)
    BY <1>1, InTurn DEF Ended, Asking
<1>3. UNCHANGED <<turn, native, accepting, card, click>>
    BY DEF Store
<1>4. row' = Begun(r)
    BY NoFault DEF Store, Acknowledged, Unacknowledged
<1>5. \/ r \in cancelled /\ NoExpiry /\ AskingIs(r, "retiring")
      \/ r \notin cancelled /\ NoExpiry /\ AskingIs(r, "posting")
      \/ question = r /\ ExpiryIs(r, "refusing") /\ AskingIs(r, "failing")
    BY <1>1, NoFault, AskingGoesIs, AskFailsIs DEF AnswerInv, Store, Acknowledged, Unacknowledged,
       AskingStages, NoExpiry, QuestionOK
<1>6. ASSUME NEW q \in Request, q # r
      PROVE  ~Alone(q) /\ question # q /\ Asking(q, {"none", "queued", "ended", "failing"})
             /\ ~Asking(q, {"superseding"})
  <2>1. question \in {r, None} /\ ~Alone(q) /\ q # None
      BY <1>1, <1>6, Typed DEF AnswerInv, Calm, FaultlessOK, Opened, Awaited, Asking, Opening
  <2> QED
      BY <1>2, <1>6, <2>1 DEF Ended, Asking
<1>7. ASSUME NEW q \in Request PROVE FaultlessOK(q)'
  <2>1. FaultlessOK(q) /\ QuestionOK(q)
      BY DEF AnswerInv, Calm
  <2>2. CASE q = r
    <3>1. card'[r] # "form"
        BY <1>1, <1>3, <2>1, <2>2 DEF FaultlessOK, Opened, Asking
    <3>2. Heeded(r)'
        BY <1>1, <1>3, <1>5, <2>1, <2>2 DEF FaultlessOK, Heeded, AskingIs, Asking, Open, NoExpiry,
           ExpiryIs, ClosingIs, Callers
    <3>3. Opened(r)' /\ Covered(r)'
        BY <1>1, <1>5, <2>1, <2>2, <3>1 DEF FaultlessOK, Opened, Covered, AskingIs, Asking,
           NoExpiry, ExpiryIs, Early, Opening, Retired
    <3>4. Alone(r)' => Asking(r, {"failing"})' \/ turn' # "running"
      <4>1. CASE ExpiryIs(r, "refusing") /\ AskingIs(r, "failing")
          BY <4>1 DEF AskingIs, Asking
      <4>2. CASE NoExpiry
        <5>1. \A x \in Request : ~Asking(x, {"superseding"})
            BY <1>1, <1>6 DEF Asking
        <5> QED
            BY <1>1, <1>3, <2>1, <2>2, <4>2, <5>1 DEF FaultlessOK, Awaited, Alone, Asking, NoExpiry
      <4> QED
          BY <1>5, <4>1, <4>2
    <3>5. ASSUME NEW x \in Request PROVE ~Asking(x, {"superseding"})' /\ ~Asking(x, {"storing"})'
        BY <1>1, <1>5, <1>6 DEF AskingIs, Asking
    <3>6. Awaited(r)'
        BY <3>4, <3>5 DEF Awaited
    <3> QED
        BY <2>2, <3>2, <3>3, <3>6 DEF FaultlessOK
  <2>3. CASE q # r
    <3>1. closing'["executor"][q] = closing["executor"][q] /\ asking'[q].stage = asking[q].stage /\ question' # q
        BY <1>5, <1>6, <2>3, Typed DEF AnswerInv, NoExpiry, ExpiryIs, ClosingIs, AskingIs, Callers
    <3>3. ASSUME Clicked(q) PROVE Clicked(q)'
      <4>1. row' = row \/ row.status # "submitting"
          BY <1>4 DEF Begun, Accepts, Blocked
      <4> QED
          BY <1>3, <3>3, <4>1 DEF Clicked, Has, Confirmed
    <3>4. Confirmed(q) => Confirmed(q)' \/ row'.request # q
        BY <1>4, <2>3 DEF Confirmed, Begun
    <3>5. row.request # q => row'.request # q
        BY <1>4, <2>3 DEF Begun
    <3>6. Covered(q)'
        BY <1>3, <1>6, <2>1, <2>3, <3>1, <3>3, <3>4, <3>5 DEF FaultlessOK, Covered, Replaced,
           Asking, Retired, Alone, Underway
    <3>7. Heeded(q)' /\ Opened(q)' /\ Awaited(q)'
        BY <1>3, <1>6, <2>1, <2>3, <3>1 DEF FaultlessOK, Heeded, Opened, Awaited, Alone, Asking,
           Open, Opening, Retired, Early
    <3> QED
        BY <3>6, <3>7 DEF FaultlessOK
  <2> QED
      BY <2>2, <2>3
<1> QED
    BY <1>3, <1>7 DEF Calm

LEMMA PostCalm ==
    ASSUME AnswerInv, Calm, NEW r \in Request, Post(r), faults' = 0
    PROVE  Calm'
<1>1. Asking(r, {"posting"}) /\ AskingIs(r, "posted")
    BY NoFault, AskingGoesIs DEF AnswerInv, Post, Asking, AskingStages
<1>2. UNCHANGED <<turn, question, native, closing, accepting, row, click>>
    BY DEF Post, executorVars, runtimeVars
<1>3. \A q \in Request : q # r => card'[q] = card[q]
    BY NoFault, Typed DEF AnswerInv, Post
<1>4. ASSUME NEW q \in Request PROVE FaultlessOK(q)'
  <2>1. FaultlessOK(q) /\ (Clicked(q) <=> Clicked(q)')
      BY <1>2, ClickedKept DEF Calm
  <2>2. Heeded(q)' /\ Covered(q)'
      BY <1>1, <1>2, <1>3, <2>1 DEF FaultlessOK, Heeded, Covered, Replaced, AskingIs, Asking, Open,
         Confirmed, Retired
  <2>3. Opened(q)'
      BY <1>1, <1>2, <1>3, <2>1 DEF FaultlessOK, Opened, AskingIs, Asking, Confirmed, Early,
         Opening, Retired
  <2>4. Awaited(q)'
      BY <1>1, <1>2, <2>1 DEF FaultlessOK, Awaited, Alone, AskingIs, Asking
  <2> QED
      BY <2>2, <2>3, <2>4 DEF FaultlessOK
<1> QED
    BY <1>2, <1>4 DEF Calm

LEMMA ConfirmCalm ==
    ASSUME AnswerInv, Calm, NEW r \in Request, Confirm(r), faults' = 0
    PROVE  Calm'
<1>1. Asking(r, {"posted"}) /\ (question = r \/ Dead(r)) /\ row.request = r /\ row.card = "intent"
      /\ (Dead(r) => r \in cancelled)
    BY DEF AnswerInv, Confirm, QuestionOK, Asking, Opening
<1>2. row' = CardFinished(r, "confirmed")
    BY NoFault DEF Confirm, Acknowledged, Unacknowledged
<1>3. Confirmed(r)' /\ row'.by = row.by /\ row'.status = row.status
    BY <1>1, <1>2, Typed DEF AnswerInv, CardFinished, Row, Confirmed
<1>4. UNCHANGED <<turn, question, native, closing, accepting, card, click>>
    BY NoFault DEF Confirm, Unacknowledged
<1>5. \/ AskingIs(r, "retiring")
      \/ AskingIs(r, "ended") /\ r \notin cancelled
    BY NoFault, AskingGoesIs DEF AnswerInv, Confirm, Unacknowledged, AskingStages
<1>6. ASSUME NEW q \in Request PROVE FaultlessOK(q)'
  <2>1. FaultlessOK(q)
      BY DEF Calm
  <2>2. Clicked(q) => Clicked(q)'
      BY <1>1, <1>4 DEF Clicked, Has, Confirmed
  <2>3. Heeded(q)'
      BY <1>1, <1>4, <1>5, <2>1 DEF FaultlessOK, Heeded, AskingIs, Asking, Open
  <2>4. Covered(q)'
      BY <1>1, <1>3, <1>4, <1>5, <2>1, <2>2 DEF FaultlessOK, Covered, Replaced, AskingIs, Asking,
         Confirmed, Retired
  <2>5. Opened(q)'
      BY <1>1, <1>3, <1>4, <1>5, <2>1 DEF FaultlessOK, Opened, AskingIs, Asking, Confirmed, Early,
         Opening, Retired
  <2>6. Awaited(q)'
      BY <1>1, <1>4, <1>5, <2>1 DEF FaultlessOK, Awaited, Alone, AskingIs, Asking
  <2> QED
      BY <2>3, <2>4, <2>5, <2>6 DEF FaultlessOK
<1> QED
    BY <1>4, <1>6 DEF Calm

LEMMA RetireCalm ==
    ASSUME AnswerInv, Calm, NEW r \in Request, Retire(r), faults' = 0
    PROVE  Calm'
<1>1. Asking(r, {"retiring"}) /\ AskingIs(r, "marking")
    BY AskingGoesIs DEF AnswerInv, Retire, Asking, AskingStages
<1>2. UNCHANGED <<turn, question, native, closing, accepting, card, click>>
    BY DEF Retire, executorVars, runtimeVars
<1>3. row' \in {row, Expired(r)}
    BY NoFault DEF Retire, Acknowledged, Unacknowledged
<1>4. row'.request = row.request /\ row'.card = row.card /\ (row' = row \/ row.request = r)
    BY <1>3, ExpiredIs DEF AnswerInv
<1>5. ASSUME NEW q \in Request PROVE FaultlessOK(q)'
  <2>1. FaultlessOK(q)
      BY DEF Calm
  <2>2. Clicked(q) => Clicked(q)' \/ Confirmed(r)
      BY <1>2, <1>4 DEF Clicked, Has, Confirmed
  <2>3. q # r /\ Clicked(q) => Clicked(q)'
      BY <1>2, <1>4 DEF Clicked, Has, Confirmed
  <2>4. Heeded(q)' /\ Covered(q)'
      BY <1>1, <1>2, <1>4, <2>1, <2>2, <2>3 DEF FaultlessOK, Heeded, Covered, Replaced, AskingIs,
         Asking, Open, Confirmed, Retired
  <2>5. Opened(q)'
      BY <1>1, <1>2, <1>4, <2>1 DEF FaultlessOK, Opened, AskingIs, Asking, Confirmed, Early,
         Opening, Retired
  <2>6. Awaited(q)'
      BY <1>1, <1>2, <2>1 DEF FaultlessOK, Awaited, Alone, AskingIs, Asking
  <2> QED
      BY <2>4, <2>5, <2>6 DEF FaultlessOK
<1> QED
    BY <1>2, <1>5 DEF Calm

LEMMA MarkCalm ==
    ASSUME AnswerInv, Calm, NEW r \in Request, Mark(r), faults' = 0
    PROVE  Calm'
<1>1. Asking(r, {"marking"}) /\ Dead(r) /\ question # r
    BY DEF AnswerInv, Mark, QuestionOK, Asking, Retired
<1>2. NoExpiry /\ AskingIs(r, "ended")
    BY <1>1, AskFailsIs DEF AnswerInv, Mark
<1>3. UNCHANGED <<turn, native, accepting, row, click>>
    BY DEF Mark
<1>4. card' = Patched(IF row.request = r THEN row ELSE NoRow, "expired")
    BY NoFault DEF Mark, Patches
<1>5. /\ \A q \in Request : card'[q] = "form" => card[q] = "form"
      /\ card'[r] = "form" => ~Confirmed(r)
    BY <1>4, Typed DEF AnswerInv, Patched, NoRow, Confirmed, Row
<1>6. ASSUME NEW q \in Request PROVE FaultlessOK(q)'
  <2>1. FaultlessOK(q) /\ (Clicked(q) <=> Clicked(q)')
      BY <1>3, ClickedKept DEF Calm
  <2>2. Heeded(q)' /\ Covered(q)'
      BY <1>1, <1>2, <1>3, <1>5, <2>1 DEF FaultlessOK, Heeded, Covered, Replaced, AskingIs, Asking,
         Open, Confirmed, Retired, NoExpiry
  <2>3. Opened(q)'
      BY <1>1, <1>2, <1>3, <1>5, <2>1 DEF FaultlessOK, Opened, AskingIs, Asking, Confirmed, Early,
         Opening, Retired, NoExpiry
  <2>4. Awaited(q)'
      BY <1>1, <1>2, <1>3, <2>1 DEF FaultlessOK, Awaited, Alone, AskingIs, Asking, NoExpiry
  <2> QED
      BY <2>2, <2>3, <2>4 DEF FaultlessOK
<1> QED
    BY <1>2, <1>3, <1>6 DEF Calm, NoExpiry

LEMMA AnswerCalm ==
    ASSUME AnswerInv, Calm, NEW k \in Click, Answer(k), faults' = 0
    PROVE  Calm'
<1> DEFINE r == click[k].request
<1>1. ClickOK(k) /\ Has(k, {"answering"}) /\ r \in Request /\ Asking(r, {"ended"})
    BY DEF AnswerInv, Answer, Has, ClickOK, Admitted
<1>2. UNCHANGED <<turn, asking, row, card, closing, accepting>>
    BY DEF Answer, runtimeVars
<1>3. CASE Says(k, "expired") /\ UNCHANGED <<native, question>>
  <2>1. ClickIs(k, "finishing")
      BY <1>3, SaysIs DEF AnswerInv, Final
  <2> QED
      BY <1>1, <1>2, <1>3, <2>1, ClickCalm DEF ClickIs, Has
<1>4. CASE /\ question = r /\ Registered /\ question' = None /\ Says(k, "submitted")
           /\ native' = [native EXCEPT ![r] = "answered"]
  <2>1. ClickIs(k, "finishing") /\ click'[k].request = r /\ click'[k].status = "submitted"
      BY <1>4, SaysIs DEF AnswerInv, Final
  <2>2. (\A q \in Request : q # r => native'[q] = native[q]) /\ native'[r] = "answered"
      BY <1>1, <1>4, Typed DEF AnswerInv
  <2>3. Confirmed(r)
      BY <1>1, <1>4 DEF Calm, FaultlessOK, Opened
  <2>4. row.by = k /\ row.status = "submitting"
    <3>1. row.by = k /\ row.status \in {"submitting", "expired"} /\ row.request # None
        BY <1>1, <2>3, Typed DEF AnswerInv, ClickOK, Has, Admitted, Confirmed
    <3>2. ~Dead(r) /\ ~Stranded(r) /\ accepting
        BY <1>1, <1>4 DEF AnswerInv, Calm, QuestionOK, Stranded, Registered
    <3> QED
        BY <2>3, <3>1, <3>2 DEF AnswerInv, RowOK, Confirmed
  <2>5. ASSUME NEW q \in Request, q = r PROVE Clicked(q)'
      BY <1>2, <2>1, <2>3, <2>4, <2>5 DEF Clicked, ClickIs, Has, Confirmed
  <2>6. ASSUME NEW q \in Request PROVE FaultlessOK(q)'
    <3>1. FaultlessOK(q)
        BY DEF Calm
    <3>2. Clicked(q) => Clicked(q)'
        BY <1>1, <1>2, <2>1 DEF Clicked, ClickIs, Has, Confirmed
    <3>3. Heeded(q)'
        BY <1>1, <1>2, <1>4, <2>2, <3>1 DEF FaultlessOK, Heeded, Asking, Open
    <3>4. Covered(q)'
      <4>1. CASE q = r
          BY <2>5, <4>1 DEF Covered, Replaced
      <4>2. CASE q # r
          BY <1>2, <1>4, <2>2, <3>1, <3>2, <4>2 DEF FaultlessOK, Covered, Replaced, Asking,
             Confirmed
      <4> QED
          BY <4>1, <4>2
    <3>5. Opened(q)'
        BY <1>1, <1>2, <1>4, <3>1, Typed DEF AnswerInv, FaultlessOK, Opened, Asking, Confirmed
    <3>6. Alone(q)' => Alone(q)
      <4>1. ~Dead(r)
          BY <1>1, <1>4 DEF AnswerInv, QuestionOK
      <4> QED
          BY <1>1, <1>2, <2>2, <4>1 DEF Alone, Dead, Underway
    <3>7. Awaited(q)'
        BY <1>2, <3>1, <3>6 DEF FaultlessOK, Awaited, Asking
    <3> QED
        BY <3>3, <3>4, <3>5, <3>7 DEF FaultlessOK
  <2> QED
      BY <1>2, <2>6 DEF Calm
<1> QED
    BY <1>3, <1>4, NoFault DEF Answer, Says

----------------------------------------------------------------------------
(* The second invariant *)

LEMMA CalmStart == Init => Calm
<1>1. ASSUME Init, NEW r \in Request PROVE FaultlessOK(r)
  <2>1. r # None
      BY RequestAssumption DEF None
  <2> QED
      BY <1>1, <2>1 DEF Init, FaultlessOK, Heeded, Covered, Opened, Awaited, Open, Asking, Alone,
         NoClosing, Callers, Early, Opening, Retired, Underway
<1> QED
    BY <1>1 DEF Init, Calm

\* A step without a fault leaves a calm state calm.
LEMMA CalmSteps == ASSUME AnswerInv, Calm, [Next]_vars, faults' = 0 PROVE Calm'
<1>1. ASSUME NEW r \in Request, Ask(r) \/ Handles(r) \/ NativeResolves(r) PROVE Calm'
  <2>1. ~RecordMissing(r)
      BY DEF Calm, FaultlessOK, Opened, Asking, RecordMissing
  <2> QED
      BY <1>1, <2>1, AskCalm, StartCalm, SupersededCalm, StoreCalm, PostCalm, ConfirmCalm,
         RetireCalm, MarkCalm, NativeResolvesCalm DEF Handles, Opens
<1>2. ASSUME NEW r \in Request, NEW c \in Callers, Closes(r, c) PROVE Calm'
    BY <1>2, RefuseCalm, CloseReadsCalm, CloseStoresCalm, ClosePatchesCalm DEF Closes
<1>3. ASSUME NEW k \in Click, Clicks(k) \/ \E r \in Request : Submit(k, r) PROVE Calm'
    BY <1>3, SubmitCalm, BeginAnswerCalm, MarkSubmittingCalm, ResolveBeginCalm, AnswerCalm,
       FinishAnswerCalm, ReconcileCalm, ClickPatchesCalm DEF Clicks
<1>4. ~Disconnect /\ ~Shutdown /\ ~ExecutorCloses
    BY NoFault DEF Disconnect, Shutdown, ExecutorCloses, Calm
<1>5. CASE UNCHANGED vars
    BY <1>5, CalmKept DEF vars, executorVars, runtimeVars, Open, Alone, Confirmed, Replaced,
       Clicked, Asking, Has
<1> QED
    BY <1>1, <1>2, <1>3, <1>4, <1>5, TurnSettlesCalm, TurnFinishesCalm, JobEndsCalm,
       PatchExecutionCalm DEF Next

\* Faults are counted and never taken back.
LEMMA FaultsStay == ASSUME AnswerInv, [Next]_vars, faults' = 0 PROVE faults = 0
<1>1. ASSUME NEW r \in Request, Ask(r) \/ Handles(r) \/ NativeResolves(r) PROVE UNCHANGED faults
    BY <1>1, NoFault DEF Ask, Handles, Start, Superseded, Opens, Store, Post, RecordMissing,
       Confirm, Retire, Mark, NativeResolves, Acknowledged, Unacknowledged, Patches
<1>2. ASSUME NEW r \in Request, NEW c \in Callers, Closes(r, c) PROVE UNCHANGED faults
    BY <1>2, NoFault DEF Closes, Refuse, CloseReads, CloseStores, ClosePatches, Acknowledged,
       Unacknowledged, Patches
<1>3. ASSUME NEW k \in Click, Clicks(k) \/ \E r \in Request : Submit(k, r) PROVE UNCHANGED faults
    BY <1>3, NoFault DEF Clicks, Submit, BeginAnswer, MarkSubmitting, ResolveBegin, Answer,
       FinishAnswer, Reconcile, ClickPatches, Acknowledged, Unacknowledged, Patches
<1>4. CASE TurnSettles \/ TurnFinishes \/ JobEnds \/ PatchExecution \/ ExecutorCloses \/ Disconnect \/ Shutdown
    BY <1>4, NoFault DEF TurnSettles, TurnFinishes, JobEnds, PatchExecution, ExecutorCloses,
       Disconnect, Shutdown
<1>5. CASE UNCHANGED vars
    BY <1>5 DEF vars
<1> QED
    BY <1>1, <1>2, <1>3, <1>4, <1>5 DEF Next

----------------------------------------------------------------------------
(* A row that does not name the turn: the service as it is wired *)

\* A question is pending only until the row refuses it; no card is posted, none can be clicked.
UnnamedOK(r) ==
    /\ card[r] = "none" /\ live[r] = "absent" /\ Heeded(r)
    /\ ~Asking(r, {"superseding", "posting", "posted", "rejected", "lost"})
    /\ question = r => Asking(r, {"storing"})
    /\ \A c \in Callers : closing[c][r].seen = NoRow

Unnamed ==
    /\ row = NoRow /\ \A k \in Click : Has(k, {"idle"})
    /\ \A r \in Request : UnnamedOK(r)
NamedInv == ~named => Unnamed

LEMMA UnnamedExpired == ASSUME Unnamed, NEW r \in Request PROVE Expired(r) = row
    BY RequestAssumption DEF Unnamed, Expired, NoRow, None

\* What is neither posted nor clicked stays so, and the row is not touched.
LEMMA UnnamedKept ==
    ASSUME Unnamed, UNCHANGED <<row, card, click>>,
           \A r \in Request :
              /\ live'[r] = "absent" /\ Heeded(r)'
              /\ asking'[r].stage \in {asking[r].stage, "queued", "storing", "retiring", "marking", "failing", "ended"}
              /\ question' = r => Asking(r, {"storing"})'
              /\ \A c \in Callers : closing'[c][r].seen = NoRow
    PROVE  Unnamed'
<1>1. ASSUME NEW r \in Request PROVE UnnamedOK(r)'
    BY DEF Unnamed, UnnamedOK, Asking
<1> QED
    BY <1>1 DEF Unnamed, Has

LEMMA AskUnnamed ==
    ASSUME AnswerInv, Unnamed, NEW r \in Request, Ask(r)
    PROVE  Unnamed'
<1>1. AskingIs(r, "queued") /\ UNCHANGED <<question, closing, live, row, card, click>>
    BY AskingGoesIs DEF AnswerInv, Ask, AskingStages, executorVars, runtimeVars
<1>2. ASSUME NEW q \in Request
      PROVE  Heeded(q)' /\ (question' = q => Asking(q, {"storing"})')
  <2>1. q # r => native'[q] = native[q]
      BY Typed DEF AnswerInv, Ask
  <2>2. ~Asking(r, {"storing"})
      BY DEF AnswerInv, Ask, QuestionOK, Asking
  <2> QED
      BY <1>1, <2>1, <2>2 DEF Unnamed, UnnamedOK, Heeded, Open, Asking, AskingIs
<1> QED
    BY <1>1, <1>2, UnnamedKept DEF AskingIs, Unnamed, UnnamedOK

LEMMA StartUnnamed ==
    ASSUME AnswerInv, Unnamed, NEW r \in Request, Start(r)
    PROVE  Unnamed'
<1>1. Asking(r, {"queued"}) /\ \A q \in Request : ~Asking(q, {"storing"})
  <2>1. ASSUME NEW q \in Request, Asking(q, {"storing"}) PROVE FALSE
      BY <2>1, RequestAssumption DEF AnswerInv, OneAtATime, Start, Ended, Asking
  <2> QED
      BY <2>1 DEF Start, Asking
<1>2. question = None
    BY <1>1, Typed DEF AnswerInv, Unnamed, UnnamedOK
<1>3. UNCHANGED <<row, card, click, live>>
    BY DEF Start
<1>4. CASE native' = Refused(r) /\ AskingGoes(r, "ended") /\ UNCHANGED <<question, cancelled, closing>>
  <2>1. AskingIs(r, "ended")
      BY <1>4, AskingGoesIs DEF AnswerInv, AskingStages
  <2>2. ASSUME NEW q \in Request PROVE Heeded(q)'
      BY <1>2, <1>4, <2>1, Typed DEF AnswerInv, Unnamed, UnnamedOK, Heeded, Open, Refused, Asking,
         AskingIs
  <2> QED
      BY <1>2, <1>3, <1>4, <2>1, <2>2, Typed, UnnamedKept DEF AnswerInv, AskingIs, Unnamed,
         UnnamedOK
<1>5. CASE Poses(r) /\ UNCHANGED native
  <2>1. \/ question' = r /\ AskingIs(r, "storing") /\ UNCHANGED closing
        \/ /\ ExpiryIs(r, "refusing") /\ AskingIs(r, "failing")
           /\ closing'["executor"][r].seen = NoRow
      BY <1>5, PosesIs, ExpiresIs DEF AnswerInv, Poses, ClosingStages
  <2>2. ASSUME NEW q \in Request PROVE Heeded(q)'
      BY <1>1, <1>2, <1>5, <2>1, Typed DEF AnswerInv, Unnamed, UnnamedOK, Heeded, Open, Asking,
         AskingIs, ExpiryIs, ClosingIs, Callers
  <2>3. ASSUME NEW q \in Request, NEW c \in Callers PROVE closing'[c][q].seen = NoRow
      BY <2>1, Typed DEF Unnamed, UnnamedOK, ExpiryIs, ClosingIs, Callers
  <2> QED
      BY <1>2, <1>3, <2>1, <2>2, <2>3, Typed, UnnamedKept DEF AnswerInv, AskingIs, Asking, ExpiryIs,
         Unnamed, UnnamedOK
<1> QED
    BY <1>2, <1>4, <1>5 DEF Start

\* The row accepts no question: it fails, or was cancelled before.
LEMMA StoreUnnamed ==
    ASSUME AnswerInv, Unnamed, ~named, NEW r \in Request, Store(r)
    PROVE  Unnamed'
<1>1. UNCHANGED <<native, row, card, click, live>>
    BY DEF Store, Acknowledged, Unacknowledged, Begun, Accepts
<1>2. \/ r \in cancelled /\ NoExpiry /\ AskingIs(r, "retiring")
      \/ question = r /\ ExpiryIs(r, "refusing") /\ AskingIs(r, "failing") /\ closing'["executor"][r].seen = NoRow
      \/ question # r /\ NoExpiry /\ AskingIs(r, "ended")
    BY AskingGoesIs, AskFailsIs, ExpiresIs
       DEF AnswerInv, Store, Accepts, AskFails, AskingStages, ClosingStages, NoExpiry
<1>3. Asking(r, {"storing"}) /\ (r \in cancelled => question # r)
    BY DEF AnswerInv, Store, QuestionOK, Asking
<1>4. ASSUME NEW q \in Request
      PROVE  /\ Heeded(q)' /\ (question' = q => Asking(q, {"storing"})')
             /\ \A c \in Callers : closing'[c][q].seen = NoRow
    BY <1>1, <1>2, <1>3, <1>4, Typed DEF AnswerInv, Unnamed, UnnamedOK, Heeded, Open, Asking,
       AskingIs, NoExpiry, ExpiryIs, ClosingIs, Callers
<1> QED
    BY <1>1, <1>2, <1>4, UnnamedKept DEF AskingIs, Unnamed, UnnamedOK

LEMMA RetireUnnamed ==
    ASSUME AnswerInv, Unnamed, NEW r \in Request, Retire(r) \/ Mark(r)
    PROVE  Unnamed'
<1>1. UNCHANGED <<native, row, card, click, live>>
    BY UnnamedExpired DEF Unnamed, NoRow, Retire, Mark, Acknowledged, Unacknowledged, Patches,
       Patched, executorVars, runtimeVars
<1>2. Asking(r, Retired) /\ question # r /\ Dead(r)
    BY DEF AnswerInv, Retire, Mark, QuestionOK, Asking, Retired
<1>3. NoExpiry /\ (AskingIs(r, "marking") \/ AskingIs(r, "ended"))
    BY <1>2, AskingGoesIs, AskFailsIs
       DEF AnswerInv, Retire, Mark, AskingStages, NoExpiry, executorVars, runtimeVars
<1>4. ASSUME NEW q \in Request PROVE Heeded(q)' /\ (question' = q => Asking(q, {"storing"})')
    BY <1>1, <1>2, <1>3 DEF Unnamed, UnnamedOK, Heeded, Open, Asking, Retired, AskingIs, NoExpiry
<1> QED
    BY <1>1, <1>3, <1>4, UnnamedKept DEF AskingIs, NoExpiry, Unnamed, UnnamedOK

\* An expiry begins for the pending question, or none does.
LEMMA ExpiryUnnamed ==
    ASSUME AnswerInv, Unnamed, UNCHANGED <<row, card, click, live, asking>>,
           \/ NoExpiry
           \/ question \in Request /\ \E s \in {"refusing", "reading"} : Expires(question, s),
           \A r \in Request :
              Open(r)' => Open(r) /\ (question = r => question' = r \/ closing'["executor"][r].stage = "refusing")
    PROVE  Unnamed'
<1>1. CASE NoExpiry
  <2>1. ASSUME NEW r \in Request PROVE Heeded(r)'
      BY <1>1 DEF Unnamed, UnnamedOK, Heeded, Open, Asking, NoExpiry
  <2> QED
      BY <1>1, <2>1, UnnamedKept DEF Unnamed, UnnamedOK, NoExpiry, Asking
<1>2. CASE question \in Request /\ \E s \in {"refusing", "reading"} : Expires(question, s)
  <2>1. PICK s \in {"refusing", "reading"} : Expires(question, s)
      BY <1>2
  <2>2. ExpiryIs(question, s) /\ closing'["executor"][question].seen = NoRow
      BY <1>2, <2>1, ExpiresIs DEF AnswerInv, ClosingStages
  <2>3. ASSUME NEW r \in Request PROVE Heeded(r)'
      BY <1>2, <2>2 DEF Unnamed, UnnamedOK, Heeded, Open, Asking, ExpiryIs, ClosingIs, Callers
  <2>4. ASSUME NEW r \in Request, NEW c \in Callers PROVE closing'[c][r].seen = NoRow
      BY <1>2, <2>2 DEF Unnamed, UnnamedOK, ExpiryIs, ClosingIs, Callers
  <2>5. ASSUME NEW r \in Request PROVE question' # r
      BY <2>2, Typed DEF AnswerInv, ExpiryIs
  <2> QED
      BY <2>3, <2>4, <2>5, UnnamedKept DEF Unnamed, UnnamedOK
<1> QED
    BY <1>1, <1>2

LEMMA TurnUnnamed ==
    ASSUME AnswerInv, Unnamed,
           TurnSettles \/ TurnFinishes \/ Disconnect \/ JobEnds \/ \E r \in Request : NativeResolves(r)
    PROVE  Unnamed'
<1>1. ASSUME NEW s, ExpiresAny(s) PROVE NoExpiry \/ (question \in Request /\ Expires(question, s))
    BY <1>1, Typed DEF AnswerInv, ExpiresAny, NoExpiry
<1>2. CASE TurnSettles \/ JobEnds
    BY <1>2, ExpiryUnnamed DEF TurnSettles, JobEnds, executorVars, runtimeVars, NoExpiry, Open
<1>3. CASE TurnFinishes
  <2>1. UNCHANGED <<native, row, card, click, live, asking>>
      BY <1>3 DEF TurnFinishes
  <2>2. CASE NoExpiry
      BY <2>1, <2>2, ExpiryUnnamed DEF NoExpiry, Open
  <2>3. CASE question \in Request /\ Expires(question, "refusing")
    <3>1. closing'["executor"][question].stage = "refusing"
        BY <2>3, ExpiresIs DEF AnswerInv, ClosingStages, ExpiryIs, ClosingIs
    <3> QED
        BY <2>1, <2>3, <3>1, ExpiryUnnamed DEF Open
  <2> QED
      BY <1>1, <1>3, <2>2, <2>3 DEF TurnFinishes
<1>4. CASE Disconnect
  <2>1. UNCHANGED <<row, card, click, live, asking>> /\ \A r \in Request : ~Open(r)'
      BY <1>4, Typed DEF AnswerInv, Disconnect, Open
  <2> QED
      BY <1>1, <1>4, <2>1, ExpiryUnnamed DEF Disconnect
<1>5. ASSUME NEW r \in Request, NativeResolves(r) PROVE Unnamed'
  <2>1. /\ UNCHANGED <<row, card, click, live, asking>>
        /\ \A q \in Request : Open(q)' => Open(q) /\ q # r
      BY <1>5, Typed DEF AnswerInv, NativeResolves, Open
  <2>2. CASE question = r
      BY <1>5, <2>1, <2>2, ExpiryUnnamed DEF NativeResolves
  <2>3. CASE question # r
      BY <1>5, <2>1, <2>3, ExpiryUnnamed DEF NativeResolves, NoExpiry
  <2> QED
      BY <2>2, <2>3
<1> QED
    BY <1>2, <1>3, <1>4, <1>5

\* An expiry finds no row and no card; only one that has refused its request goes on.
LEMMA ClosesUnnamed ==
    ASSUME AnswerInv, Unnamed, NEW r \in Request, NEW c \in Callers, Closes(r, c)
    PROVE  Unnamed'
<1>1. UNCHANGED <<question, asking, row, click>>
    BY UnnamedExpired DEF Closes, Refuse, CloseReads, CloseStores, ClosePatches, Acknowledged,
       Unacknowledged, executorVars
<1>2. UNCHANGED card
    BY DEF Closes, Refuse, CloseReads, CloseStores, ClosePatches, Patches, Patched, Unnamed,
       UnnamedOK, NoRow
<1>3. ASSUME NEW q \in Request PROVE live'[q] = "absent"
    BY <1>3, Typed DEF AnswerInv, Closes, Refuse, CloseReads, CloseStores, ClosePatches, Unnamed,
       UnnamedOK
<1>4. /\ \A q \in Request, d \in Callers : q # r \/ d # c => closing'[d][q] = closing[d][q]
      /\ closing'[c][r].seen = NoRow
      /\ closing[c][r].stage = "refusing" => c = "executor" /\ native' = Refused(r)
      /\ closing[c][r].stage # "refusing" => UNCHANGED native
  <2>1. row = NoRow /\ closing[c][r].seen = NoRow
      BY DEF Unnamed, UnnamedOK
  <2>2. CASE c = "executor" /\ Refuse(r)
      BY <2>1, <2>2, ClosingGoesIs DEF AnswerInv, Refuse, ClosingIs, ClosingStages
  <2>3. CASE CloseReads(r, c)
    <3>1. CASE closing' = [closing EXCEPT ![c][r] = [stage |-> "storing", seen |-> row]]
        BY <2>1, <2>3, <3>1, ClosingBecomes, Typed DEF AnswerInv, CloseReads, ClosingIs,
           ClosingStages
    <3>2. CASE ClosingGoes(r, c, "done")
        BY <2>1, <2>3, <3>2, ClosingGoesIs DEF AnswerInv, CloseReads, ClosingIs, ClosingStages
    <3> QED
        BY <2>3, <3>1, <3>2 DEF CloseReads
  <2>4. CASE CloseStores(r, c)
    <3>1. row.request # r
        BY <2>1, RequestAssumption DEF NoRow, None
    <3>2. ClosingGoes(r, c, "patching") \/ closing' = [closing EXCEPT ![c][r] = [stage |-> "patching", seen |-> @.seen]]
        BY <2>4, <3>1 DEF CloseStores
    <3>3. CASE ClosingGoes(r, c, "patching")
        BY <2>1, <2>4, <3>3, ClosingGoesIs DEF AnswerInv, CloseStores, ClosingIs, ClosingStages
    <3>4. CASE closing' = [closing EXCEPT ![c][r] = [stage |-> "patching", seen |-> @.seen]]
        BY <2>1, <2>4, <3>4, ClosingBecomes, NoRowTyped, Typed DEF AnswerInv, CloseStores,
           ClosingIs, ClosingStages
    <3> QED
        BY <3>2, <3>3, <3>4
  <2>5. CASE ClosePatches(r, c)
      BY <2>1, <2>5, ClosingGoesIs DEF AnswerInv, ClosePatches, ClosingIs, ClosingStages
  <2> QED
      BY <2>2, <2>3, <2>4, <2>5 DEF Closes
<1>5. ASSUME NEW q \in Request PROVE Heeded(q)'
  <2>1. Heeded(q)
      BY DEF Unnamed, UnnamedOK
  <2>2. CASE closing[c][r].stage = "refusing"
      BY <1>1, <1>4, <2>1, <2>2, Typed DEF AnswerInv, Heeded, Open, Refused, Asking, Callers
  <2>3. CASE closing[c][r].stage # "refusing"
      BY <1>1, <1>4, <2>1, <2>3 DEF Heeded, Open, Asking, Callers
  <2> QED
      BY <2>2, <2>3
<1>6. \A q \in Request, d \in Callers : closing'[d][q].seen = NoRow
    BY <1>4 DEF Unnamed, UnnamedOK
<1> QED
    BY <1>1, <1>2, <1>3, <1>5, <1>6, UnnamedKept DEF Unnamed, UnnamedOK, Asking

LEMMA ShutdownUnnamed == ASSUME AnswerInv, Unnamed, Shutdown PROVE Unnamed'
<1>1. \A q \in Request : live[q] # "pending"
    BY DEF Unnamed, UnnamedOK
<1>2. /\ \A q \in Request : closing'["executor"][q] = closing["executor"][q]
      /\ \A q \in Request : closing'["shutdown"][q] = closing["shutdown"][q]
    BY <1>1, Typed DEF AnswerInv, Shutdown, Callers
<1>3. UNCHANGED <<native, row, card, click, live, asking, question>>
    BY DEF Shutdown, executorVars
<1>4. ASSUME NEW q \in Request PROVE Heeded(q)'
    BY <1>2, <1>3 DEF Unnamed, UnnamedOK, Heeded, Open, Asking
<1> QED
    BY <1>2, <1>3, <1>4, UnnamedKept DEF Unnamed, UnnamedOK, Asking, Callers

\* While the row names no turn, no step posts a card or admits a click.
LEMMA NamedStep == AnswerInv /\ NamedInv /\ [Next]_vars => NamedInv'
<1> SUFFICES ASSUME AnswerInv, NamedInv, [Next]_vars, ~named' PROVE Unnamed'
    BY DEF NamedInv
<1>1. ~PatchExecution
    BY DEF PatchExecution
<1>2. ~named
  <2>1. ASSUME NEW r \in Request, Ask(r) \/ Handles(r) \/ NativeResolves(r) PROVE UNCHANGED named
      BY <2>1 DEF Ask, Handles, Start, Superseded, Opens, Store, Post, RecordMissing, Confirm,
         Retire, Mark, NativeResolves
  <2>2. ASSUME NEW r \in Request, NEW c \in Callers, Closes(r, c) PROVE UNCHANGED named
      BY <2>2 DEF Closes, Refuse, CloseReads, CloseStores, ClosePatches
  <2>3. ASSUME NEW k \in Click, Clicks(k) \/ \E r \in Request : Submit(k, r) PROVE UNCHANGED named
      BY <2>3 DEF Clicks, Submit, BeginAnswer, MarkSubmitting, ResolveBegin, Answer, FinishAnswer,
         Reconcile, ClickPatches
  <2>4. CASE TurnSettles \/ TurnFinishes \/ JobEnds \/ ExecutorCloses \/ Disconnect \/ Shutdown
      BY <2>4 DEF TurnSettles, TurnFinishes, JobEnds, ExecutorCloses, Disconnect, Shutdown
  <2>5. CASE UNCHANGED vars
      BY <2>5 DEF vars
  <2> QED
      BY <1>1, <2>1, <2>2, <2>3, <2>4, <2>5 DEF Next
<1>3. Unnamed
    BY <1>2 DEF NamedInv
<1>4. ASSUME NEW r \in Request, Ask(r) \/ Handles(r) \/ NativeResolves(r) PROVE Unnamed'
  <2>1. ~Superseded(r) /\ ~Post(r) /\ ~RecordMissing(r) /\ ~Confirm(r)
      BY <1>3 DEF Unnamed, UnnamedOK, Asking, Superseded, Post, RecordMissing, Confirm
  <2> QED
      BY <1>2, <1>3, <1>4, <2>1, AskUnnamed, StartUnnamed, StoreUnnamed, RetireUnnamed, TurnUnnamed
         DEF Handles, Opens
<1>5. ASSUME NEW k \in Click PROVE ~Clicks(k) /\ \A r \in Request : ~Submit(k, r)
    BY <1>3 DEF Unnamed, UnnamedOK, Has, Clicks, Submit, BeginAnswer, MarkSubmitting, ResolveBegin,
       Answer, FinishAnswer, Reconcile, ClickPatches
<1>6. ~ExecutorCloses
    BY <1>3, Typed DEF AnswerInv, Unnamed, UnnamedOK, ExecutorCloses, Asking
<1>7. CASE UNCHANGED vars
    BY <1>3, <1>7, ExpiryUnnamed DEF vars, executorVars, runtimeVars, NoExpiry, Open
<1> QED
    BY <1>1, <1>3, <1>4, <1>5, <1>6, <1>7, TurnUnnamed, ClosesUnnamed, ShutdownUnnamed DEF Next

LEMMA NamedStart == Init => NamedInv
<1>1. ASSUME Init, NEW r \in Request PROVE UnnamedOK(r)
    BY <1>1, RequestAssumption DEF Init, UnnamedOK, Heeded, Open, Asking, NoClosing, None
<1>2. ASSUME Init, NEW k \in Click PROVE Has(k, {"idle"})
    BY <1>2 DEF Init, Has, NoClick
<1>3. Init => row = NoRow
    BY DEF Init
<1> QED
    BY <1>1, <1>2, <1>3 DEF NamedInv, Unnamed

LEMMA ClosingInvariant == Spec => [](QuestionsInv /\ NamedInv)
<1>1. Init => QuestionsInv /\ NamedInv
    BY AnswersStart, CalmStart, NamedStart DEF QuestionsInv, CloseInv
<1>2. QuestionsInv /\ NamedInv /\ [Next]_vars => QuestionsInv' /\ NamedInv'
    BY AnswersStep, CalmSteps, FaultsStay, NamedStep DEF QuestionsInv, CloseInv
<1> QED
    BY <1>1, <1>2, PTL DEF Spec

\* Once the turn is over and every call has ended, no request is open at the app server and no
\* form is on show: whatever fails while the row does not name the turn, which it never does in
\* the service; and when it does, unless a call failed, and but for the two questions of Left.
THEOREM EverythingIsClosed == Spec => []ClosedWithTheTurn
<1>1. QuestionsInv /\ NamedInv => ClosedWithTheTurn
  <2> SUFFICES ASSUME QuestionsInv, NamedInv, Quiet, NEW r \in Request, Open(r) \/ card[r] = "form"
               PROVE  named /\ (faults > 0 \/ Left(r))
      BY DEF ClosedWithTheTurn
  <2>1. Ended(r) /\ closing["executor"][r].stage \in {"none", "done"}
      BY DEF Quiet, Callers
  <2>2. named
      BY <2>1 DEF NamedInv, Unnamed, UnnamedOK, Heeded, Asking, Ended
  <2>3. ASSUME faults = 0, ~Left(r) PROVE FALSE
    <3>1. FaultlessOK(r)
        BY <2>3 DEF QuestionsInv, CloseInv, Calm
    <3>2. ~Open(r)
        BY <2>1, <2>3, <3>1 DEF FaultlessOK, Heeded, Asking, Ended, Left
    <3>3. ~Replaced(r)
        BY <2>1, <2>3 DEF Replaced, Clicked, Has, Quiet, Asking, Ended, Left, Retired
    <3> QED
        BY <3>1, <3>2, <3>3 DEF FaultlessOK, Covered
  <2> QED
      BY <2>2, <2>3 DEF QuestionsInv, AnswerInv, TypeOK
<1> QED
    BY <1>1, ClosingInvariant, PTL

----------------------------------------------------------------------------
(* The buttons of a job: StopFork.                                         *)

\* The conversation is still bound to the thread of this turn.
Bound(t) == binding = home[t]

\* No later stop of this turn will be admitted while its thread stays bound.
StopBegun(t) == Recorded(t, home[t]) \/ t < execution

\* The press that may interrupt its turn is the only one that was admitted for its thread.
Interrupting(k) == press[k].stage \in {"interrupting", "sending"}

\* A press has found the thread its conversation was bound to.
LoadedStages == {"stopping", "inspecting", "interrupting", "sending", "finishing"}
Loaded(k) == press[k].stage \in LoadedStages

StopPressOK(k) ==
    /\ press[k].turn <= execution
    /\ Bound(press[k].turn) =>
          /\ Loaded(k) => press[k].seen = home[press[k].turn]
          /\ Interrupting(k) => interrupts[press[k].turn] = 0 /\ StopBegun(press[k].turn)
    /\ press[k].stage = "finishing" =>
          /\ press[k].outcome \in Definitive \cup {"unconfirmed"}
          /\ press[k].outcome = "requested" => server[press[k].turn] = "interrupted"
          /\ press[k].outcome = "already_finished" => server[press[k].turn] # "running"

TurnsOK ==
    /\ stop.outcome # "none" => stop.turn <= execution
    /\ \A t \in Turn : /\ t > execution => server[t] = "none" /\ interrupts[t] = 0
                       /\ local[t] = "settled" => server[t] # "running"
                       /\ interrupts[t] > 0 /\ Bound(t) => StopBegun(t)

\* A thread that is no longer bound is not bound again.
HomeOK ==
    \A t \in Turn : /\ home[t] = Other => binding = Other
                    /\ home[t] = Target => binding \in {Target, Other}

OneInterrupts ==
    \A k, l \in Press :
        /\ Interrupting(k) /\ Interrupting(l)
        /\ press[k].turn = press[l].turn /\ Bound(press[k].turn)
        => k = l

StopInv ==
    /\ TurnsOK
    /\ HomeOK
    /\ \A k \in Press : StopPressOK(k)
    /\ OneInterrupts
    /\ StopToldTruly

\* A press that is to fork has the row; one that has forked is named by it.
ForkPressOK(k) ==
    /\ press[k].stage \in {"forking", "requesting", "committing", "failed"} => Pending(k)
    /\ press[k].stage \in {"forking", "requesting"} => forks = 0
    /\ press[k].stage \in {"unknown", "publishing"} => fork.by = k /\ fork.status # "none"
    /\ press[k].stage = "publishing" =>
          /\ press[k].outcome \in ForkResults
          /\ press[k].outcome \in {"succeeded", "superseded"} => fork.status = press[k].outcome
          /\ press[k].outcome = "failed" => fork.status \in {"failed", "pending"}

ForkInv ==
    /\ fork.status = "none" => forks = 0
    /\ forkCard # "none" => /\ fork.status # "none" /\ fork.by \in Press
                            /\ press[fork.by].stage = "done"
    /\ \A k \in Press : ForkPressOK(k)
    /\ ForkToldTruly

ButtonsInv == ButtonsTypeOK /\ StopInv /\ ForkInv

----------------------------------------------------------------------------
Outcome == Definitive \cup OpenStops \cup ForkResults \cup {"none"}
PressRecord == [stage : Stages, turn : Turn, seen : {Source, Target, Other}, outcome : Outcome]

\* Press k goes to stage s with outcome o, and finds what is bound; the others stay.
Moved(k, s, o) ==
    /\ press' \in [Press -> PressRecord]
    /\ press'[k].stage = s /\ press'[k].outcome = o /\ press'[k].turn = press[k].turn
    /\ press'[k].seen = IF s = "stopping" THEN binding ELSE press[k].seen
    /\ \A l \in Press \ {k} : press'[l] = press[l]

LEMMA GoesMoves ==
    ASSUME ButtonsTypeOK, NEW k \in Press, NEW s \in Stages \ {"stopping"}, Goes(k, s)
    PROVE  Moved(k, s, press[k].outcome)
    BY DEF ButtonsTypeOK, Goes, Moved, PressRecord, Outcome

LEMMA AnswersMoves ==
    ASSUME ButtonsTypeOK, NEW k \in Press, NEW s \in Stages \ {"stopping"}, NEW o \in Outcome,
           Answers(k, s, o)
    PROVE  Moved(k, s, o)
<1> DEFINE p == [press[k] EXCEPT !.stage = s, !.outcome = o]
<1>1. press \in [Press -> PressRecord]
    BY DEF ButtonsTypeOK, PressRecord, Outcome
<1>2. /\ p \in PressRecord /\ p.stage = s /\ p.outcome = o /\ p.turn = press[k].turn
      /\ p.seen = press[k].seen
    BY <1>1 DEF PressRecord
<1>3. press' = [press EXCEPT ![k] = p]
    BY <1>1 DEF Answers, PressRecord
<1> HIDE DEF p
<1> QED
    BY <1>1, <1>2, <1>3 DEF Moved

\* How each step of a handler moves its press.
LEMMA StopMoves ==
    ASSUME ButtonsTypeOK, NEW k \in Press
    PROVE  /\ LoadBinding(k) => \E s \in {"stopping", "done"} : Moved(k, s, press[k].outcome)
           /\ BeginStop(k) => \E s \in {AfterBegin(press[k].turn, press[k].seen), "done"} :
                                 Moved(k, s, press[k].outcome)
           /\ Inspect(k) => \/ Moved(k, "done", press[k].outcome)
                            \/ Moved(k, "finishing", "unconfirmed")
                            \/ /\ ~Runs(press[k].turn)
                               /\ Moved(k, "finishing", "already_finished")
           /\ InterruptHeld(k) \/ InterruptUnheld(k) =>
                 LET t == press[k].turn IN
                 \/ \E s \in {"sending", "done"} : Moved(k, s, press[k].outcome)
                 \/ Moved(k, "finishing", "unconfirmed")
                 \/ /\ local[t] = "settled" \/ ~Runs(t)
                    /\ Moved(k, "finishing", "already_finished")
           /\ FinishStop(k) => Moved(k, "done", press[k].outcome)
<1> USE GoesMoves, AnswersMoves DEF Stages, Outcome, Definitive, OpenStops
<1>1. ASSUME LoadBinding(k) PROVE \E s \in {"stopping", "done"} : Moved(k, s, press[k].outcome)
  <2>1. CASE press' = [press EXCEPT ![k].stage = "stopping", ![k].seen = binding]
    <3> DEFINE p == [press[k] EXCEPT !.stage = "stopping", !.seen = binding]
    <3>1. press \in [Press -> PressRecord] /\ binding \in {Source, Target, Other}
      BY DEF ButtonsTypeOK, PressRecord
    <3>2. /\ p \in PressRecord /\ p.stage = "stopping" /\ p.outcome = press[k].outcome
          /\ p.turn = press[k].turn /\ p.seen = binding
      BY <3>1 DEF PressRecord
    <3>3. press' = [press EXCEPT ![k] = p]
      BY <2>1, <3>1 DEF PressRecord
    <3> HIDE DEF p
    <3> QED
      BY <3>1, <3>2, <3>3 DEF Moved
  <2>2. CASE Goes(k, "done")
    BY <2>2
  <2> QED
    BY <1>1, <2>1, <2>2 DEF LoadBinding
<1>2. ASSUME BeginStop(k)
      PROVE  \E s \in {AfterBegin(press[k].turn, press[k].seen), "done"} :
                 Moved(k, s, press[k].outcome)
  <2>1. AfterBegin(press[k].turn, press[k].seen) \in Stages \ {"stopping"}
    BY DEF AfterBegin
  <2> QED
    BY <1>2, <2>1 DEF BeginStop
<1>3. ASSUME Inspect(k)
      PROVE  \/ Moved(k, "done", press[k].outcome)
             \/ Moved(k, "finishing", "unconfirmed")
             \/ ~Runs(press[k].turn) /\ Moved(k, "finishing", "already_finished")
    BY <1>3 DEF Inspect, Looks
<1>4. ASSUME InterruptHeld(k) \/ InterruptUnheld(k)
      PROVE  LET t == press[k].turn IN
             \/ \E s \in {"sending", "done"} : Moved(k, s, press[k].outcome)
             \/ Moved(k, "finishing", "unconfirmed")
             \/ (local[t] = "settled" \/ ~Runs(t)) /\ Moved(k, "finishing", "already_finished")
    BY <1>4 DEF InterruptHeld, InterruptUnheld, Looks
<1>5. ASSUME FinishStop(k) PROVE Moved(k, "done", press[k].outcome)
    BY <1>5 DEF FinishStop
<1> QED
    BY <1>1, <1>2, <1>3, <1>4, <1>5

LEMMA SendMoves ==
    ASSUME ButtonsTypeOK, NEW k \in Press, SendInterrupt(k)
    PROVE  LET t == press[k].turn IN
           /\ \/ Moved(k, "finishing", "unconfirmed")
              \/ Moved(k, "finishing", "requested") /\ server'[t] = "interrupted"
              \/ Moved(k, "finishing", "already_finished") /\ ~Runs(t)
           /\ server' \in {server, [server EXCEPT ![t] = "interrupted"]}
           /\ interrupts' = [interrupts EXCEPT ![t] = @ + 1]
<1> DEFINE t == press[k].turn
<1>1. t \in Turn /\ "finishing" \in Stages \ {"stopping"} /\ {"unconfirmed", "requested", "already_finished"} \subseteq Outcome
    BY DEF ButtonsTypeOK, Stages, Outcome, Definitive, OpenStops
<1>2. interrupts' = [interrupts EXCEPT ![t] = @ + 1]
    BY DEF SendInterrupt
<1>3. CASE Runs(t)
    BY <1>1, <1>2, <1>3, AnswersMoves DEF SendInterrupt, ButtonsTypeOK
<1>4. CASE ~Runs(t)
  <2>1. [server EXCEPT ![t] = server[t]] = server
    BY <1>1 DEF ButtonsTypeOK
  <2> QED
    BY <1>1, <1>2, <1>4, <2>1, AnswersMoves DEF SendInterrupt
<1> QED
    BY <1>3, <1>4

\* How each step of a fork moves its press, and what it makes of the row.
LEMMA ForkMoves ==
    ASSUME ButtonsTypeOK, NEW k \in Press
    PROVE  /\ PressFork(k) => Moved(k, "beginning", press[k].outcome)
           /\ BeginFork(k) =>
                 \/ Moved(k, "done", press[k].outcome) /\ UNCHANGED fork
                 \/ /\ \E s \in {"forking", "done"} : Moved(k, s, press[k].outcome)
                    /\ fork.status = "none" /\ binding = Source
                    /\ fork' = [by |-> k, status |-> "pending"]
           /\ StartFork(k) => \E s \in {"failed", "requesting"} : Moved(k, s, press[k].outcome)
           /\ RequestFork(k) =>
                 \E s \in {"committing", "unknown", "failed"} : Moved(k, s, press[k].outcome)
           /\ PublishFork(k) => Moved(k, "done", press[k].outcome)
<1> USE GoesMoves DEF Stages
<1>1. ASSUME PressFork(k) PROVE Moved(k, "beginning", press[k].outcome)
    BY <1>1 DEF PressFork
<1>2. ASSUME BeginFork(k)
      PROVE  \/ Moved(k, "done", press[k].outcome) /\ UNCHANGED fork
             \/ /\ \E s \in {"forking", "done"} : Moved(k, s, press[k].outcome)
                /\ fork.status = "none" /\ binding = Source
                /\ fork' = [by |-> k, status |-> "pending"]
    BY <1>2 DEF BeginFork
<1>3. ASSUME StartFork(k)
      PROVE  \E s \in {"failed", "requesting"} : Moved(k, s, press[k].outcome)
    BY <1>3 DEF StartFork
<1>4. ASSUME RequestFork(k)
      PROVE  \E s \in {"committing", "unknown", "failed"} : Moved(k, s, press[k].outcome)
    BY <1>4 DEF RequestFork
<1>5. ASSUME PublishFork(k) PROVE Moved(k, "done", press[k].outcome)
    BY <1>5 DEF PublishFork
<1> QED
    BY <1>1, <1>2, <1>3, <1>4, <1>5

\* The last write of a fork: it settles a pending row, or leaves the row alone.
Settled(k, result) ==
    IF Pending(k) THEN fork' = [fork EXCEPT !.status = result] ELSE UNCHANGED fork

LEMMA CommitMoves ==
    ASSUME ButtonsTypeOK, NEW k \in Press, CommitFork(k)
    PROVE  \E result \in {"succeeded", "superseded"} :
           /\ \/ Settled(k, result) /\ Moved(k, "publishing", fork'.status)
              \/ Settled(k, result) /\ Moved(k, "unknown", press[k].outcome)
              \/ UNCHANGED <<fork, binding>> /\ Moved(k, "unknown", press[k].outcome)
           /\ \/ UNCHANGED binding
              \/ Pending(k) /\ result = "succeeded" /\ fork'.status = "succeeded"
           /\ binding' \in {Source, Target, Other}
           /\ fork' \in [by : Press \cup {NoPress}, status : ForkResults \cup {"none", "pending"}]
<1> DEFINE result == IF binding = Source THEN "succeeded" ELSE "superseded"
           commit == IF Pending(k)
                     THEN /\ fork' = [fork EXCEPT !.status = result]
                          /\ binding' = IF binding = Source THEN Target ELSE binding
                     ELSE UNCHANGED <<fork, binding>>
<1>1. /\ result \in {"succeeded", "superseded"}
      /\ \/ commit /\ Answers(k, "publishing", fork'.status)
         \/ (commit \/ UNCHANGED <<fork, binding>>) /\ Goes(k, "unknown")
    BY DEF CommitFork
<1>2. fork \in [by : Press \cup {NoPress}, status : ForkResults \cup {"none", "pending"}]
    BY DEF ButtonsTypeOK
<1>3. [fork EXCEPT !.status = result] \in [by : Press \cup {NoPress}, status : ForkResults \cup {"none", "pending"}]
      /\ [fork EXCEPT !.status = result].status = result
    BY <1>1, <1>2 DEF ForkResults
<1>4. commit =>
        /\ Settled(k, result)
        /\ \/ UNCHANGED binding
           \/ Pending(k) /\ result = "succeeded" /\ fork'.status = "succeeded"
        /\ binding' \in {Source, Target, Other}
        /\ fork' \in [by : Press \cup {NoPress}, status : ForkResults \cup {"none", "pending"}]
    BY <1>2, <1>3 DEF Settled, ButtonsTypeOK
<1>5. UNCHANGED <<fork, binding>> =>
        /\ binding' \in {Source, Target, Other}
        /\ fork' \in [by : Press \cup {NoPress}, status : ForkResults \cup {"none", "pending"}]
    BY <1>2 DEF ButtonsTypeOK
<1>6. Goes(k, "unknown") => Moved(k, "unknown", press[k].outcome)
    BY GoesMoves DEF Stages
<1>7. ASSUME commit, Answers(k, "publishing", fork'.status)
      PROVE  Moved(k, "publishing", fork'.status)
  <2>1. fork'.status \in Outcome /\ "publishing" \in Stages \ {"stopping"}
    BY <1>4, <1>7 DEF Outcome, OpenStops, Stages
  <2> QED
    BY <1>7, <2>1, AnswersMoves
<1> HIDE DEF result, commit
<1> QED
    BY <1>1, <1>4, <1>5, <1>6, <1>7

LEMMA FailMoves ==
    ASSUME ButtonsTypeOK, NEW k \in Press, FailFork(k)
    PROVE  LET told == press[k].stage IN
           /\ told \in {"failed", "unknown"}
           /\ fork' \in [by : Press \cup {NoPress}, status : ForkResults \cup {"none", "pending"}]
           /\ \/ /\ Settled(k, told)
                 /\ Moved(k, "publishing", IF Pending(k) THEN told ELSE fork.status)
              \/ /\ UNCHANGED fork \/ Settled(k, told)
                 /\ Moved(k, "publishing", told)
<1> DEFINE told == press[k].stage
           after == IF Pending(k) THEN [fork EXCEPT !.status = told] ELSE fork
<1>1. /\ told \in {"failed", "unknown"}
      /\ \/ fork' = after /\ Answers(k, "publishing", after.status)
         \/ fork' \in {fork, after} /\ Answers(k, "publishing", told)
    BY DEF FailFork
<1>2. fork \in [by : Press \cup {NoPress}, status : ForkResults \cup {"none", "pending"}]
    BY DEF ButtonsTypeOK
<1>3. /\ after \in [by : Press \cup {NoPress}, status : ForkResults \cup {"none", "pending"}]
      /\ after.status = IF Pending(k) THEN told ELSE fork.status
    BY <1>1, <1>2 DEF ForkResults
<1>4. told \in Outcome /\ after.status \in Outcome /\ "publishing" \in Stages \ {"stopping"}
    BY <1>1, <1>3 DEF Outcome, OpenStops, ForkResults, Stages
<1>5. fork' = after => Settled(k, told)
    BY DEF Settled
<1> HIDE DEF told, after
<1>6. \/ fork' = after /\ Moved(k, "publishing", after.status)
      \/ fork' \in {fork, after} /\ Moved(k, "publishing", told)
    BY <1>1, <1>4, AnswersMoves
<1> QED
    BY <1>1, <1>2, <1>3, <1>5, <1>6 DEF told
----------------------------------------------------------------------------
\* Types: every step.
LEMMA TypeStep == ASSUME ButtonsTypeOK, StopInv, ForkInv, ButtonsNext PROVE ButtonsTypeOK'
<1> USE DEF turnVars, stopVars, forkVars
<1> DEFINE ServerType == [Turn -> {"none", "running", "expiring", "interrupted", "ended"}]
           LocalType == [Turn -> {"absent", "active", "settled"}]
           StopType == [turn : Turn, thread : {Source, Target, Other},
                        outcome : Definitive \cup OpenStops \cup {"none"}]
           ForkType == [by : Press \cup {NoPress}, status : ForkResults \cup {"none", "pending"}]
<1>0. Failure => failures' \in 0..MaxFailures
    BY ButtonAssumption DEF Failure, ButtonsTypeOK
<1>1. ASSUME NEW t \in Turn, NativeEnds(t) PROVE ButtonsTypeOK'
  <2>1. server' \in ServerType /\ UNCHANGED <<status, execution, home, local, binding, stopVars, forkVars, press, failures>>
    BY <1>1 DEF NativeEnds, ButtonsTypeOK
  <2> QED
    BY <2>1 DEF ButtonsTypeOK
<1>2. ASSUME NEW t \in Turn, Settles(t) PROVE ButtonsTypeOK'
  <2>1. server' \in ServerType /\ local' \in LocalType /\ failures' \in 0..MaxFailures
    BY <1>0, <1>2 DEF Settles, ButtonsTypeOK
  <2>2. UNCHANGED <<status, execution, home, binding, stopVars, forkVars, press>>
    BY <1>2 DEF Settles
  <2> QED
    BY <2>1, <2>2 DEF ButtonsTypeOK
<1>3. ASSUME NEW t \in Turn, Finalized(t) PROVE ButtonsTypeOK'
  <2>1. local' \in LocalType /\ UNCHANGED <<status, execution, home, server, binding, stopVars, forkVars, press, failures>>
    BY <1>3 DEF Finalized, ButtonsTypeOK
  <2> QED
    BY <2>1 DEF ButtonsTypeOK
<1>4. CASE JobGoesOn
  <2>1. /\ status' \in {"running", "ended", "busy"} /\ execution' \in Turn
        /\ server' \in ServerType /\ local' \in LocalType /\ home' \in [Turn -> {Source, Target, Other}]
    BY <1>4 DEF JobGoesOn, ButtonsTypeOK
  <2>2. UNCHANGED <<binding, stopVars, forkVars, press, failures>>
    BY <1>4 DEF JobGoesOn
  <2> QED
    BY <2>1, <2>2 DEF ButtonsTypeOK
<1>5. CASE Rebind
    BY <1>5 DEF Rebind, ButtonsTypeOK
<1>6. CASE ButtonsCrash
  <2>1. 1 \in Turn
    BY ButtonAssumption DEF Turn
  <2>2. Idle \in PressRecord
    BY <2>1 DEF Idle, PressRecord, Outcome, Stages
  <2>3. \A k \in Press : [press[k] EXCEPT !.stage = "done"] \in PressRecord
    BY DEF ButtonsTypeOK, PressRecord, Outcome, Stages
  <2>4. press' \in [Press -> PressRecord]
    BY <1>6, <2>2, <2>3 DEF ButtonsCrash
  <2>5. local' \in LocalType /\ failures' \in 0..MaxFailures
    BY <1>0, <1>6 DEF ButtonsCrash
  <2>6. UNCHANGED <<status, execution, home, server, binding, stopVars, forkVars>>
    BY <1>6 DEF ButtonsCrash
  <2> QED
    BY <2>4, <2>5, <2>6 DEF ButtonsTypeOK, PressRecord, Outcome
<1>7. ASSUME NEW k \in Press, PressStop(k) PROVE ButtonsTypeOK'
  <2>1. [Idle EXCEPT !.stage = "loading", !.turn = execution] \in PressRecord
    BY DEF Idle, PressRecord, Outcome, Stages, ButtonsTypeOK
  <2>2. press' \in [Press -> PressRecord]
    BY <1>7, <2>1 DEF PressStop, ButtonsTypeOK, PressRecord, Outcome
  <2>3. UNCHANGED <<turnVars, binding, stopVars, forkVars, failures>>
    BY <1>7 DEF PressStop
  <2> QED
    BY <2>2, <2>3 DEF ButtonsTypeOK, PressRecord, Outcome
<1>8. ASSUME NEW k \in Press, LoadBinding(k) PROVE ButtonsTypeOK'
  <2>1. press' \in [Press -> PressRecord]
    BY <1>8, StopMoves DEF Moved
  <2>2. failures' \in 0..MaxFailures /\ UNCHANGED <<turnVars, binding, stopVars, forkVars>>
    BY <1>0, <1>8 DEF LoadBinding, ButtonsTypeOK
  <2> QED
    BY <2>1, <2>2 DEF ButtonsTypeOK, PressRecord, Outcome
<1>9. ASSUME NEW k \in Press, BeginStop(k) PROVE ButtonsTypeOK'
  <2>1. press' \in [Press -> PressRecord]
    BY <1>9, StopMoves DEF Moved
  <2>2. press[k].turn \in Turn /\ press[k].seen \in {Source, Target, Other}
    BY DEF ButtonsTypeOK
  <2>3. stop' \in StopType
    BY <1>9, <2>2 DEF BeginStop, ButtonsTypeOK, OpenStops
  <2>4. failures' \in 0..MaxFailures /\ UNCHANGED <<turnVars, binding, interrupts, forkVars>>
    BY <1>0, <1>9 DEF BeginStop, ButtonsTypeOK
  <2> QED
    BY <2>1, <2>2, <2>3, <2>4 DEF ButtonsTypeOK, PressRecord, Outcome
<1>10. ASSUME NEW k \in Press, Inspect(k) PROVE ButtonsTypeOK'
  <2>1. press' \in [Press -> PressRecord]
    BY <1>10, StopMoves DEF Moved
  <2>2. failures' \in 0..MaxFailures /\ UNCHANGED <<turnVars, binding, stopVars, forkVars>>
    BY <1>0, <1>10 DEF Inspect, ButtonsTypeOK
  <2> QED
    BY <2>1, <2>2 DEF ButtonsTypeOK, PressRecord, Outcome
<1>11. ASSUME NEW k \in Press, InterruptHeld(k) \/ InterruptUnheld(k) PROVE ButtonsTypeOK'
  <2>1. press' \in [Press -> PressRecord]
    BY <1>11, StopMoves DEF Moved
  <2>2. failures' \in 0..MaxFailures /\ UNCHANGED <<turnVars, binding, stopVars, forkVars>>
    BY <1>0, <1>11 DEF InterruptHeld, InterruptUnheld, ButtonsTypeOK
  <2> QED
    BY <2>1, <2>2 DEF ButtonsTypeOK, PressRecord, Outcome
<1>12. ASSUME NEW k \in Press, SendInterrupt(k) PROVE ButtonsTypeOK'
  <2>1. press' \in [Press -> PressRecord]
    BY <1>12, SendMoves DEF Moved
  <2>2. press[k].turn \in Turn
    BY DEF ButtonsTypeOK
  <2>3. server' \in ServerType /\ interrupts' \in [Turn -> Nat]
    BY <1>12, <2>2, SendMoves DEF ButtonsTypeOK
  <2>4. failures' \in 0..MaxFailures /\ UNCHANGED <<status, execution, home, local, binding, stop, forkVars>>
    BY <1>0, <1>12 DEF SendInterrupt, ButtonsTypeOK
  <2> QED
    BY <2>1, <2>2, <2>3, <2>4 DEF ButtonsTypeOK, PressRecord, Outcome
<1>13. ASSUME NEW k \in Press, FinishStop(k) PROVE ButtonsTypeOK'
  <2>1. press' \in [Press -> PressRecord]
    BY <1>13, StopMoves DEF Moved
  <2>2. press[k].outcome \in Definitive \cup {"unconfirmed"}
    BY <1>13 DEF FinishStop, StopInv, StopPressOK
  <2>3. [stop EXCEPT !.outcome = press[k].outcome] \in StopType
    BY <2>2 DEF ButtonsTypeOK, OpenStops
  <2>4. stop' \in {stop, [stop EXCEPT !.outcome = press[k].outcome]}
    BY <1>13 DEF FinishStop
  <2>5. stop' \in StopType
    BY <2>3, <2>4 DEF ButtonsTypeOK
  <2>6. failures' \in 0..MaxFailures /\ UNCHANGED <<turnVars, binding, interrupts, forkVars>>
    BY <1>0, <1>13 DEF FinishStop, ButtonsTypeOK
  <2> QED
    BY <2>1, <2>2, <2>3, <2>4, <2>5, <2>6 DEF ButtonsTypeOK, PressRecord, Outcome
<1>14. ASSUME NEW k \in Press, PressFork(k) PROVE ButtonsTypeOK'
  <2>1. press' \in [Press -> PressRecord]
    BY <1>14, ForkMoves DEF Moved
  <2>2. failures' \in 0..MaxFailures /\ UNCHANGED <<turnVars, binding, stopVars, forkVars>>
    BY <1>0, <1>14 DEF PressFork, ButtonsTypeOK
  <2> QED
    BY <2>1, <2>2 DEF ButtonsTypeOK, PressRecord, Outcome
<1>15. ASSUME NEW k \in Press, BeginFork(k) PROVE ButtonsTypeOK'
  <2>1. press' \in [Press -> PressRecord]
    BY <1>15, ForkMoves DEF Moved
  <2>2. fork' \in ForkType
    BY <1>15, ForkMoves DEF ButtonsTypeOK
  <2>3. failures' \in 0..MaxFailures /\ UNCHANGED <<turnVars, binding, stopVars, forkCard, forks>>
    BY <1>0, <1>15 DEF BeginFork, ButtonsTypeOK
  <2> QED
    BY <2>1, <2>2, <2>3 DEF ButtonsTypeOK, PressRecord, Outcome
<1>16. ASSUME NEW k \in Press, StartFork(k) PROVE ButtonsTypeOK'
  <2>1. press' \in [Press -> PressRecord]
    BY <1>16, ForkMoves DEF Moved
  <2>2. failures' \in 0..MaxFailures /\ UNCHANGED <<turnVars, binding, stopVars, forkVars>>
    BY <1>0, <1>16 DEF StartFork, ButtonsTypeOK
  <2> QED
    BY <2>1, <2>2 DEF ButtonsTypeOK, PressRecord, Outcome
<1>17. ASSUME NEW k \in Press, RequestFork(k) PROVE ButtonsTypeOK'
  <2>1. press' \in [Press -> PressRecord]
    BY <1>17, ForkMoves DEF Moved
  <2>2. forks' \in Nat
    BY <1>17 DEF RequestFork, ButtonsTypeOK
  <2>3. failures' \in 0..MaxFailures /\ UNCHANGED <<turnVars, binding, stopVars, fork, forkCard>>
    BY <1>0, <1>17 DEF RequestFork, ButtonsTypeOK
  <2> QED
    BY <2>1, <2>2, <2>3 DEF ButtonsTypeOK, PressRecord, Outcome
<1>18. ASSUME NEW k \in Press, CommitFork(k) PROVE ButtonsTypeOK'
  <2>1. press' \in [Press -> PressRecord]
    BY <1>18, CommitMoves DEF Moved
  <2>2. binding' \in {Source, Target, Other} /\ fork' \in ForkType
    BY <1>18, CommitMoves
  <2>3. failures' \in 0..MaxFailures /\ UNCHANGED <<turnVars, stopVars, forkCard, forks>>
    BY <1>0, <1>18 DEF CommitFork, ButtonsTypeOK
  <2> QED
    BY <2>1, <2>2, <2>3 DEF ButtonsTypeOK, PressRecord, Outcome
<1>19. ASSUME NEW k \in Press, FailFork(k) PROVE ButtonsTypeOK'
  <2>1. press' \in [Press -> PressRecord]
    BY <1>19, FailMoves DEF Moved
  <2>2. fork' \in ForkType
    BY <1>19, FailMoves
  <2>3. failures' \in 0..MaxFailures /\ UNCHANGED <<turnVars, stopVars, binding, forkCard, forks>>
    BY <1>0, <1>19 DEF FailFork, ButtonsTypeOK
  <2> QED
    BY <2>1, <2>2, <2>3 DEF ButtonsTypeOK, PressRecord, Outcome
<1>20. ASSUME NEW k \in Press, PublishFork(k) PROVE ButtonsTypeOK'
  <2>1. press' \in [Press -> PressRecord]
    BY <1>20, ForkMoves DEF Moved
  <2>2. forkCard' \in ForkResults \cup {"none"}
    BY <1>20 DEF PublishFork, ForkInv, ForkPressOK, ButtonsTypeOK
  <2>3. failures' \in 0..MaxFailures /\ UNCHANGED <<turnVars, stopVars, binding, fork, forks>>
    BY <1>0, <1>20 DEF PublishFork, ButtonsTypeOK
  <2> QED
    BY <2>1, <2>2, <2>3 DEF ButtonsTypeOK, PressRecord, Outcome
<1> QED
    BY <1>1, <1>2, <1>3, <1>4, <1>5, <1>6, <1>7, <1>8, <1>9, <1>10, <1>11, <1>12, <1>13, <1>14,
       <1>15, <1>16, <1>17, <1>18, <1>19, <1>20 DEF ButtonsNext, Stops, Forks

----------------------------------------------------------------------------
\* What is bound changes only to a thread that no turn was of.
LEMMA BoundStays ==
    ASSUME ButtonsTypeOK, StopInv, home' = home,
           \/ binding' = binding
           \/ binding # Other /\ binding' = Other
           \/ binding = Source /\ binding' = Target
    PROVE  HomeOK' /\ \A t \in Turn : Bound(t)' => Bound(t)
    BY ButtonAssumption DEF StopInv, HomeOK, Bound

\* A press that moves while the turns and the stop of the row stay: it does not become one
\* that may interrupt, and a result it carries is true.
LEMMA StopQuiet ==
    ASSUME ButtonsTypeOK, StopInv, UNCHANGED <<turnVars, stopVars>>,
           \/ binding' = binding
           \/ binding # Other /\ binding' = Other
           \/ binding = Source /\ binding' = Target,
           NEW k \in Press, NEW s, NEW o,
           Moved(k, s, o), s # "interrupting", s = "sending" => Interrupting(k),
           s \in LoadedStages \ {"stopping"} => Loaded(k),
           s = "finishing" => \/ o = "unconfirmed"
                              \/ o = "already_finished" /\ server[press[k].turn] # "running"
    PROVE  StopInv'
<1> USE DEF turnVars, stopVars
<1>1. HomeOK' /\ \A t \in Turn : Bound(t)' => Bound(t)
    BY BoundStays
<1>2. \A t \in Turn : StopBegun(t)' = StopBegun(t)
    BY DEF StopBegun, Recorded
<1>3. TurnsOK' /\ StopToldTruly'
    BY <1>1, <1>2 DEF StopInv, TurnsOK, StopToldTruly, Bound
<1>4. \A l \in Press : Interrupting(l)' => Interrupting(l)
    BY DEF Moved, Interrupting
<1>5. \A l \in Press : press'[l].turn = press[l].turn /\ press[l].turn \in Turn
    BY DEF Moved, ButtonsTypeOK
<1>6. ASSUME NEW l \in Press PROVE StopPressOK(l)'
  <2> DEFINE t == press[l].turn
  <2>1. t \in Turn /\ press'[l].turn = t /\ StopPressOK(l)
    BY <1>5 DEF StopInv
  <2>2. /\ Bound(t)' => Bound(t)
        /\ StopBegun(t)' = StopBegun(t)
        /\ UNCHANGED <<interrupts, server, home, execution>>
    BY <1>1, <1>2, <2>1
  <2>3. CASE l = k
    <3>1. Loaded(k)' /\ Bound(t) => press'[k].seen = home[t]
      BY <2>1, <2>3 DEF Moved, StopPressOK, Loaded, LoadedStages, Bound
    <3> QED
      BY <1>4, <2>1, <2>2, <2>3, <3>1 DEF StopPressOK, Moved, Definitive, Loaded
  <2>4. CASE l # k
    <3>1. press'[l] = press[l]
      BY <2>4 DEF Moved
    <3> QED
      BY <2>1, <2>2, <3>1 DEF StopPressOK, Interrupting, Loaded
  <2> QED
    BY <2>3, <2>4
<1>7. OneInterrupts'
    BY <1>1, <1>4, <1>5 DEF StopInv, OneInterrupts
<1> QED
    BY <1>1, <1>3, <1>6, <1>7 DEF StopInv

LEMMA TurnsAreNumbers == \A t \in Turn : t \in Int
    BY ButtonAssumption DEF Turn

\* The turns go on while the presses and the row's stop stay.
LEMMA StopTurns ==
    ASSUME ButtonsTypeOK, ButtonsTypeOK', StopInv, UNCHANGED <<stopVars, press, binding>>,
           execution' >= execution,
           \A t \in Turn : home'[t] = home[t] \/ (t > execution /\ home'[t] = binding),
           \A t \in Turn : /\ server[t] = "interrupted" => server'[t] = "interrupted"
                           /\ server'[t] = "running" => server[t] = "running" \/ t > execution
                           /\ t > execution' => server'[t] = "none"
                           /\ local'[t] = "settled" => server'[t] # "running"
    PROVE  StopInv'
<1> USE DEF stopVars
<1>1. execution \in Int /\ execution' \in Int /\ \A t \in Turn : t \in Int
    BY ButtonAssumption DEF ButtonsTypeOK, Turn
<1>2. stop.turn \in Turn /\ \A k \in Press : press[k].turn \in Turn
    BY DEF ButtonsTypeOK
<1>3. \A t \in Turn : t <= execution =>
        /\ home'[t] = home[t] /\ (Bound(t)' <=> Bound(t))
        /\ StopBegun(t) => StopBegun(t)'
    BY <1>1 DEF StopBegun, Recorded, Bound
<1>4. HomeOK'
    BY DEF StopInv, HomeOK, ButtonsTypeOK
<1>5. \A t \in Turn : interrupts[t] > 0 => t <= execution
    BY <1>1 DEF StopInv, TurnsOK, ButtonsTypeOK
<1>6. TurnsOK'
    BY <1>1, <1>2, <1>3, <1>5 DEF StopInv, TurnsOK
<1>7. StopToldTruly'
  <2>1. \A t \in Turn : interrupts[t] > 1 => binding' # home'[t]
    <3>1. \A t \in Turn : interrupts[t] > 1 => t <= execution /\ binding # home[t]
      BY <1>5 DEF StopInv, StopToldTruly, ButtonsTypeOK
    <3> QED
      BY <1>3, <3>1
  <2>2. stop.outcome # "none" => stop.turn <= execution
    BY DEF StopInv, TurnsOK
  <2>3. /\ stop.outcome = "requested" => server[stop.turn] = "interrupted"
        /\ stop.outcome = "already_finished" => server[stop.turn] # "running"
    BY DEF StopInv, StopToldTruly
  <2> QED
    BY <1>1, <1>2, <2>1, <2>2, <2>3 DEF StopToldTruly
<1>8. ASSUME NEW k \in Press PROVE StopPressOK(k)'
  <2> DEFINE t == press[k].turn
  <2>1. StopPressOK(k) /\ press' = press /\ t \in Turn /\ t <= execution
    BY <1>2 DEF StopInv, StopPressOK
  <2>2. /\ home'[t] = home[t] /\ (Bound(t)' <=> Bound(t))
        /\ StopBegun(t) => StopBegun(t)'
    BY <1>3, <2>1
  <2> QED
    BY <1>1, <2>1, <2>2 DEF StopPressOK, Interrupting, Loaded
<1>9. OneInterrupts'
    BY <1>2, <1>3 DEF StopInv, StopPressOK, OneInterrupts, Interrupting
<1> QED
    BY <1>4, <1>6, <1>7, <1>8, <1>9 DEF StopInv

\* Stops: the steps of the job's turns.
LEMMA StopJob ==
    ASSUME ButtonsTypeOK, ButtonsTypeOK', StopInv,
           JobGoesOn \/ \E t \in Turn : NativeEnds(t) \/ Settles(t) \/ Finalized(t)
    PROVE  StopInv'
<1> USE DEF turnVars
<1> DEFINE TurnsGoOn ==
             \A t \in Turn : /\ home'[t] = home[t] \/ (t > execution /\ home'[t] = binding)
                             /\ server[t] = "interrupted" => server'[t] = "interrupted"
                             /\ server'[t] = "running" => server[t] = "running" \/ t > execution
                             /\ t > execution' => server'[t] = "none"
                             /\ local'[t] = "settled" => server'[t] # "running"
<1>1. /\ execution \in Int /\ \A t \in Turn : t \in Int
      /\ server \in [Turn -> {"none", "running", "expiring", "interrupted", "ended"}]
      /\ local \in [Turn -> {"absent", "active", "settled"}] /\ execution \in Turn
      /\ home \in [Turn -> {Source, Target, Other}]
    BY TurnsAreNumbers DEF ButtonsTypeOK
<1>2. \A t \in Turn : /\ t > execution => server[t] = "none"
                      /\ local[t] = "settled" => server[t] # "running"
    BY DEF StopInv, TurnsOK
<1>3. ASSUME NEW u \in Turn, NativeEnds(u) PROVE execution' = execution /\ TurnsGoOn
    BY <1>1, <1>2, <1>3 DEF NativeEnds
<1>4. ASSUME NEW u \in Turn, Settles(u) PROVE execution' = execution /\ TurnsGoOn
  <2>1. CASE UNCHANGED server /\ server[u] # "running"
    BY <1>1, <1>2, <1>4, <2>1 DEF Settles
  <2>2. CASE server[u] = "running" /\ server' = [server EXCEPT ![u] = "expiring"]
    BY <1>1, <1>2, <1>4, <2>2 DEF Settles
  <2> QED
    BY <1>4, <2>1, <2>2 DEF Settles
<1>5. ASSUME NEW u \in Turn, Finalized(u) PROVE execution' = execution /\ TurnsGoOn
    BY <1>1, <1>2, <1>5 DEF Finalized
<1>6. CASE JobGoesOn
  <2>1. CASE UNCHANGED <<execution, home, server, local>>
    <3>1. TurnsGoOn
      BY <1>1, <1>2, <2>1
    <3> QED
      BY <1>1, <1>6, <2>1, <3>1, StopTurns DEF JobGoesOn
  <2>2. CASE /\ execution + 1 \in Turn /\ execution' = execution + 1
             /\ home' = [home EXCEPT ![execution + 1] = binding]
             /\ server' = [server EXCEPT ![execution + 1] = "running"]
             /\ local' = [local EXCEPT ![execution + 1] = "active"]
    <3>1. TurnsGoOn
      BY <1>1, <1>2, <2>2
    <3> QED
      BY <1>1, <1>6, <2>2, <3>1, StopTurns DEF JobGoesOn
  <2>3. CASE local' = [local EXCEPT ![execution] = "active"] /\ UNCHANGED <<status, execution, home, server>>
    <3>1. TurnsGoOn
      BY <1>1, <1>2, <2>3
    <3> QED
      BY <1>1, <1>6, <2>3, <3>1, StopTurns DEF JobGoesOn
  <2> QED
    BY <1>6, <2>1, <2>2, <2>3 DEF JobGoesOn
<1>7. ASSUME NEW u \in Turn, NativeEnds(u) \/ Settles(u) \/ Finalized(u) PROVE StopInv'
  <2>1. execution' = execution /\ TurnsGoOn
    BY <1>3, <1>4, <1>5, <1>7
  <2>2. UNCHANGED <<stopVars, press, binding>>
    BY <1>7 DEF NativeEnds, Settles, Finalized
  <2> QED
    BY <1>1, <2>1, <2>2, StopTurns
<1> QED
    BY <1>6, <1>7

\* Stops: the row is asked for a stop.
LEMMA StopBegin ==
    ASSUME ButtonsTypeOK, ButtonsTypeOK', StopInv, NEW k \in Press, BeginStop(k)
    PROVE  StopInv'
<1> DEFINE t == press[k].turn
           h == press[k].seen
           s == press'[k].stage
           after == [turn |-> t, thread |-> h, outcome |-> "pending"]
<1>1. /\ execution \in Int /\ t \in Turn /\ stop.turn \in Turn
      /\ \A u \in Turn : u \in Int
      /\ \A l \in Press : press[l].turn \in Turn
    BY TurnsAreNumbers DEF ButtonsTypeOK
<1>2. Moved(k, s, press[k].outcome) /\ s \in {AfterBegin(t, h), "done"} /\ Loaded(k)
    BY StopMoves DEF Moved, BeginStop, Loaded, LoadedStages
<1>3. UNCHANGED <<turnVars, interrupts, binding>>
    BY DEF BeginStop
<1>4. CASE UNCHANGED stop /\ s # "interrupting"
  <2>1. s \notin {"sending", "finishing"}
    BY <1>2 DEF AfterBegin
  <2> QED
    BY <1>2, <1>3, <1>4, <2>1, StopQuiet DEF stopVars
<1>5. CASE ~Admits(t, h)
  <2>1. UNCHANGED stop
    BY <1>5 DEF BeginStop
  <2> QED
    BY <1>2, <1>4, <1>5, <2>1 DEF AfterBegin
<1>6. CASE Admits(t, h) /\ stop' = after
  <2>1. t = execution /\ (Bound(t) => h = home[t] /\ ~StopBegun(t))
    BY <1>1, <1>2, <1>6 DEF Admits, StopBegun, StopInv, StopPressOK
  <2>2. \A u \in Turn : StopBegun(u) /\ Bound(u) => StopBegun(u)' /\ u # t
    <3>1. stop.outcome # "none" => stop.turn <= execution
      BY DEF StopInv, TurnsOK
    <3>2. ASSUME NEW u \in Turn, StopBegun(u), Bound(u) PROVE u < execution
      <4>1. u # t
        BY <2>1, <3>2
      <4> QED
        BY <1>1, <2>1, <3>1, <3>2, <4>1 DEF StopBegun, Recorded
    <3> QED
      BY <1>1, <1>3, <2>1, <3>2 DEF StopBegun, turnVars
  <2>3. \A u \in Turn : u = t /\ Bound(u) => StopBegun(u)'
    BY <1>3, <1>6, <2>1 DEF StopBegun, Recorded, turnVars
  <2>4. Bound(t) => interrupts[t] = 0
    BY <1>1, <2>1 DEF StopInv, TurnsOK, ButtonsTypeOK
  <2>5. \A l \in Press : Interrupting(l) /\ Bound(t) => press[l].turn # t
    BY <2>1 DEF StopInv, StopPressOK
  <2>6. /\ \A u \in Turn : Bound(u)' = Bound(u)
        /\ HomeOK'
    BY <1>3 DEF StopInv, HomeOK, Bound, turnVars
  <2>7. TurnsOK'
    BY <1>1, <1>3, <1>6, <2>1, <2>2, <2>6 DEF StopInv, TurnsOK, turnVars
  <2>8. StopToldTruly'
    BY <1>3, <1>6 DEF StopInv, StopToldTruly, turnVars
  <2>9. /\ press'[k].turn = t /\ press'[k].seen = h /\ s \in {"interrupting", "done"}
        /\ \A l \in Press \ {k} : press'[l] = press[l]
    BY <1>2, <1>6 DEF Moved, AfterBegin
  <2>10. ASSUME NEW l \in Press PROVE StopPressOK(l)'
    <3>1. CASE l = k
      BY <1>1, <1>3, <2>1, <2>3, <2>4, <2>6, <2>9, <3>1 DEF StopPressOK, Interrupting, turnVars
    <3>2. CASE l # k
      <4> DEFINE u == press[l].turn
      <4>1. /\ press'[l] = press[l] /\ StopPressOK(l)
            /\ StopBegun(u) /\ Bound(u) => StopBegun(u)'
            /\ Bound(u)' = Bound(u)
        BY <1>1, <2>2, <2>6, <2>9, <3>2 DEF StopInv
      <4> QED
        BY <1>3, <4>1 DEF StopPressOK, Interrupting, Loaded, turnVars
    <3> QED
      BY <3>1, <3>2
  <2>11. OneInterrupts'
    <3>1. \A l \in Press : Bound(press[l].turn)' = Bound(press[l].turn) /\ press'[l].turn = press[l].turn
      BY <1>1, <1>3, <2>9 DEF Bound, turnVars
    <3> QED
      BY <2>5, <2>9, <3>1 DEF StopInv, OneInterrupts, Interrupting, Bound
  <2> QED
    BY <2>6, <2>7, <2>8, <2>10, <2>11 DEF StopInv
<1>7. UNCHANGED stop \/ (Admits(t, h) /\ stop' = after)
    BY DEF BeginStop
<1>8. CASE Admits(t, h) /\ UNCHANGED stop
  <2>1. CASE Goes(k, "done")
    BY <1>4, <1>8, <2>1, GoesMoves DEF Moved, Stages
  <2>2. CASE stop' = after
    BY <1>6, <1>8, <2>2
  <2> QED
    BY <1>8, <2>1, <2>2 DEF BeginStop
<1> QED
    BY <1>5, <1>6, <1>7, <1>8

\* Stops: the interrupt is sent.
LEMMA StopSend ==
    ASSUME ButtonsTypeOK, ButtonsTypeOK', StopInv, NEW k \in Press, SendInterrupt(k)
    PROVE  StopInv'
<1> DEFINE t == press[k].turn
<1>1. /\ execution \in Int /\ t \in Turn /\ stop.turn \in Turn
      /\ server \in [Turn -> {"none", "running", "expiring", "interrupted", "ended"}]
      /\ interrupts \in [Turn -> Nat]
      /\ \A u \in Turn : u \in Int
      /\ \A l \in Press : press[l].turn \in Turn
    BY TurnsAreNumbers DEF ButtonsTypeOK
<1>2. UNCHANGED <<execution, home, local, stop, binding>>
    BY DEF SendInterrupt
<1>3. /\ \A u \in Turn : StopBegun(u)' = StopBegun(u) /\ Bound(u)' = Bound(u)
      /\ HomeOK'
    BY <1>2 DEF StopBegun, Recorded, Bound, HomeOK, StopInv
<1>4. /\ t <= execution /\ (Bound(t) => interrupts[t] = 0 /\ StopBegun(t))
      /\ Interrupting(k) /\ Loaded(k)
    BY DEF SendInterrupt, Interrupting, StopInv, StopPressOK, Loaded, LoadedStages
<1>5. /\ server' \in {server, [server EXCEPT ![t] = "interrupted"]}
      /\ interrupts' = [interrupts EXCEPT ![t] = @ + 1]
    BY SendMoves
<1>6. \A u \in Turn : /\ server'[u] = server[u] \/ (u = t /\ server'[u] = "interrupted")
                      /\ interrupts'[u] = IF u = t THEN interrupts[u] + 1 ELSE interrupts[u]
    BY <1>1, <1>5
<1>7. TurnsOK'
  <2>1. ASSUME NEW u \in Turn
        PROVE  /\ u > execution' => server'[u] = "none" /\ interrupts'[u] = 0
               /\ local'[u] = "settled" => server'[u] # "running"
               /\ interrupts'[u] > 0 /\ Bound(u)' => StopBegun(u)'
    <3>1. CASE u = t
      BY <1>1, <1>2, <1>3, <1>4, <1>6, <3>1 DEF StopInv, TurnsOK
    <3>2. CASE u # t
      BY <1>1, <1>2, <1>3, <1>6, <3>2 DEF StopInv, TurnsOK
    <3> QED
      BY <3>1, <3>2
  <2> QED
    BY <1>2, <2>1 DEF StopInv, TurnsOK
<1>8. StopToldTruly'
  <2>1. \A u \in Turn : interrupts'[u] > 1 => ~Bound(u)
    BY <1>1, <1>4, <1>6 DEF StopInv, StopToldTruly, Bound
  <2> QED
    BY <1>1, <1>2, <1>6, <2>1 DEF StopInv, StopToldTruly, Bound
<1>9. \E o \in Outcome :
         /\ Moved(k, "finishing", o)
         /\ o \in Definitive \cup {"unconfirmed"}
         /\ o = "requested" => server'[t] = "interrupted"
         /\ o = "already_finished" => server'[t] # "running"
  <2>1. ~Runs(t) => server'[t] # "running"
    BY <1>1, <1>6 DEF Runs
  <2>2. {"unconfirmed", "requested", "already_finished"} \subseteq Outcome
    BY DEF Outcome, Definitive, OpenStops
  <2> QED
    BY <2>1, <2>2, SendMoves DEF Definitive
<1>10. /\ press'[k].stage = "finishing" /\ press'[k].turn = t /\ press'[k].seen = press[k].seen
       /\ \A l \in Press \ {k} : press'[l] = press[l]
    BY <1>9 DEF Moved
<1>11. ASSUME NEW l \in Press PROVE StopPressOK(l)'
  <2>1. CASE l = k
    <3>1. Bound(t)' => press'[k].seen = home'[t]
      BY <1>1, <1>2, <1>3, <1>4, <1>10 DEF StopInv, StopPressOK
    <3> QED
      BY <1>2, <1>4, <1>9, <1>10, <2>1, <3>1 DEF StopPressOK, Interrupting, Moved
  <2>2. CASE l # k
    <3>1. press'[l] = press[l] /\ StopPressOK(l) /\ press[l].turn \in Turn
      BY <1>1, <1>10, <2>2 DEF StopInv
    <3>2. Interrupting(l) /\ Bound(t) => press[l].turn # t
      BY <1>4, <2>2 DEF StopInv, OneInterrupts
    <3> QED
      BY <1>2, <1>3, <1>6, <3>1, <3>2 DEF StopPressOK, Interrupting, Loaded
  <2> QED
    BY <2>1, <2>2
<1>12. OneInterrupts'
  <2>1. \A l \in Press : /\ Bound(press[l].turn)' = Bound(press[l].turn)
                         /\ press'[l].turn = press[l].turn
    BY <1>1, <1>2, <1>10 DEF Bound
  <2> QED
    BY <1>2, <1>10, <2>1 DEF StopInv, OneInterrupts, Interrupting, Bound
<1> QED
    BY <1>3, <1>7, <1>8, <1>11, <1>12 DEF StopInv

\* Stops: the result is written to the row.
LEMMA StopFinish ==
    ASSUME ButtonsTypeOK, ButtonsTypeOK', StopInv, NEW k \in Press, FinishStop(k)
    PROVE  StopInv'
<1> DEFINE o == press[k].outcome
<1>1. Moved(k, "done", o) /\ UNCHANGED <<turnVars, interrupts, binding>> /\ press[k].stage = "finishing"
    BY StopMoves DEF FinishStop
<1>2. \/ UNCHANGED stop
      \/ /\ stop' = [stop EXCEPT !.outcome = o]
         /\ stop.turn = press[k].turn /\ stop.outcome \in OpenStops
    BY DEF FinishStop, OpenStops
<1>3. CASE UNCHANGED stop
    BY <1>1, <1>3, StopQuiet DEF stopVars, LoadedStages
<1>4. CASE /\ stop' = [stop EXCEPT !.outcome = o]
           /\ stop.turn = press[k].turn /\ stop.outcome \in OpenStops
  <2>1. stop'.turn = stop.turn /\ stop'.thread = stop.thread /\ stop'.outcome = o /\ stop.outcome # "none"
    BY <1>4 DEF ButtonsTypeOK, OpenStops
  <2>2. /\ o \in Definitive \cup {"unconfirmed"}
        /\ o = "requested" => server[press[k].turn] = "interrupted"
        /\ o = "already_finished" => server[press[k].turn] # "running"
    BY <1>1 DEF StopInv, StopPressOK
  <2>3. o # "none"
    BY <2>2 DEF Definitive
  <2>4. /\ \A u \in Turn : StopBegun(u)' = StopBegun(u) /\ Bound(u)' = Bound(u)
        /\ HomeOK'
    BY <1>1, <2>1, <2>3 DEF StopBegun, Recorded, Bound, HomeOK, StopInv, turnVars
  <2>5. TurnsOK'
    BY <1>1, <2>1, <2>4 DEF StopInv, TurnsOK, turnVars
  <2>6. StopToldTruly'
    BY <1>1, <1>4, <2>1, <2>2 DEF StopInv, StopToldTruly, turnVars
  <2>7. \A l \in Press : /\ press[l].turn \in Turn /\ press'[l].turn = press[l].turn
                         /\ Bound(press[l].turn)' = Bound(press[l].turn)
                         /\ press'[l].stage = "done" \/ press'[l] = press[l]
    BY <1>1, <2>4 DEF Moved, ButtonsTypeOK
  <2>8. ASSUME NEW l \in Press PROVE StopPressOK(l)'
    <3>1. StopPressOK(l) /\ StopBegun(press[l].turn)' = StopBegun(press[l].turn)
      BY <2>4, <2>7 DEF StopInv
    <3> QED
      BY <1>1, <2>4, <2>7, <3>1 DEF StopPressOK, Interrupting, Loaded, LoadedStages, turnVars
  <2>9. OneInterrupts'
    BY <1>1, <2>7 DEF StopInv, OneInterrupts, Interrupting, Bound, turnVars
  <2> QED
    BY <2>4, <2>5, <2>6, <2>8, <2>9 DEF StopInv
<1> QED
    BY <1>2, <1>3, <1>4

\* Stops: a press asks for a stop of the turn of the row.
LEMMA StopPress ==
    ASSUME ButtonsTypeOK, StopInv, NEW k \in Press, PressStop(k)
    PROVE  StopInv'
<1>1. /\ press'[k].stage = "loading" /\ press'[k].turn = execution
      /\ \A l \in Press \ {k} : press'[l] = press[l]
    BY DEF PressStop, ButtonsTypeOK, Idle
<1>2. UNCHANGED <<turnVars, stopVars, binding>>
    BY DEF PressStop
<1>3. TurnsOK' /\ HomeOK' /\ StopToldTruly'
    BY <1>2 DEF StopInv, TurnsOK, HomeOK, StopToldTruly, StopBegun, Bound, Recorded, turnVars,
       stopVars
<1>4. ASSUME NEW l \in Press PROVE StopPressOK(l)'
  <2>1. CASE l = k
    <3>1. execution \in Int
      BY TurnsAreNumbers DEF ButtonsTypeOK
    <3> QED
      BY <1>1, <1>2, <2>1, <3>1 DEF StopPressOK, Interrupting, Loaded, LoadedStages, turnVars
  <2>2. CASE l # k
    <3>1. press'[l] = press[l] /\ StopPressOK(l) /\ StopBegun(press[l].turn)' = StopBegun(press[l].turn)
      BY <1>1, <1>2, <2>2 DEF StopInv, StopBegun, Recorded, turnVars, stopVars
    <3> QED
      BY <1>2, <3>1 DEF StopPressOK, Interrupting, Loaded, Bound, turnVars, stopVars
  <2> QED
    BY <2>1, <2>2
<1>5. OneInterrupts'
    BY <1>1, <1>2 DEF StopInv, OneInterrupts, Interrupting, Bound, turnVars
<1> QED
    BY <1>3, <1>4, <1>5 DEF StopInv

\* Stops: a crash ends every press that was answered.
LEMMA StopCrash ==
    ASSUME ButtonsTypeOK, StopInv, ButtonsCrash
    PROVE  StopInv'
<1>1. /\ UNCHANGED <<status, execution, home, server, binding, stopVars>>
      /\ \A t \in Turn : local'[t] = "absent"
    BY DEF ButtonsCrash
<1>2. \A l \in Press : /\ press'[l].stage \in {"idle", "done"}
                       /\ press'[l].turn \in {1, press[l].turn}
    BY DEF ButtonsCrash, ButtonsTypeOK, Idle
<1>3. execution \in Int /\ 1 <= execution
    BY ButtonAssumption DEF ButtonsTypeOK, Turn
<1>4. TurnsOK' /\ HomeOK' /\ StopToldTruly'
    BY <1>1 DEF StopInv, TurnsOK, HomeOK, StopToldTruly, StopBegun, Bound, Recorded, stopVars
<1>5. ASSUME NEW l \in Press PROVE StopPressOK(l)'
    BY <1>1, <1>2, <1>3 DEF StopInv, StopPressOK, Interrupting, Loaded, LoadedStages
<1>6. OneInterrupts'
    BY <1>2 DEF StopInv, OneInterrupts, Interrupting
<1> QED
    BY <1>4, <1>5, <1>6 DEF StopInv

\* Stops: every step.
LEMMA StopStep ==
    ASSUME ButtonsTypeOK, ButtonsTypeOK', StopInv, ButtonsNext
    PROVE  StopInv'
<1>1. CASE JobGoesOn \/ \E t \in Turn : NativeEnds(t) \/ Settles(t) \/ Finalized(t)
    BY <1>1, StopJob
<1>2. CASE Rebind
  <2>1. UNCHANGED <<turnVars, stopVars, press>>
    BY <1>2 DEF Rebind
  <2>2. HomeOK' /\ \A t \in Turn : Bound(t)' => Bound(t)
    BY <1>2, <2>1, BoundStays DEF Rebind, turnVars
  <2>3. TurnsOK' /\ StopToldTruly'
    BY <2>1, <2>2 DEF StopInv, TurnsOK, StopToldTruly, StopBegun, Bound, Recorded, turnVars,
       stopVars
  <2>4. \A k \in Press : press[k].turn \in Turn
    BY DEF ButtonsTypeOK
  <2>5. ASSUME NEW k \in Press PROVE StopPressOK(k)'
    <3>1. Bound(press[k].turn)' => Bound(press[k].turn)
      BY <2>1, <2>2, <2>4
    <3> QED
      BY <2>1, <3>1 DEF StopInv, StopPressOK, StopBegun, Recorded, Interrupting, Loaded, turnVars,
         stopVars
  <2>6. OneInterrupts'
    BY <2>1, <2>2, <2>4 DEF StopInv, OneInterrupts, Interrupting
  <2> QED
    BY <2>2, <2>3, <2>5, <2>6 DEF StopInv
<1>3. CASE ButtonsCrash
    BY <1>3, StopCrash
<1>4. ASSUME NEW k \in Press, LoadBinding(k) PROVE StopInv'
  <2>1. UNCHANGED <<turnVars, stopVars, binding>>
    BY <1>4 DEF LoadBinding
  <2> QED
    BY <1>4, <2>1, StopMoves, StopQuiet DEF LoadedStages
<1>5. ASSUME NEW k \in Press, Inspect(k) PROVE StopInv'
  <2>1. UNCHANGED <<turnVars, stopVars, binding>>
    BY <1>5 DEF Inspect
  <2>2. Loaded(k) /\ (~Runs(press[k].turn) => server[press[k].turn] # "running")
    BY <1>5 DEF Inspect, Loaded, LoadedStages, Runs
  <2> QED
    BY <1>5, <2>1, <2>2, StopMoves, StopQuiet DEF LoadedStages
<1>6. ASSUME NEW k \in Press, InterruptHeld(k) \/ InterruptUnheld(k) PROVE StopInv'
  <2>1. UNCHANGED <<turnVars, stopVars, binding>> /\ Interrupting(k) /\ Loaded(k)
    BY <1>6 DEF InterruptHeld, InterruptUnheld, Interrupting, Loaded, LoadedStages
  <2>2. local[press[k].turn] = "settled" \/ ~Runs(press[k].turn) => server[press[k].turn] # "running"
    BY DEF Runs, StopInv, TurnsOK, ButtonsTypeOK
  <2> QED
    BY <1>6, <2>1, <2>2, StopMoves, StopQuiet DEF LoadedStages
<1>7. ASSUME NEW k \in Press, PressFork(k) \/ BeginFork(k) \/ StartFork(k) \/ RequestFork(k) \/ PublishFork(k)
      PROVE  StopInv'
  <2>1. UNCHANGED <<turnVars, stopVars, binding>>
    BY <1>7 DEF PressFork, BeginFork, StartFork, RequestFork, PublishFork
  <2>2. PICK s \in {"beginning", "forking", "requesting", "committing", "unknown", "failed", "done"} :
           Moved(k, s, press[k].outcome)
    BY <1>7, ForkMoves
  <2> QED
    BY <2>1, <2>2, StopQuiet DEF LoadedStages
<1>8. ASSUME NEW k \in Press, CommitFork(k) PROVE StopInv'
  <2>1. /\ UNCHANGED <<turnVars, stopVars>>
        /\ binding' = binding \/ (binding = Source /\ binding' = Target)
    BY <1>8 DEF CommitFork
  <2>2. PICK s \in {"publishing", "unknown"} : \E o : Moved(k, s, o)
    BY <1>8, CommitMoves
  <2> QED
    BY <2>1, <2>2, StopQuiet DEF LoadedStages
<1>9. ASSUME NEW k \in Press, FailFork(k) PROVE StopInv'
  <2>1. UNCHANGED <<turnVars, stopVars, binding>>
    BY <1>9 DEF FailFork
  <2> QED
    BY <1>9, <2>1, FailMoves, StopQuiet DEF LoadedStages
<1>10. ASSUME NEW k \in Press, Stops(k) PROVE StopInv'
    BY <1>4, <1>5, <1>6, <1>10, StopPress, StopBegin, StopSend, StopFinish DEF Stops
<1>11. ASSUME NEW k \in Press, Forks(k) PROVE StopInv'
    BY <1>7, <1>8, <1>9, <1>11 DEF Forks
<1> QED
    BY <1>1, <1>2, <1>3, <1>10, <1>11 DEF ButtonsNext

----------------------------------------------------------------------------
ForkStages == {"forking", "requesting", "committing", "failed", "unknown", "publishing"}

\* A press that is not part of a fork, before it moves or after, leaves the row's fork alone.
LEMMA ForkQuiet ==
    ASSUME ButtonsTypeOK, ForkInv, UNCHANGED forkVars, NEW k \in Press, press[k].stage # "done",
           press'[k].stage \notin ForkStages, \A l \in Press \ {k} : press'[l] = press[l],
           binding' = Target => binding = Target
    PROVE  ForkInv'
<1> USE DEF forkVars
<1>1. ASSUME NEW l \in Press PROVE ForkPressOK(l)'
  <2>1. CASE l = k
    BY <2>1 DEF ForkPressOK, ForkStages
  <2>2. CASE l # k
    BY <2>2 DEF ForkInv, ForkPressOK, Pending
  <2> QED
    BY <2>1, <2>2
<1> QED
    BY <1>1 DEF ForkInv, ForkToldTruly

\* Forks: the row is asked for a fork.
LEMMA ForkBegin ==
    ASSUME ButtonsTypeOK, ButtonsTypeOK', ForkInv, NEW k \in Press, BeginFork(k)
    PROVE  ForkInv'
<1>1. UNCHANGED <<forkCard, forks, binding>> /\ press[k].stage = "beginning"
    BY DEF BeginFork
<1>2. CASE UNCHANGED fork /\ Moved(k, "done", press[k].outcome)
    BY <1>1, <1>2, ForkQuiet DEF Moved, ForkStages, forkVars
<1>3. ASSUME NEW s \in {"forking", "done"}, Moved(k, s, press[k].outcome),
             fork.status = "none", binding = Source, fork' = [by |-> k, status |-> "pending"]
      PROVE  ForkInv'
  <2>1. forks = 0 /\ forkCard = "none"
    BY <1>3 DEF ForkInv
  <2>2. \A l \in Press : press[l].stage \notin ForkStages
    BY <1>3 DEF ForkInv, ForkPressOK, Pending, ForkStages
  <2>3. ASSUME NEW l \in Press PROVE ForkPressOK(l)'
    <3>1. CASE l = k
      BY <1>1, <1>3, <2>1, <3>1 DEF ForkPressOK, Pending, Moved
    <3>2. CASE l # k
      BY <1>3, <2>2, <3>2 DEF ForkPressOK, ForkStages, Moved
    <3> QED
      BY <3>1, <3>2
  <2>4. ForkToldTruly'
    BY <1>1, <1>3, <2>1, ButtonAssumption DEF ForkToldTruly
  <2> QED
    BY <1>1, <1>3, <2>1, <2>3, <2>4 DEF ForkInv
<1> QED
    BY <1>2, <1>3, ForkMoves

\* No other press has the row, and the card tells nothing of a fork that is under way.
LEMMA ForkAlone ==
    ASSUME ButtonsTypeOK, ForkInv, NEW k \in Press, press[k].stage \in ForkStages
    PROVE  /\ fork.by = k /\ fork.status # "none" /\ forkCard = "none"
           /\ \A l \in Press \ {k} : press[l].stage \notin ForkStages
<1>1. \A l \in Press : press[l].stage \in ForkStages => fork.by = l /\ fork.status # "none"
    BY DEF ForkInv, ForkPressOK, Pending, ForkStages
<1>2. forkCard = "none"
    BY <1>1 DEF ForkInv, ForkStages
<1> QED
    BY <1>1, <1>2

\* Forks: the fork is carried out.
LEMMA ForkGoesOn ==
    ASSUME ButtonsTypeOK, ForkInv, NEW k \in Press, StartFork(k) \/ RequestFork(k)
    PROVE  ForkInv'
<1>1. press[k].stage \in {"forking", "requesting"}
    BY DEF StartFork, RequestFork
<1>2. /\ fork.by = k /\ forkCard = "none" /\ \A l \in Press \ {k} : press[l].stage \notin ForkStages
    BY <1>1, ForkAlone DEF ForkStages
<1>3. Pending(k) /\ forks = 0 /\ binding # Target
    BY <1>1 DEF ForkInv, ForkPressOK, Pending, ForkToldTruly
<1>4. UNCHANGED <<fork, forkCard, binding>>
    BY DEF StartFork, RequestFork, forkVars
<1>5. PICK s : /\ Moved(k, s, press[k].outcome)
               /\ \/ s \in {"failed", "requesting"} /\ forks' = 0
                  \/ s \in {"committing", "unknown", "failed"} /\ forks' = 1
  <2>1. CASE StartFork(k)
    BY <1>3, <2>1, ForkMoves DEF StartFork, forkVars
  <2>2. CASE RequestFork(k)
    BY <1>3, <2>2, ForkMoves DEF RequestFork
  <2> QED
    BY <2>1, <2>2
<1>6. ASSUME NEW l \in Press PROVE ForkPressOK(l)'
  <2>1. CASE l = k
    BY <1>3, <1>4, <1>5, <2>1 DEF ForkPressOK, Pending, Moved
  <2>2. CASE l # k
    BY <1>2, <1>5, <2>2 DEF ForkPressOK, ForkStages, Moved
  <2> QED
    BY <2>1, <2>2
<1>7. ForkToldTruly'
    BY <1>2, <1>3, <1>4, <1>5 DEF ForkToldTruly
<1> QED
    BY <1>2, <1>3, <1>4, <1>6, <1>7 DEF ForkInv, Pending

\* Forks: the row is settled, with the new thread bound or not.
LEMMA ForkSettles ==
    ASSUME ButtonsTypeOK, ForkInv, NEW k \in Press, CommitFork(k) \/ FailFork(k)
    PROVE  ForkInv'
<1>1. press[k].stage \in {"committing", "failed", "unknown"} /\ UNCHANGED <<forkCard, forks>>
    BY DEF CommitFork, FailFork
<1>2. /\ fork.by = k /\ fork.status # "none" /\ forkCard = "none"
      /\ \A l \in Press \ {k} : press[l].stage \notin ForkStages
    BY <1>1, ForkAlone DEF ForkStages
<1>3. /\ press[k].stage \in {"committing", "failed"} => Pending(k)
      /\ forks <= 1 /\ (binding = Target => fork.status = "succeeded")
    BY DEF ForkInv, ForkPressOK, ForkToldTruly
<1>4. /\ fork'.by = k /\ fork'.status # "none" /\ (binding' = Target => fork'.status = "succeeded")
      /\ \E s \in {"publishing", "unknown"} : \E o :
            /\ Moved(k, s, o)
            /\ s = "publishing" => /\ o \in ForkResults
                                   /\ o \in {"succeeded", "superseded"} => fork'.status = o
                                   /\ o = "failed" => fork'.status \in {"failed", "pending"}
  <2>1. \A result \in ForkResults : Settled(k, result) =>
            /\ fork'.by = k /\ fork'.status = IF Pending(k) THEN result ELSE fork.status
    BY <1>2 DEF Settled, ButtonsTypeOK
  <2>2. CASE CommitFork(k)
    <3>1. Pending(k) /\ fork.status = "pending" /\ binding # Target
      BY <1>3, <2>2 DEF CommitFork, Pending
    <3>2. PICK result \in {"succeeded", "superseded"} :
             /\ \/ Settled(k, result) /\ Moved(k, "publishing", fork'.status)
                \/ Settled(k, result) /\ Moved(k, "unknown", press[k].outcome)
                \/ UNCHANGED <<fork, binding>> /\ Moved(k, "unknown", press[k].outcome)
             /\ \/ UNCHANGED binding
                \/ Pending(k) /\ result = "succeeded" /\ fork'.status = "succeeded"
      BY <2>2, CommitMoves
    <3> QED
      BY <1>2, <2>1, <3>1, <3>2 DEF ForkResults
  <2>3. CASE FailFork(k)
    <3>1. UNCHANGED binding
      BY <2>3 DEF FailFork
    <3>2. fork.status \in ForkResults \cup {"pending"} /\ (Pending(k) <=> fork.status = "pending")
      BY <1>2 DEF ButtonsTypeOK, Pending
    <3> QED
      BY <1>2, <1>3, <2>1, <2>3, <3>1, <3>2, FailMoves DEF ForkResults
  <2> QED
    BY <2>2, <2>3
<1>5. ASSUME NEW l \in Press PROVE ForkPressOK(l)'
  <2>1. CASE l = k
    BY <1>4, <2>1 DEF ForkPressOK, Moved
  <2>2. CASE l # k
    BY <1>2, <1>4, <2>2 DEF ForkPressOK, ForkStages, Moved
  <2> QED
    BY <2>1, <2>2
<1>6. ForkToldTruly'
    BY <1>1, <1>2, <1>3, <1>4 DEF ForkToldTruly
<1> QED
    BY <1>1, <1>2, <1>4, <1>5, <1>6 DEF ForkInv

\* Forks: the card is told.
LEMMA ForkTells ==
    ASSUME ButtonsTypeOK, ForkInv, NEW k \in Press, PublishFork(k)
    PROVE  ForkInv'
<1>1. press[k].stage = "publishing" /\ UNCHANGED <<binding, fork, forks>>
    BY DEF PublishFork
<1>2. /\ fork.by = k /\ fork.status # "none" /\ forkCard = "none"
      /\ \A l \in Press \ {k} : press[l].stage \notin ForkStages
    BY <1>1, ForkAlone DEF ForkStages
<1>3. Moved(k, "done", press[k].outcome) /\ forkCard' \in {forkCard, press[k].outcome}
    BY ForkMoves DEF PublishFork
<1>4. ASSUME NEW l \in Press PROVE ForkPressOK(l)'
    BY <1>2, <1>3 DEF ForkPressOK, ForkStages, Moved
<1>5. ForkToldTruly'
    BY <1>1, <1>2, <1>3 DEF ForkInv, ForkPressOK, ForkToldTruly
<1> QED
    BY <1>1, <1>2, <1>3, <1>4, <1>5 DEF ForkInv, Moved

\* Forks: every step.
LEMMA ForkStep ==
    ASSUME ButtonsTypeOK, ButtonsTypeOK', ForkInv, ButtonsNext
    PROVE  ForkInv'
<1>1. CASE UNCHANGED <<forkVars, press>> /\ (binding' = Target => binding = Target)
    BY <1>1 DEF ForkInv, ForkPressOK, ForkToldTruly, Pending, forkVars
<1>2. CASE JobGoesOn \/ Rebind \/ \E t \in Turn : NativeEnds(t) \/ Settles(t) \/ Finalized(t)
  <2>1. UNCHANGED <<forkVars, press>> /\ (binding' = Target => binding = Target)
    BY <1>2, ButtonAssumption DEF JobGoesOn, Rebind, NativeEnds, Settles, Finalized
  <2> QED
    BY <1>1, <2>1
<1>3. CASE ButtonsCrash
  <2>1. UNCHANGED <<binding, forkVars>>
    BY <1>3 DEF ButtonsCrash
  <2>2. \A l \in Press : /\ press'[l].stage \in {"idle", "done"}
                         /\ press[l].stage = "done" => press'[l].stage = "done"
    BY <1>3 DEF ButtonsCrash, ButtonsTypeOK, Idle
  <2> QED
    BY <2>1, <2>2 DEF ForkInv, ForkPressOK, ForkToldTruly, forkVars
<1>4. ASSUME NEW k \in Press, Stops(k) PROVE ForkInv'
  <2>1. UNCHANGED <<binding, forkVars>> /\ press[k].stage # "done"
    BY <1>4 DEF Stops, PressStop, LoadBinding, BeginStop, Inspect, InterruptHeld,
       InterruptUnheld, SendInterrupt, FinishStop
  <2>2. press'[k].stage \notin ForkStages /\ \A l \in Press \ {k} : press'[l] = press[l]
    <3>1. CASE PressStop(k)
      BY <3>1 DEF PressStop, ButtonsTypeOK, Idle, ForkStages
    <3>2. CASE SendInterrupt(k)
      BY <3>2, SendMoves DEF Moved, ForkStages
    <3>3. CASE \/ LoadBinding(k) \/ BeginStop(k) \/ Inspect(k)
               \/ InterruptHeld(k) \/ InterruptUnheld(k) \/ FinishStop(k)
      BY <3>3, StopMoves DEF Moved, ForkStages, AfterBegin
    <3> QED
      BY <1>4, <3>1, <3>2, <3>3 DEF Stops
  <2> QED
    BY <2>1, <2>2, ForkQuiet
<1>5. ASSUME NEW k \in Press, PressFork(k) PROVE ForkInv'
  <2>1. UNCHANGED <<binding, forkVars>> /\ press[k].stage # "done"
    BY <1>5 DEF PressFork
  <2> QED
    BY <1>5, <2>1, ForkMoves, ForkQuiet DEF Moved, ForkStages
<1>6. ASSUME NEW k \in Press, Forks(k) PROVE ForkInv'
    BY <1>5, <1>6, ForkBegin, ForkGoesOn, ForkSettles, ForkTells DEF Forks
<1> QED
    BY <1>2, <1>3, <1>4, <1>6 DEF ButtonsNext

----------------------------------------------------------------------------
LEMMA ButtonsStart == ASSUME ButtonsInit PROVE ButtonsInv
<1>1. 1 \in Turn /\ \A t \in Turn : t \in Int /\ t >= 1
    BY ButtonAssumption DEF Turn
<1>2. ButtonsTypeOK
    BY <1>1, ButtonAssumption DEF ButtonsInit, ButtonsTypeOK, Idle, Stages
<1>3. StopInv
    BY <1>1, ButtonAssumption DEF ButtonsInit, StopInv, TurnsOK, HomeOK, StopPressOK, OneInterrupts,
       StopToldTruly, Interrupting, Loaded, LoadedStages, Idle
<1>4. ForkInv
    BY ButtonAssumption DEF ButtonsInit, ForkInv, ForkPressOK, ForkToldTruly, Idle
<1> QED
    BY <1>2, <1>3, <1>4 DEF ButtonsInv

LEMMA ButtonsStep == ASSUME ButtonsInv, [ButtonsNext]_buttonVars PROVE ButtonsInv'
<1>1. CASE ButtonsNext
  <2>1. ButtonsTypeOK'
    BY <1>1, TypeStep DEF ButtonsInv
  <2> QED
    BY <1>1, <2>1, StopStep, ForkStep DEF ButtonsInv
<1>2. CASE UNCHANGED buttonVars
    BY <1>2 DEF ButtonsInv, ButtonsTypeOK, StopInv, ForkInv, TurnsOK, HomeOK, StopPressOK,
       OneInterrupts, StopToldTruly, StopBegun, Bound, Recorded, Interrupting, Loaded, ForkPressOK,
       ForkToldTruly, Pending, buttonVars, turnVars, stopVars, forkVars
<1> QED
    BY <1>1, <1>2

\* Whatever is pressed, answered, lost or restarted: as long as the thread of its turn is bound, a
\* press that may interrupt the turn is the only one that was admitted for it; and the press that
\* forks is the one the row names (beginStop, finishStop, beginFork, finishFork).
THEOREM ButtonsInvariant == ButtonsSpec => []ButtonsInv
<1>1. ButtonsInit => ButtonsInv
    BY ButtonsStart
<1>2. ButtonsInv /\ [ButtonsNext]_buttonVars => ButtonsInv'
    BY ButtonsStep
<1> QED
    BY <1>1, <1>2, PTL DEF ButtonsSpec

\* The row, the turns, the presses and the card always have their types (handleCardAction).
THEOREM ButtonsTypeCorrect == ButtonsSpec => []ButtonsTypeOK
<1>1. ButtonsInv => ButtonsTypeOK
    BY DEF ButtonsInv
<1> QED
    BY <1>1, ButtonsInvariant, PTL

\* For any number of presses, turns, failures and crashes: a turn is interrupted at most once
\* while its conversation stays bound to its thread, and a recorded stop is true (beginStop,
\* interrupt, finishStop); a job is forked at most once, its conversation is bound to the fork
\* only when the row says so, and the card agrees with the row (beginFork, forkBinding,
\* finishFork).
THEOREM ButtonsTellTheTruth == ButtonsSpec => []ButtonsToldTruly
<1>1. ButtonsInv => ButtonsToldTruly
    BY DEF ButtonsInv, StopInv, ForkInv, ButtonsToldTruly
<1> QED
    BY <1>1, ButtonsInvariant, PTL

----------------------------------------------------------------------------
(* The progress card of a job: ProgressCard.                               *)

Executing == {"turn", "pausing", "paused", "preparing"}
Answering == {"finishing", "keeping", "closing", "texting"}
Hiding == {"deleting", "silencing"}
Delivered == {"replying", "ended"}

\* The stage fits the phase, and an update is under way in the stages that wait for it.
StageOK ==
    /\ stage \in Executing => phase = "running"
    /\ stage \in Answering => phase = "replying" /\ ~quiet
    /\ stage \in Hiding => phase = "replying" /\ quiet
    /\ stage = "settling" => phase = "replying"
    /\ chain.step # "none" => stage \in {"turn", "pausing", "preparing"}
    /\ own.step # "none" => stage \in {"paused", "finishing", "closing", "silencing"}
    /\ stage \in {"finishing", "closing"} => own.step # "none"

\* A card that shows progress, or will again.
Unfinished(c) == c.status # "ended" /\ c.silent = "no"

\* What the update of each stage shows and records.
UpdateOK ==
    /\ chain.step # "none" => chain.face \in {"running", "retrying"} /\ Unfinished(chain.value)
    /\ own.step # "none" =>
          CASE stage = "paused" -> own.face = "retrying" /\ Unfinished(own.value)
            [] stage = "finishing" -> own.face = "answer" /\ own.value.silent = "no"
            [] stage = "closing" -> own.face = "closed" /\ own.value.silent = "no"
                                      /\ own.value.fallback /\ ~own.creates
            [] OTHER -> own.face = "silent" /\ own.value.silent = "completed" /\ ~own.creates

\* What is recorded of the card, and what the process holds of it.
RecordOK ==
    /\ saved.silent # "no" =>
          quiet /\ phase \in Delivered /\ stage \notin Hiding /\ shows \in {"silent", "deleted"}
    /\ stage = "turn" /\ ~state.card.fallback => state.failures < UpdateFailureLimit
    /\ chain.step # "none" => state.failures < UpdateFailureLimit
    /\ phase \notin Delivered => Unfinished(saved)
    /\ stage \in Executing => Unfinished(state.card)
    /\ stage \in Answering => state.card.silent = "no"
    /\ stage \in {"keeping", "closing", "texting"} => state.card.fallback
    /\ stage \in {"closing", "texting"} => saved.fallback
    /\ stage = "closing" => state.card.message
    /\ stage \in Hiding /\ own.step = "none" => state.card.message

\* What the chat shows, and whether the answer was sent as a message.
ShownOK ==
    /\ shows \in {"answer", "closed"} => phase \in Delivered /\ ~quiet
    /\ shows \in {"silent", "deleted"} => phase \in Delivered /\ quiet
    /\ text => phase \in Delivered /\ ~quiet /\ saved.fallback /\ stage # "finishing"

\* The way of a delivery to its end: what is seen of the answer so far.
Seen ==
    IF quiet THEN sure => shows \in {"none", "silent", "deleted"}
    ELSE /\ text \/ shows = "answer"
         /\ sure => shows \in IF text THEN {"none", "closed"} ELSE {"answer"}
WayOK ==
    /\ stage = "silencing" /\ own.step = "persist" => shows = "silent"
    /\ ~orphan =>
          /\ stage = "finishing" /\ own.step = "sent" /\ own.creates => shows = "none"
          /\ stage = "finishing" /\ own.step = "persist" => shows = "answer"
          /\ stage = "keeping" /\ sure /\ ~state.card.message => shows = "none"
          /\ stage = "closing" /\ own.step = "persist" => shows = "closed"
          /\ stage = "texting" /\ sure => shows \in {"none", "closed"}
          /\ stage = "settling" \/ phase = "ended" => Seen

CardInv == CardTypeOK /\ StageOK /\ UpdateOK /\ RecordOK /\ ShownOK /\ WayOK
----------------------------------------------------------------------------
\* The types of what an action takes apart.
LEMMA CardTyped ==
    ASSUME CardTypeOK
    PROVE  /\ state = [card |-> state.card, failures |-> state.failures]
           /\ state.card \in Saved /\ state.failures \in 0..UpdateFailureLimit
           /\ chain = [step |-> chain.step, face |-> chain.face, creates |-> chain.creates,
                       value |-> chain.value]
           /\ own = [step |-> own.step, face |-> own.face, creates |-> own.creates,
                     value |-> own.value]
    BY DEF CardTypeOK, Update

\* Of the fields of Sent.
LEMMA SentIs ==
    ASSUME NEW c \in Saved, NEW face \in Face
    PROVE  /\ Sent(c, face) \in Update
           /\ Sent(c, face).step = "sent" /\ Sent(c, face).face = face
           /\ Sent(c, face).creates = ~c.message
           /\ Sent(c, face).value.silent = c.silent
           /\ Sent(c, face).value.status = c.status
           /\ Sent(c, face).value.fallback = c.fallback
    BY DEF Sent, Update, Saved

LEMMA NoUpdateIs == NoUpdate \in Update /\ NoUpdate.step = "none"
    BY DEF NoUpdate, Update, NoCard, Saved, Face

LEMMA BeginKeeps == ASSUME CardInv, Begin PROVE CardInv'
<1>1. CardTypeOK'
  <2>1. state' \in [card : Saved, failures : 0..UpdateFailureLimit]
    BY DEF CardInv, CardTypeOK, Begin, UpdateFailureLimit
  <2>2. {dirty, text, sure, orphan}' \subseteq BOOLEAN
    BY DEF CardInv, CardTypeOK, Begin
  <2> QED
    BY <2>1, NoUpdateIs DEF CardInv, CardTypeOK, Begin
<1>2. StageOK' /\ UpdateOK'
    BY NoUpdateIs DEF StageOK, UpdateOK, Begin, Answering, Hiding
<1>3. RecordOK' /\ ShownOK' /\ WayOK'
    BY DEF CardInv, RecordOK, UpdateFailureLimit, ShownOK, WayOK, Begin, Hiding, Delivered
<1> QED
    BY <1>1, <1>2, <1>3 DEF CardInv

LEMMA PushKeeps == ASSUME CardInv, Push PROVE CardInv'
<1>1. CardTypeOK'
    BY DEF CardInv, CardTypeOK, Push, Saved, outside
<1>2. StageOK' /\ UpdateOK'
    BY DEF CardInv, StageOK, UpdateOK, Push, outside
<1>3. RecordOK' /\ ShownOK' /\ WayOK'
    BY DEF CardInv, CardTypeOK, Saved, RecordOK, Unfinished, ShownOK, WayOK, Push, outside, Seen
<1> QED
    BY <1>1, <1>2, <1>3 DEF CardInv

LEMMA HitchTyped == ASSUME CardTypeOK, Hitch PROVE hitches' \in 0..MaxHitches
    BY HitchAssumption DEF CardTypeOK, Hitch

LEMMA TakenTyped == ASSUME CardTypeOK, NEW u \in Update PROVE Taken(u) \in Face \cup {"none", "deleted"}
    BY DEF CardTypeOK, Taken, Update

LEMMA EnqueueKeeps == ASSUME CardInv, Enqueue PROVE CardInv'
<1>1. CardTypeOK'
  <2>1. state' \in [card : Saved, failures : 0..UpdateFailureLimit]
    BY CardTyped DEF CardInv, Enqueue
  <2>2. saved' \in Saved /\ chain' \in Update /\ own' \in Update
    BY SentIs
       DEF CardInv, CardTypeOK, RecordOK, Unfinished, Executing, Enqueue, outside, Face, Saved
  <2>3. {dirty, text, sure, orphan}' \subseteq BOOLEAN
    BY DEF CardInv, CardTypeOK, Enqueue, outside
  <2>4. shows' \in Face \cup {"none", "deleted"} /\ hitches' \in 0..MaxHitches
    BY DEF CardInv, CardTypeOK, Enqueue, outside
  <2>5. phase' \in {"pending", "running", "replying", "ended"} /\ quiet' \in BOOLEAN
    BY DEF CardInv, CardTypeOK, Enqueue, outside
  <2>6. stage' \in {"idle", "turn", "pausing", "paused", "preparing", "finishing", "keeping",
                   "closing", "texting", "deleting", "silencing", "settling"}
    BY DEF Enqueue
  <2> QED
    BY <2>1, <2>2, <2>3, <2>4, <2>5, <2>6 DEF CardTypeOK
<1>2. StageOK' /\ UpdateOK'
    BY SentIs, CardTyped
       DEF CardInv, StageOK, UpdateOK, RecordOK, Unfinished, Enqueue, outside, Face, Saved,
           Executing
<1>3. RecordOK' /\ ShownOK'
    BY DEF CardInv, RecordOK, ShownOK, Enqueue, outside
<1>4. WayOK'
    BY DEF CardInv, WayOK, Seen, Enqueue, outside
<1> QED
    BY <1>1, <1>2, <1>3, <1>4 DEF CardInv

LEMMA ChainTakenKeeps == ASSUME CardInv, ChainTaken PROVE CardInv'
<1>1. CardTypeOK'
  <2>1. state' \in [card : Saved, failures : 0..UpdateFailureLimit]
    BY CardTyped DEF CardInv, ChainTaken, Saved
  <2>2. saved' \in Saved /\ chain' \in Update /\ own' \in Update
    BY DEF CardInv, CardTypeOK, ChainTaken, Update
  <2>3. {dirty, text, sure, orphan}' \subseteq BOOLEAN
    BY DEF CardInv, CardTypeOK, ChainTaken, Takes
  <2>4. shows' \in Face \cup {"none", "deleted"} /\ hitches' \in 0..MaxHitches
    BY TakenTyped DEF CardInv, CardTypeOK, ChainTaken, Takes
  <2>5. phase' \in {"pending", "running", "replying", "ended"} /\ quiet' \in BOOLEAN
    BY DEF CardInv, CardTypeOK, ChainTaken
  <2>6. stage' \in {"idle", "turn", "pausing", "paused", "preparing", "finishing", "keeping",
                   "closing", "texting", "deleting", "silencing", "settling"}
    BY DEF CardInv, CardTypeOK, ChainTaken
  <2> QED
    BY <2>1, <2>2, <2>3, <2>4, <2>5, <2>6 DEF CardTypeOK
<1>2. StageOK' /\ UpdateOK'
    BY DEF CardInv, StageOK, UpdateOK, ChainTaken, Takes
<1>3. RecordOK' /\ ShownOK'
    BY CardTyped
       DEF CardInv, Saved, RecordOK, StageOK, UpdateOK, Unfinished, ShownOK, ChainTaken, Takes,
           Taken, Executing, Delivered
<1>4. WayOK'
    BY DEF CardInv, StageOK, WayOK, ChainTaken, Takes, Executing
<1> QED
    BY <1>1, <1>2, <1>3, <1>4 DEF CardInv

LEMMA ChainLostKeeps == ASSUME CardInv, ChainLost PROVE CardInv'
<1> DEFINE gives == state.failures + 1 >= UpdateFailureLimit \/ ~state.card.message
           worse == [state.card EXCEPT !.fallback = gives]
<1>0. /\ state' = [card |-> worse, failures |-> state.failures + 1]
      /\ worse \in Saved /\ worse.message = state.card.message /\ worse.fallback = gives
      /\ worse.status = state.card.status /\ worse.silent = state.card.silent
    BY CardTyped DEF CardInv, ChainLost, Saved
<1>9. state.failures \in 0..2
    BY CardTyped DEF CardInv, ChainLost, Loses, RecordOK, UpdateFailureLimit
<1> HIDE DEF worse
<1>1. CardTypeOK'
  <2>1. state' \in [card : Saved, failures : 0..UpdateFailureLimit]
    BY <1>0, <1>9 DEF UpdateFailureLimit
  <2>2. saved' \in Saved /\ chain' \in Update /\ own' \in Update
    BY NoUpdateIs DEF CardInv, CardTypeOK, ChainLost
  <2>3. {dirty, text, sure, orphan}' \subseteq BOOLEAN
    BY DEF CardInv, CardTypeOK, ChainLost, Loses
  <2>4. shows' \in Face \cup {"none", "deleted"} /\ hitches' \in 0..MaxHitches
    BY HitchTyped, TakenTyped DEF CardInv, CardTypeOK, ChainLost, Loses
  <2>5. phase' \in {"pending", "running", "replying", "ended"} /\ quiet' \in BOOLEAN
    BY DEF CardInv, CardTypeOK, ChainLost
  <2>6. stage' \in {"idle", "turn", "pausing", "paused", "preparing", "finishing", "keeping",
                   "closing", "texting", "deleting", "silencing", "settling"}
    BY DEF CardInv, CardTypeOK, ChainLost
  <2> QED
    BY <2>1, <2>2, <2>3, <2>4, <2>5, <2>6 DEF CardTypeOK
<1>2. StageOK' /\ UpdateOK'
    BY NoUpdateIs DEF CardInv, StageOK, UpdateOK, ChainLost
<1>3. RecordOK' /\ ShownOK'
    BY <1>0, CardTyped, NoUpdateIs
       DEF CardInv, Saved, RecordOK, StageOK, UpdateOK, Unfinished, UpdateFailureLimit, ShownOK,
           ChainLost, Loses, Taken, Executing, Delivered
<1>4. WayOK'
    BY DEF CardInv, StageOK, WayOK, ChainLost, Loses, Executing
<1> QED
    BY <1>1, <1>2, <1>3, <1>4 DEF CardInv

LEMMA ChainKeptKeeps == ASSUME CardInv, ChainKept PROVE CardInv'
<1>1. CardTypeOK'
  <2>1. state' \in [card : Saved, failures : 0..UpdateFailureLimit]
    BY CardTyped DEF CardInv, ChainKept
  <2>2. saved' \in Saved /\ chain' \in Update /\ own' \in Update
    BY NoUpdateIs DEF CardInv, CardTypeOK, ChainKept, Persists, PersistFails, Update
  <2>3. {dirty, text, sure, orphan}' \subseteq BOOLEAN
    BY DEF CardInv, CardTypeOK, ChainKept
  <2>4. shows' \in Face \cup {"none", "deleted"} /\ hitches' \in 0..MaxHitches
    BY HitchTyped DEF CardInv, CardTypeOK, ChainKept, Persists, PersistFails
  <2>5. phase' \in {"pending", "running", "replying", "ended"} /\ quiet' \in BOOLEAN
    BY DEF CardInv, CardTypeOK, ChainKept
  <2>6. stage' \in {"idle", "turn", "pausing", "paused", "preparing", "finishing", "keeping",
                   "closing", "texting", "deleting", "silencing", "settling"}
    BY DEF CardInv, CardTypeOK, ChainKept
  <2> QED
    BY <2>1, <2>2, <2>3, <2>4, <2>5, <2>6 DEF CardTypeOK
<1>2. StageOK' /\ UpdateOK'
    BY NoUpdateIs DEF CardInv, StageOK, UpdateOK, ChainKept
<1>3. RecordOK' /\ ShownOK'
    BY DEF CardInv, RecordOK, StageOK, UpdateOK, Unfinished, ShownOK, ChainKept, Persists,
       PersistFails, Executing, Delivered
<1>4. WayOK'
    BY DEF CardInv, WayOK, Seen, ChainKept
<1> QED
    BY <1>1, <1>2, <1>3, <1>4 DEF CardInv

LEMMA TurnEndsKeeps == ASSUME CardInv, TurnEnds PROVE CardInv'
<1>1. CardTypeOK'
  <2>1. state' \in [card : Saved, failures : 0..UpdateFailureLimit]
    BY DEF CardInv, CardTypeOK, TurnEnds
  <2>2. saved' \in Saved /\ chain' \in Update /\ own' \in Update
    BY DEF CardInv, CardTypeOK, TurnEnds
  <2>3. {dirty, text, sure, orphan}' \subseteq BOOLEAN
    BY DEF CardInv, CardTypeOK, TurnEnds
  <2>4. shows' \in Face \cup {"none", "deleted"} /\ hitches' \in 0..MaxHitches
    BY DEF CardInv, CardTypeOK, TurnEnds
  <2>5. phase' \in {"pending", "running", "replying", "ended"} /\ quiet' \in BOOLEAN
    BY DEF CardInv, CardTypeOK, TurnEnds
  <2>6. stage' \in {"idle", "turn", "pausing", "paused", "preparing", "finishing", "keeping",
                   "closing", "texting", "deleting", "silencing", "settling"}
    BY DEF TurnEnds
  <2> QED
    BY <2>1, <2>2, <2>3, <2>4, <2>5, <2>6 DEF CardTypeOK
<1>2. StageOK' /\ UpdateOK'
    BY DEF CardInv, StageOK, UpdateOK, TurnEnds, Executing, Answering, Hiding
<1>3. RecordOK' /\ ShownOK'
    BY DEF CardInv, RecordOK, StageOK, Unfinished, ShownOK, TurnEnds, Executing, Hiding, Delivered
<1>4. WayOK'
    BY DEF CardInv, StageOK, WayOK, TurnEnds, Executing
<1> QED
    BY <1>1, <1>2, <1>3, <1>4 DEF CardInv

LEMMA StayPausedKeeps == ASSUME CardInv, StayPaused PROVE CardInv'
<1>1. CardTypeOK'
  <2>1. state' \in [card : Saved, failures : 0..UpdateFailureLimit]
    BY DEF CardInv, CardTypeOK, StayPaused
  <2>2. saved' \in Saved /\ chain' \in Update /\ own' \in Update
    BY DEF CardInv, CardTypeOK, StayPaused
  <2>3. {dirty, text, sure, orphan}' \subseteq BOOLEAN
    BY DEF CardInv, CardTypeOK, StayPaused
  <2>4. shows' \in Face \cup {"none", "deleted"} /\ hitches' \in 0..MaxHitches
    BY DEF CardInv, CardTypeOK, StayPaused
  <2>5. phase' \in {"pending", "running", "replying", "ended"} /\ quiet' \in BOOLEAN
    BY DEF CardInv, CardTypeOK, StayPaused
  <2>6. stage' \in {"idle", "turn", "pausing", "paused", "preparing", "finishing", "keeping",
                   "closing", "texting", "deleting", "silencing", "settling"}
    BY DEF StayPaused
  <2> QED
    BY <2>1, <2>2, <2>3, <2>4, <2>5, <2>6 DEF CardTypeOK
<1>2. StageOK' /\ UpdateOK'
    BY DEF CardInv, StageOK, UpdateOK, StayPaused, ChainSettled, Executing, Answering, Hiding
<1>3. RecordOK' /\ ShownOK'
    BY DEF CardInv, RecordOK, StageOK, Unfinished, ShownOK, StayPaused, Executing, Hiding, Delivered
<1>4. WayOK'
    BY DEF WayOK, StayPaused
<1> QED
    BY <1>1, <1>2, <1>3, <1>4 DEF CardInv

LEMMA PauseKeeps == ASSUME CardInv, Pause PROVE CardInv'
<1>1. CardTypeOK'
  <2>1. state' \in [card : Saved, failures : 0..UpdateFailureLimit]
    BY CardTyped DEF CardInv, Pause, Saved
  <2>2. saved' \in Saved /\ chain' \in Update /\ own' \in Update
    BY SentIs DEF CardInv, CardTypeOK, Pause, outside, Face, Saved
  <2>3. {dirty, text, sure, orphan}' \subseteq BOOLEAN
    BY DEF CardInv, CardTypeOK, Pause, outside
  <2>4. shows' \in Face \cup {"none", "deleted"} /\ hitches' \in 0..MaxHitches
    BY DEF CardInv, CardTypeOK, Pause, outside
  <2>5. phase' \in {"pending", "running", "replying", "ended"} /\ quiet' \in BOOLEAN
    BY DEF CardInv, CardTypeOK, Pause, outside
  <2>6. stage' \in {"idle", "turn", "pausing", "paused", "preparing", "finishing", "keeping",
                   "closing", "texting", "deleting", "silencing", "settling"}
    BY DEF Pause
  <2> QED
    BY <2>1, <2>2, <2>3, <2>4, <2>5, <2>6 DEF CardTypeOK
<1>2. StageOK' /\ UpdateOK'
    BY SentIs, CardTyped
       DEF CardInv, StageOK, UpdateOK, RecordOK, Unfinished, Pause, outside, ChainSettled, Face,
           Saved, Executing, Answering, Hiding
<1>3. RecordOK' /\ ShownOK'
    BY CardTyped
       DEF CardInv, Saved, RecordOK, Unfinished, ShownOK, Pause, outside, Executing, Hiding
<1>4. WayOK'
    BY DEF CardInv, WayOK, Seen, Pause, outside
<1> QED
    BY <1>1, <1>2, <1>3, <1>4 DEF CardInv

LEMMA WaitKeeps == ASSUME CardInv, Wait PROVE CardInv'
<1>1. CardTypeOK'
  <2>1. state' \in [card : Saved, failures : 0..UpdateFailureLimit]
    BY CardTyped DEF CardInv, Wait
  <2>2. saved' \in Saved /\ chain' \in Update /\ own' \in Update
    BY DEF CardInv, CardTypeOK, Wait, Persists, PersistFails
  <2>3. {dirty, text, sure, orphan}' \subseteq BOOLEAN
    BY DEF CardInv, CardTypeOK, Wait
  <2>4. shows' \in Face \cup {"none", "deleted"} /\ hitches' \in 0..MaxHitches
    BY HitchTyped DEF CardInv, CardTypeOK, Wait, Persists, PersistFails
  <2>5. phase' \in {"pending", "running", "replying", "ended"} /\ quiet' \in BOOLEAN
    BY DEF CardInv, CardTypeOK, Wait
  <2>6. stage' \in {"idle", "turn", "pausing", "paused", "preparing", "finishing", "keeping",
                   "closing", "texting", "deleting", "silencing", "settling"}
    BY DEF Wait
  <2> QED
    BY <2>1, <2>2, <2>3, <2>4, <2>5, <2>6 DEF CardTypeOK
<1>2. StageOK' /\ UpdateOK'
    BY DEF CardInv, StageOK, UpdateOK, Wait, Executing, Answering, Hiding
<1>3. RecordOK' /\ ShownOK'
    BY DEF CardInv, RecordOK, StageOK, Unfinished, ShownOK, Wait, Persists, PersistFails, Executing,
       Hiding, Delivered
<1>4. WayOK'
    BY DEF WayOK, Wait
<1> QED
    BY <1>1, <1>2, <1>3, <1>4 DEF CardInv

LEMMA PrepareKeeps == ASSUME CardInv, Prepare PROVE CardInv'
<1>1. CardTypeOK'
  <2>1. state' \in [card : Saved, failures : 0..UpdateFailureLimit]
    BY CardTyped DEF CardInv, Prepare
  <2>2. saved' \in Saved /\ chain' \in Update /\ own' \in Update
    BY DEF CardInv, CardTypeOK, Prepare, Persists
  <2>3. {dirty, text, sure, orphan}' \subseteq BOOLEAN
    BY DEF CardInv, CardTypeOK, Prepare
  <2>4. shows' \in Face \cup {"none", "deleted"} /\ hitches' \in 0..MaxHitches
    BY DEF CardInv, CardTypeOK, Prepare, Persists
  <2>5. phase' \in {"pending", "running", "replying", "ended"} /\ quiet' \in BOOLEAN
    BY DEF CardInv, CardTypeOK, Prepare
  <2>6. stage' \in {"idle", "turn", "pausing", "paused", "preparing", "finishing", "keeping",
                   "closing", "texting", "deleting", "silencing", "settling"}
    BY DEF Prepare
  <2> QED
    BY <2>1, <2>2, <2>3, <2>4, <2>5, <2>6 DEF CardTypeOK
<1>2. StageOK' /\ UpdateOK'
    BY DEF CardInv, StageOK, UpdateOK, Prepare, ChainSettled, Executing, Answering, Hiding
<1>3. RecordOK' /\ ShownOK'
    BY DEF CardInv, RecordOK, StageOK, Unfinished, ShownOK, Prepare, Persists, Executing, Hiding,
       Delivered
<1>4. WayOK'
    BY DEF WayOK, Prepare
<1> QED
    BY <1>1, <1>2, <1>3, <1>4 DEF CardInv

LEMMA PrepareFailsKeeps == ASSUME CardInv, PrepareFails PROVE CardInv'
<1>1. CardTypeOK'
  <2>1. state' \in [card : Saved, failures : 0..UpdateFailureLimit]
    BY CardTyped DEF CardInv, PrepareFails
  <2>2. saved' \in Saved /\ chain' \in Update /\ own' \in Update
    BY DEF CardInv, CardTypeOK, PrepareFails, PersistFails
  <2>3. {dirty, text, sure, orphan}' \subseteq BOOLEAN
    BY DEF CardInv, CardTypeOK, PrepareFails
  <2>4. shows' \in Face \cup {"none", "deleted"} /\ hitches' \in 0..MaxHitches
    BY HitchTyped DEF CardInv, CardTypeOK, PrepareFails, PersistFails
  <2>5. phase' \in {"pending", "running", "replying", "ended"} /\ quiet' \in BOOLEAN
    BY DEF CardInv, CardTypeOK, PrepareFails
  <2>6. stage' \in {"idle", "turn", "pausing", "paused", "preparing", "finishing", "keeping",
                   "closing", "texting", "deleting", "silencing", "settling"}
    BY DEF PrepareFails
  <2> QED
    BY <2>1, <2>2, <2>3, <2>4, <2>5, <2>6 DEF CardTypeOK
<1>2. StageOK' /\ UpdateOK'
    BY DEF CardInv, StageOK, UpdateOK, PrepareFails, ChainSettled, Executing, Answering, Hiding
<1>3. RecordOK' /\ ShownOK'
    BY DEF CardInv, RecordOK, StageOK, Unfinished, ShownOK, PrepareFails, PersistFails, Executing,
       Hiding, Delivered
<1>4. WayOK'
    BY DEF CardInv, StageOK, WayOK, PrepareFails, Executing
<1> QED
    BY <1>1, <1>2, <1>3, <1>4 DEF CardInv

LEMMA DeliverKeeps == ASSUME CardInv, Deliver PROVE CardInv'
<1>1. CardTypeOK'
  <2>1. state' \in [card : Saved, failures : 0..UpdateFailureLimit]
    BY DEF CardInv, CardTypeOK, UpdateFailureLimit, Deliver, Saved
  <2>2. saved' \in Saved /\ chain' \in Update /\ own' \in Update
    BY SentIs DEF CardInv, CardTypeOK, Deliver, Saved, Face
  <2>3. {dirty, text, sure, orphan}' \subseteq BOOLEAN
    BY DEF CardInv, CardTypeOK, Deliver
  <2>4. shows' \in Face \cup {"none", "deleted"} /\ hitches' \in 0..MaxHitches
    BY DEF CardInv, CardTypeOK, Deliver
  <2>5. phase' \in {"pending", "running", "replying", "ended"} /\ quiet' \in BOOLEAN
    BY DEF CardInv, CardTypeOK, Deliver
  <2>6. stage' \in {"idle", "turn", "pausing", "paused", "preparing", "finishing", "keeping",
                   "closing", "texting", "deleting", "silencing", "settling"}
    BY DEF Deliver
  <2> QED
    BY <2>1, <2>2, <2>3, <2>4, <2>5, <2>6 DEF CardTypeOK
<1>2. StageOK' /\ UpdateOK'
    BY SentIs
       DEF CardInv, CardTypeOK, StageOK, UpdateOK, RecordOK, Deliver, Saved, Face, Executing,
           Answering, Hiding
<1>3. RecordOK' /\ ShownOK'
    BY DEF CardInv, RecordOK, UpdateFailureLimit, ShownOK, Deliver, Executing, Answering, Hiding
<1>4. WayOK'
    BY SentIs DEF CardInv, CardTypeOK, RecordOK, StageOK, WayOK, Seen, Deliver, Saved, Face
<1> QED
    BY <1>1, <1>2, <1>3, <1>4 DEF CardInv

LEMMA OwnTakenKeeps == ASSUME CardInv, OwnTaken PROVE CardInv'
<1>1. CardTypeOK'
  <2>1. state' \in [card : Saved, failures : 0..UpdateFailureLimit]
    BY CardTyped DEF CardInv, OwnTaken, Saved
  <2>2. saved' \in Saved /\ chain' \in Update /\ own' \in Update
    BY DEF CardInv, CardTypeOK, OwnTaken, Update
  <2>3. {dirty, text, sure, orphan}' \subseteq BOOLEAN
    BY DEF CardInv, CardTypeOK, OwnTaken, Takes
  <2>4. shows' \in Face \cup {"none", "deleted"} /\ hitches' \in 0..MaxHitches
    BY TakenTyped DEF CardInv, CardTypeOK, OwnTaken, Takes
  <2>5. phase' \in {"pending", "running", "replying", "ended"} /\ quiet' \in BOOLEAN
    BY DEF CardInv, CardTypeOK, OwnTaken
  <2>6. stage' \in {"idle", "turn", "pausing", "paused", "preparing", "finishing", "keeping",
                   "closing", "texting", "deleting", "silencing", "settling"}
    BY DEF CardInv, CardTypeOK, OwnTaken
  <2> QED
    BY <2>1, <2>2, <2>3, <2>4, <2>5, <2>6 DEF CardTypeOK
<1>2. StageOK' /\ UpdateOK'
    BY DEF CardInv, StageOK, UpdateOK, OwnTaken, Takes
<1>3. RecordOK' /\ ShownOK'
    BY CardTyped
       DEF CardInv, Saved, RecordOK, StageOK, UpdateOK, Unfinished, ShownOK, OwnTaken, Takes, Taken,
           Executing, Answering, Hiding, Delivered
<1>4. WayOK'
    BY DEF CardInv, StageOK, UpdateOK, WayOK, OwnTaken, Takes, Taken, Executing, Answering, Hiding
<1> QED
    BY <1>1, <1>2, <1>3, <1>4 DEF CardInv

LEMMA OwnKeptKeeps == ASSUME CardInv, OwnKept PROVE CardInv'
<1>1. CardTypeOK'
  <2>1. state' \in [card : Saved, failures : 0..UpdateFailureLimit]
    BY CardTyped DEF CardInv, OwnKept
  <2>2. saved' \in Saved /\ chain' \in Update /\ own' \in Update
    BY NoUpdateIs DEF CardInv, CardTypeOK, OwnKept, Persists, PersistFails, Update
  <2>3. {dirty, text, sure, orphan}' \subseteq BOOLEAN
    BY DEF CardInv, CardTypeOK, OwnKept
  <2>4. shows' \in Face \cup {"none", "deleted"} /\ hitches' \in 0..MaxHitches
    BY HitchTyped DEF CardInv, CardTypeOK, OwnKept, Persists, PersistFails
  <2>5. phase' \in {"pending", "running", "replying", "ended"} /\ quiet' \in BOOLEAN
    BY DEF CardInv, CardTypeOK, OwnKept
  <2>6. stage' \in {"idle", "turn", "pausing", "paused", "preparing", "finishing", "keeping",
                   "closing", "texting", "deleting", "silencing", "settling"}
    BY DEF CardInv, CardTypeOK, OwnKept, After
  <2> QED
    BY <2>1, <2>2, <2>3, <2>4, <2>5, <2>6 DEF CardTypeOK
<1>2. StageOK' /\ UpdateOK'
    BY NoUpdateIs DEF CardInv, StageOK, UpdateOK, OwnKept, After, Executing, Answering, Hiding
<1>3. RecordOK' /\ ShownOK'
    BY DEF CardInv, RecordOK, StageOK, UpdateOK, Unfinished, WayOK, ShownOK, OwnKept, Persists,
       PersistFails, After, Executing, Answering, Hiding, Delivered
<1>4. WayOK'
    BY DEF CardInv, ShownOK, WayOK, Seen, OwnKept, After
<1> QED
    BY <1>1, <1>2, <1>3, <1>4 DEF CardInv

LEMMA OwnLostKeeps == ASSUME CardInv, OwnLost PROVE CardInv'
<1> DEFINE given == [state.card EXCEPT !.fallback = @ \/ stage = "finishing"]
<1>0. /\ state' = [card |-> given, failures |-> state.failures]
      /\ given.message = state.card.message /\ given.silent = state.card.silent
      /\ given.status = state.card.status /\ (given.fallback <=> state.card.fallback \/ stage = "finishing")
    BY CardTyped DEF CardInv, OwnLost, Saved
<1> HIDE DEF given
<1>1. CardTypeOK'
  <2>1. state' \in [card : Saved, failures : 0..UpdateFailureLimit]
    BY CardTyped DEF CardInv, OwnLost, Saved
  <2>2. saved' \in Saved /\ chain' \in Update /\ own' \in Update
    BY NoUpdateIs DEF CardInv, CardTypeOK, OwnLost
  <2>3. {dirty, text, sure, orphan}' \subseteq BOOLEAN
    BY DEF CardInv, CardTypeOK, OwnLost, Loses
  <2>4. shows' \in Face \cup {"none", "deleted"} /\ hitches' \in 0..MaxHitches
    BY HitchTyped, TakenTyped DEF CardInv, CardTypeOK, OwnLost, Loses
  <2>5. phase' \in {"pending", "running", "replying", "ended"} /\ quiet' \in BOOLEAN
    BY DEF CardInv, CardTypeOK, OwnLost
  <2>6. stage' \in {"idle", "turn", "pausing", "paused", "preparing", "finishing", "keeping",
                   "closing", "texting", "deleting", "silencing", "settling"}
    BY DEF CardInv, CardTypeOK, OwnLost, After
  <2> QED
    BY <2>1, <2>2, <2>3, <2>4, <2>5, <2>6 DEF CardTypeOK
<1>2. StageOK' /\ UpdateOK'
    BY NoUpdateIs DEF CardInv, StageOK, UpdateOK, OwnLost, After, Executing, Answering, Hiding
<1>3. RecordOK' /\ ShownOK'
    BY <1>0
       DEF CardInv, RecordOK, StageOK, UpdateOK, Unfinished, ShownOK, OwnLost, Loses, Taken, After,
           Executing, Answering, Hiding, Delivered
<1>4. WayOK'
    BY DEF CardInv, StageOK, WayOK, Seen, OwnLost, Loses, After, Executing, Answering, Hiding
<1> QED
    BY <1>1, <1>2, <1>3, <1>4 DEF CardInv

LEMMA KeepKeeps == ASSUME CardInv, Keep PROVE CardInv'
<1>1. CardTypeOK'
  <2>1. state' \in [card : Saved, failures : 0..UpdateFailureLimit]
    BY CardTyped DEF CardInv, Keep
  <2>2. saved' \in Saved /\ chain' \in Update /\ own' \in Update
    BY SentIs DEF CardInv, CardTypeOK, Keep, Persists, Face
  <2>3. {dirty, text, sure, orphan}' \subseteq BOOLEAN
    BY DEF CardInv, CardTypeOK, Keep
  <2>4. shows' \in Face \cup {"none", "deleted"} /\ hitches' \in 0..MaxHitches
    BY DEF CardInv, CardTypeOK, Keep, Persists
  <2>5. phase' \in {"pending", "running", "replying", "ended"} /\ quiet' \in BOOLEAN
    BY DEF CardInv, CardTypeOK, Keep
  <2>6. stage' \in {"idle", "turn", "pausing", "paused", "preparing", "finishing", "keeping",
                   "closing", "texting", "deleting", "silencing", "settling"}
    BY DEF Keep
  <2> QED
    BY <2>1, <2>2, <2>3, <2>4, <2>5, <2>6 DEF CardTypeOK
<1>2. StageOK' /\ UpdateOK'
    BY SentIs
       DEF CardInv, CardTypeOK, StageOK, UpdateOK, RecordOK, Keep, Face, Executing, Answering,
           Hiding
<1>3. RecordOK' /\ ShownOK'
    BY DEF CardInv, RecordOK, StageOK, ShownOK, Keep, Persists, Executing, Answering, Hiding,
       Delivered
<1>4. WayOK'
    BY SentIs, CardTyped DEF CardInv, WayOK, Seen, Keep, Face
<1> QED
    BY <1>1, <1>2, <1>3, <1>4 DEF CardInv

LEMMA KeepFailsKeeps == ASSUME CardInv, KeepFails PROVE CardInv'
<1>1. CardTypeOK'
  <2>1. state' \in [card : Saved, failures : 0..UpdateFailureLimit]
    BY CardTyped DEF CardInv, KeepFails
  <2>2. saved' \in Saved /\ chain' \in Update /\ own' \in Update
    BY DEF CardInv, CardTypeOK, KeepFails, PersistFails
  <2>3. {dirty, text, sure, orphan}' \subseteq BOOLEAN
    BY DEF CardInv, CardTypeOK, KeepFails
  <2>4. shows' \in Face \cup {"none", "deleted"} /\ hitches' \in 0..MaxHitches
    BY HitchTyped DEF CardInv, CardTypeOK, KeepFails, PersistFails
  <2>5. phase' \in {"pending", "running", "replying", "ended"} /\ quiet' \in BOOLEAN
    BY DEF CardInv, CardTypeOK, KeepFails
  <2>6. stage' \in {"idle", "turn", "pausing", "paused", "preparing", "finishing", "keeping",
                   "closing", "texting", "deleting", "silencing", "settling"}
    BY DEF KeepFails
  <2> QED
    BY <2>1, <2>2, <2>3, <2>4, <2>5, <2>6 DEF CardTypeOK
<1>2. StageOK' /\ UpdateOK'
    BY DEF CardInv, StageOK, UpdateOK, KeepFails, Executing, Answering, Hiding
<1>3. RecordOK' /\ ShownOK'
    BY DEF CardInv, RecordOK, StageOK, ShownOK, KeepFails, PersistFails, Executing, Answering,
       Hiding, Delivered
<1>4. WayOK'
    BY DEF CardInv, WayOK, Seen, KeepFails
<1> QED
    BY <1>1, <1>2, <1>3, <1>4 DEF CardInv

LEMMA SendTextKeeps == ASSUME CardInv, SendText PROVE CardInv'
<1>1. CardTypeOK'
  <2>1. state' \in [card : Saved, failures : 0..UpdateFailureLimit]
    BY DEF CardInv, CardTypeOK, SendText
  <2>2. saved' \in Saved /\ chain' \in Update /\ own' \in Update
    BY DEF CardInv, CardTypeOK, SendText
  <2>3. {dirty, text, sure, orphan}' \subseteq BOOLEAN
    BY DEF CardInv, CardTypeOK, SendText
  <2>4. shows' \in Face \cup {"none", "deleted"} /\ hitches' \in 0..MaxHitches
    BY HitchTyped DEF CardInv, CardTypeOK, SendText
  <2>5. phase' \in {"pending", "running", "replying", "ended"} /\ quiet' \in BOOLEAN
    BY DEF CardInv, CardTypeOK, SendText
  <2>6. stage' \in {"idle", "turn", "pausing", "paused", "preparing", "finishing", "keeping",
                   "closing", "texting", "deleting", "silencing", "settling"}
    BY DEF SendText
  <2> QED
    BY <2>1, <2>2, <2>3, <2>4, <2>5, <2>6 DEF CardTypeOK
<1>2. StageOK' /\ UpdateOK'
    BY DEF CardInv, StageOK, UpdateOK, SendText, Executing, Answering, Hiding
<1>3. RecordOK' /\ ShownOK'
    BY DEF CardInv, RecordOK, StageOK, ShownOK, SendText, Executing, Answering, Hiding, Delivered
<1>4. WayOK'
    BY DEF CardInv, StageOK, WayOK, Seen, SendText, Answering
<1> QED
    BY <1>1, <1>2, <1>3, <1>4 DEF CardInv

LEMMA RecallKeeps == ASSUME CardInv, Recall PROVE CardInv'
<1>1. CardTypeOK'
  <2>1. state' \in [card : Saved, failures : 0..UpdateFailureLimit]
    BY CardTyped DEF CardInv, Recall
  <2>2. saved' \in Saved /\ chain' \in Update /\ own' \in Update
    BY DEF CardInv, CardTypeOK, Recall, Persists, PersistFails, Saved
  <2>3. {dirty, text, sure, orphan}' \subseteq BOOLEAN
    BY DEF CardInv, CardTypeOK, Recall
  <2>4. shows' \in Face \cup {"none", "deleted"} /\ hitches' \in 0..MaxHitches
    BY HitchTyped DEF CardInv, CardTypeOK, Recall, Persists, PersistFails
  <2>5. phase' \in {"pending", "running", "replying", "ended"} /\ quiet' \in BOOLEAN
    BY DEF CardInv, CardTypeOK, Recall
  <2>6. stage' \in {"idle", "turn", "pausing", "paused", "preparing", "finishing", "keeping",
                   "closing", "texting", "deleting", "silencing", "settling"}
    BY DEF Recall
  <2> QED
    BY <2>1, <2>2, <2>3, <2>4, <2>5, <2>6 DEF CardTypeOK
<1>2. StageOK' /\ UpdateOK'
    BY DEF CardInv, StageOK, UpdateOK, Recall, Executing, Answering, Hiding
<1>3. RecordOK' /\ ShownOK'
    BY DEF CardInv, RecordOK, StageOK, ShownOK, Recall, Executing, Answering, Hiding, Delivered
<1>4. WayOK'
    BY DEF CardInv, StageOK, WayOK, Seen, Recall, Hiding
<1> QED
    BY <1>1, <1>2, <1>3, <1>4 DEF CardInv

LEMMA SilenceKeeps == ASSUME CardInv, Silence PROVE CardInv'
<1> DEFINE silenced == [state.card EXCEPT !.status = "ended", !.silent = "completed",
                                       !.fallback = FALSE]
<1>0. /\ state' = [card |-> silenced, failures |-> state.failures] /\ own' = Sent(silenced, "silent")
      /\ silenced \in Saved /\ silenced.message = state.card.message /\ silenced.silent = "completed"
      /\ stage = "silencing" /\ own.step = "none"
    BY CardTyped DEF CardInv, Silence, Saved
<1> HIDE DEF silenced
<1>5. own'.step = "sent" /\ own'.face = "silent" /\ own'.value.silent = "completed" /\ ~own'.creates
    BY <1>0, SentIs DEF CardInv, RecordOK, Hiding, Face
<1>1. CardTypeOK'
  <2>1. state' \in [card : Saved, failures : 0..UpdateFailureLimit]
    BY CardTyped DEF CardInv, Silence, Saved
  <2>2. saved' \in Saved /\ chain' \in Update /\ own' \in Update
    BY SentIs DEF CardInv, CardTypeOK, Silence, outside, Saved, Face
  <2>3. {dirty, text, sure, orphan}' \subseteq BOOLEAN
    BY DEF CardInv, CardTypeOK, Silence, outside
  <2>4. shows' \in Face \cup {"none", "deleted"} /\ hitches' \in 0..MaxHitches
    BY DEF CardInv, CardTypeOK, Silence, outside
  <2>5. phase' \in {"pending", "running", "replying", "ended"} /\ quiet' \in BOOLEAN
    BY DEF CardInv, CardTypeOK, Silence, outside
  <2>6. stage' \in {"idle", "turn", "pausing", "paused", "preparing", "finishing", "keeping",
                   "closing", "texting", "deleting", "silencing", "settling"}
    BY DEF Silence
  <2> QED
    BY <2>1, <2>2, <2>3, <2>4, <2>5, <2>6 DEF CardTypeOK
<1>2. StageOK' /\ UpdateOK'
    BY <1>5 DEF CardInv, StageOK, UpdateOK, Silence, outside
<1>3. RecordOK' /\ ShownOK'
    BY CardTyped DEF CardInv, Saved, RecordOK, StageOK, ShownOK, Silence, outside, Hiding
<1>4. WayOK'
    BY <1>5 DEF CardInv, WayOK, Seen, Silence, outside
<1> QED
    BY <1>1, <1>2, <1>3, <1>4 DEF CardInv

LEMMA SettleKeeps == ASSUME CardInv, Settle PROVE CardInv'
<1>1. CardTypeOK'
  <2>1. state' \in [card : Saved, failures : 0..UpdateFailureLimit]
    BY DEF CardInv, CardTypeOK, Settle
  <2>2. saved' \in Saved /\ chain' \in Update /\ own' \in Update
    BY DEF CardInv, CardTypeOK, Settle
  <2>3. {dirty, text, sure, orphan}' \subseteq BOOLEAN
    BY DEF CardInv, CardTypeOK, Settle
  <2>4. shows' \in Face \cup {"none", "deleted"} /\ hitches' \in 0..MaxHitches
    BY DEF CardInv, CardTypeOK, Settle
  <2>5. phase' \in {"pending", "running", "replying", "ended"} /\ quiet' \in BOOLEAN
    BY DEF CardInv, CardTypeOK, Settle
  <2>6. stage' \in {"idle", "turn", "pausing", "paused", "preparing", "finishing", "keeping",
                   "closing", "texting", "deleting", "silencing", "settling"}
    BY DEF Settle
  <2> QED
    BY <2>1, <2>2, <2>3, <2>4, <2>5, <2>6 DEF CardTypeOK
<1>2. StageOK' /\ UpdateOK'
    BY DEF CardInv, StageOK, UpdateOK, Settle, Executing, Answering, Hiding
<1>3. RecordOK' /\ ShownOK'
    BY DEF CardInv, RecordOK, ShownOK, Settle, Executing, Answering, Hiding, Delivered
<1>4. WayOK'
    BY DEF CardInv, WayOK, Seen, Settle
<1> QED
    BY <1>1, <1>2, <1>3, <1>4 DEF CardInv

\* A call that was asked may be carried out, and what was being recorded may be recorded.
LEMMA CardCrashKeeps == ASSUME CardInv, CardCrash PROVE CardInv'
<1> DEFINE asked == {u \in {chain, own} : u.step = "sent"}
<1>0. /\ stage # "idle" /\ Hitch /\ stage' = "idle" /\ chain' = NoUpdate /\ own' = NoUpdate
      /\ UNCHANGED <<phase, quiet, state, dirty, text, orphan>>
      /\ sure' \in BOOLEAN
    BY DEF CardCrash
<1>1. shows' = shows \/ \E u \in {chain, own} : u.step = "sent" /\ shows # "deleted" /\ shows' = Taken(u)
    BY DEF CardCrash
<1>2. saved' = saved \/ \E u \in {chain, own} : u.step = "persist" /\ saved' = u.value
    BY DEF CardCrash
<1>3. CardTypeOK'
  <2>1. {dirty, text, sure, orphan}' \subseteq BOOLEAN
    BY <1>0 DEF CardInv, CardTypeOK
  <2>2. shows' \in Face \cup {"none", "deleted"} /\ saved' \in Saved
    BY <1>1, <1>2, TakenTyped DEF CardInv, CardTypeOK, Update
  <2> QED
    BY <1>0, <2>2, HitchTyped, NoUpdateIs DEF CardInv, CardTypeOK
<1>4. StageOK' /\ UpdateOK'
    BY <1>0, NoUpdateIs DEF StageOK, UpdateOK, Executing, Answering, Hiding
<1>5. phase # "ended"
    BY <1>0 DEF CardInv, CardTypeOK, StageOK, Executing, Answering, Hiding
<1>6. RecordOK' /\ ShownOK'
  <2>1. ShownOK'
    BY <1>0, <1>1, <1>2
       DEF CardInv, StageOK, UpdateOK, ShownOK, Taken, Executing, Answering, Hiding, Delivered
  <2>2. RecordOK'
    BY <1>0, <1>1, <1>2, NoUpdateIs
       DEF CardInv, StageOK, UpdateOK, RecordOK, Unfinished, WayOK, Executing, Answering, Hiding,
           Delivered
  <2> QED
    BY <2>1, <2>2
<1>7. WayOK'
    BY <1>0, <1>5 DEF WayOK
<1> QED
    BY <1>3, <1>4, <1>6, <1>7 DEF CardInv

LEMMA CardStarts == CardInit => CardInv
<1> SUFFICES ASSUME CardInit PROVE CardInv
    OBVIOUS
<1>1. NoCard \in Saved /\ NoCard.silent = "no" /\ NoCard.status # "ended"
    BY DEF NoCard, Saved
<1>2. state \in [card : Saved, failures : 0..UpdateFailureLimit]
    BY <1>1 DEF CardInit, UpdateFailureLimit
<1>3. {dirty, text, sure, orphan} \subseteq BOOLEAN
    BY DEF CardInit
<1>5. hitches \in 0..MaxHitches
    BY HitchAssumption DEF CardInit
<1>4. CardTypeOK
    BY <1>2, <1>5, NoUpdateIs DEF CardInit, CardTypeOK
<1> QED
    BY <1>1, <1>4, NoUpdateIs
       DEF CardInit, CardInv, StageOK, UpdateOK, RecordOK, ShownOK, WayOK, Unfinished, Executing,
           Answering, Hiding

LEMMA CardSteps == CardInv /\ [CardNext]_cardVars => CardInv'
<1> SUFFICES ASSUME CardInv, [CardNext]_cardVars PROVE CardInv'
    OBVIOUS
<1>1. CASE Begin \/ Push \/ Enqueue \/ ChainTaken \/ ChainLost \/ ChainKept
    BY <1>1, BeginKeeps, PushKeeps, EnqueueKeeps, ChainTakenKeeps, ChainLostKeeps, ChainKeptKeeps
<1>2. CASE TurnEnds \/ StayPaused \/ Pause \/ Wait \/ Prepare \/ PrepareFails
    BY <1>2, TurnEndsKeeps, StayPausedKeeps, PauseKeeps, WaitKeeps, PrepareKeeps, PrepareFailsKeeps
<1>3. CASE Deliver \/ OwnTaken \/ OwnKept \/ OwnLost \/ Keep \/ KeepFails
    BY <1>3, DeliverKeeps, OwnTakenKeeps, OwnKeptKeeps, OwnLostKeeps, KeepKeeps, KeepFailsKeeps
<1>4. CASE SendText \/ Recall \/ Silence \/ Settle \/ CardCrash
    BY <1>4, SendTextKeeps, RecallKeeps, SilenceKeeps, SettleKeeps, CardCrashKeeps
<1>5. CASE UNCHANGED cardVars
    BY <1>5 DEF cardVars, CardInv, CardTypeOK, StageOK, UpdateOK, RecordOK, ShownOK, WayOK, Seen
<1> QED
    BY <1>1, <1>2, <1>3, <1>4, <1>5 DEF CardNext

LEMMA CardInvariant == CardSpec => []CardInv
    BY CardStarts, CardSteps, PTL DEF CardSpec

\* The card, its updates and what is recorded of them are always well typed, whatever calls
\* fail and whenever the process dies.
THEOREM CardTypeCorrect == CardSpec => []CardTypeOK
<1>1. CardInv => CardTypeOK
    BY DEF CardInv
<1> QED
    BY <1>1, CardInvariant, PTL

\* Whatever calls fail or lose their answer and whenever the process dies: the answer of a job
\* that ended was seen, on its card or as a message, and if the last call about the card was
\* answered, once, and no card is left that shows progress (finish, finishSilent, deliverJob).
THEOREM AnswerIsSeenOnce == CardSpec => []AnswerSeenOnce
<1>1. CardInv => AnswerSeenOnce
    BY DEF CardInv, ShownOK, WayOK, Seen, AnswerSeenOnce
<1> QED
    BY <1>1, CardInvariant, PTL

----------------------------------------------------------------------------
(* The three together.                                                     *)

\* The jobs have nothing in common: what happens on a card of one of them is a behaviour of its
\* own module, and the others do not move.
LEMMA CardsApart == CardsSpec => Spec /\ ButtonsSpec /\ CardSpec
<1>1. CardsInit => Init /\ ButtonsInit /\ CardInit
    BY DEF CardsInit
<1>2. [CardsNext]_<<vars, buttonVars, cardVars>> =>
          [Next]_vars /\ [ButtonsNext]_buttonVars /\ [CardNext]_cardVars
    BY DEF CardsNext
<1> QED
    BY <1>1, <1>2, PTL DEF CardsSpec, Spec, ButtonsSpec, CardSpec

\* The row, the calls, the presses, the card and its updates have their types in every behaviour
\* of the three cards (UserInput, StopFork, ProgressCard).
THEOREM CardsTypeCorrect == CardsSpec => []CardsTypeOK
<1>1. TypeOK /\ ButtonsTypeOK /\ CardTypeOK => CardsTypeOK
    BY DEF CardsTypeOK
<1> QED
    BY <1>1, CardsApart, QuestionTypeCorrect, ButtonsTypeCorrect, CardTypeCorrect, PTL

\* In every behaviour of the three cards: an answer is recorded truly, every question is closed
\* with its turn, the buttons tell the truth, and the answer of the job is seen once.
THEOREM CardsTellTheTruth ==
    CardsSpec => [](AnswerRecordedTruly /\ ClosedWithTheTurn /\ ButtonsToldTruly /\ AnswerSeenOnce)
    BY CardsApart, AnswersAreTrue, EverythingIsClosed, ButtonsTellTheTruth, AnswerIsSeenOnce, PTL
=============================================================================
