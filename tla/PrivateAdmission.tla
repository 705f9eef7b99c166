--------------------------- MODULE PrivateAdmission ---------------------------
(***************************************************************************)
(* core/private-admission.mjs for one sender: the cache of the endpoint's  *)
(* answers, the union_id once it is known, and the messages the endpoint   *)
(* denied.  All of it is memory of the process.  An expiry is the time     *)
(* left until then.  The requests that concurrent checks share are the     *)
(* ingests of Intake that wait for them.                                   *)
(***************************************************************************)
EXTENDS Integers

CONSTANTS
    AllowCacheMs, DenyCacheMs,  \* how long an answer is reused
    UnionRetryMs                \* between two searches for the union_id

ASSUME AdmissionAssumption ==
    AllowCacheMs \in Nat /\ DenyCacheMs \in Nat /\ UnionRetryMs \in Nat

VARIABLES
    unions,     \* the sender's union_id is known
    entry,      \* decisions: the answer kept for the sender
    denied,     \* messages: those the endpoint denied explicitly
    lookups     \* time until the Store may be searched for the union_id again

admissionVars == <<unions, entry, denied, lookups>>

\* "deny": for a reason that stays; "refuse": for now, as the union_id is
\* missing, or there is no answer that counts.
Outcome == {"allow", "deny", "refuse"}
NoEntry == [outcome |-> "none", union |-> FALSE, replied |-> FALSE, left |-> 0]

AdmissionTypeOK ==
    /\ unions \in BOOLEAN
    /\ entry \in [outcome : Outcome \cup {"none"}, union : BOOLEAN,
                  replied : BOOLEAN, left : Nat]
    /\ lookups \in Nat

AdmissionInit == unions = FALSE /\ entry = NoEntry /\ denied = {} /\ lookups = 0

\* A restart forgets it all.
AdmissionForgotten == unions' = FALSE /\ entry' = NoEntry /\ denied' = {} /\ lookups' = 0

\* External: time passes.  An entry past its expiry is as none.
AdmissionAges ==
    /\ entry' = IF entry.left <= 1 THEN NoEntry ELSE [entry EXCEPT !.left = @ - 1]
    /\ lookups' = IF lookups <= 1 THEN 0 ELSE lookups - 1
    /\ UNCHANGED <<unions, denied>>

\* check(): an answer asked without the union_id is not reused once it is known.
Cached(known) == entry.left > 0 /\ (known => entry.union)

Remembered(outcome, known) ==
    [outcome |-> outcome, union |-> known, replied |-> FALSE,
     left |-> IF outcome = "allow" THEN AllowCacheMs ELSE DenyCacheMs]

\* replyFor: one notice per refusal kept, to a live message.
Notified(kept, outcome, isLive) ==
    IF isLive /\ outcome # "allow" /\ kept.outcome = outcome
    THEN [kept EXCEPT !.replied = TRUE] ELSE kept

\* refuseMessage: only an explicit denial is kept.
Denied(messages, outcome) == IF outcome = "deny" THEN denied \cup messages ELSE denied

\* Slip: a denial lasts as long as the answer kept for the sender.
RefusedForNow(m) == m \in denied /\ entry.outcome = "deny"

\* refused
Refused(m) == m \in denied

\* shouldLookupUnion
MaySearch == ~unions /\ lookups = 0
=============================================================================
