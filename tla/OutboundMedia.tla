---------------------------- MODULE OutboundMedia ----------------------------
(***************************************************************************)
(* The files that Codex leaves for a chat, and their private copies:       *)
(* prepare, cleanup and releaseRun of channels/feishu/outbound-media.mjs,  *)
(* against an agent that goes on writing and a process that may die        *)
(* between any two calls of the file system.                               *)
(*                                                                         *)
(* One file name in the directory of one binding, and the runs of that     *)
(* binding.  The three operations exclude one another (`exclusive`), so    *)
(* one is under way.  A death of the process loses its memory and leaves   *)
(* the files as they are; what fsync adds against the loss of power is     *)
(* left out.                                                               *)
(***************************************************************************)
EXTENDS Naturals

CONSTANTS
    Run,
    NoRun,
    MaxVersion      \* bound on the writes of the agent

ASSUME WritesAssumption == MaxVersion \in Nat

Version == 1..MaxVersion
Nothing == 0

VARIABLES
    source,     \* external: the inode at the name, an inode being its first version
    holds,      \* external: the version an inode holds
    looks,      \* external: the version of which a version has the stat fields
    written,    \* external: how many versions were written
    wants,      \* history: the version the agent left at the name
    since,      \* how many versions were written before the run began
    claim,      \* the state of a run's manifest
    took,       \* the version the manifest claims, also after its removal
    spool,      \* the snapshots of a run, named by their contents
    quarantine, \* the inode at <artifactId>.source
    sent,       \* history: the send of the artifact is confirmed
    cleaned,    \* its mark cleanup_pending is removed
    at,         \* the stage of the operation under way,
    run,        \* the run it is for
    sees        \* and the version it has in hand

agentVars == <<source, holds, looks, written, wants>>
op == <<at, run, sees>>
vars == <<agentVars, since, claim, took, spool, quarantine, sent, cleaned, op>>

Preparing == {"scanning", "reading", "copying", "writing", "publishing"}
Cleaning == {"looking", "moving", "checking", "erasing", "restoring", "unlinking",
             "dropping"}
Releasing == {"surveying", "deleting", "forgetting"}
Stage == {"idle"} \cup Preparing \cup Cleaning \cup Releasing

TypeOK ==
    /\ source \in 0..MaxVersion /\ wants \in 0..MaxVersion /\ written \in 0..MaxVersion
    /\ holds \in [Version -> 0..MaxVersion] /\ looks \in [Version -> 0..MaxVersion]
    /\ since \in [Run -> 0..MaxVersion]
    /\ claim \in [Run -> {"new", "none", "published", "retired"}]
    /\ took \in [Run -> 0..MaxVersion] /\ quarantine \in [Run -> 0..MaxVersion]
    /\ spool \in [Run -> [Version -> {"none", "torn", "whole"}]]
    /\ sent \in [Run -> BOOLEAN] /\ cleaned \in [Run -> BOOLEAN]
    /\ at \in Stage /\ run \in Run \cup {NoRun} /\ sees \in 0..MaxVersion
    /\ at # "idle" => run \in Run
    /\ at \in {"checking", "erasing", "restoring", "unlinking"} => quarantine[run] # Nothing

Init ==
    /\ source = Nothing /\ written = 0 /\ wants = Nothing
    /\ holds = [v \in Version |-> Nothing] /\ looks = [v \in Version |-> Nothing]
    /\ since = [r \in Run |-> 0] /\ claim = [r \in Run |-> "new"] /\ took = [r \in Run |-> Nothing]
    /\ spool = [r \in Run |-> [v \in Version |-> "none"]]
    /\ quarantine = [r \in Run |-> Nothing]
    /\ sent = [r \in Run |-> FALSE] /\ cleaned = [r \in Run |-> FALSE]
    /\ at = "idle" /\ run = NoRun /\ sees = Nothing

At(stage) == at = stage
Starts(r, stage) == at' = stage /\ run' = r /\ sees' = Nothing
Goes(stage) == at' = stage /\ UNCHANGED <<run, sees>>
Sees(stage, v) == at' = stage /\ sees' = v /\ UNCHANGED run
Stops == at' = "idle" /\ run' = NoRun /\ sees' = Nothing

----------------------------------------------------------------------------
(* The agent.                                                              *)

\* Another file takes the name, or it is new.
Replace ==
    LET v == written + 1 IN
    /\ written < MaxVersion
    /\ source' = v /\ written' = v /\ wants' = v
    /\ holds' = [holds EXCEPT ![v] = v] /\ looks' = [looks EXCEPT ![v] = v]
    /\ UNCHANGED <<since, claim, took, spool, quarantine, sent, cleaned, op>>

\* The file is written in place; size and mtime may come out the same.
Edit ==
    LET v == written + 1 IN
    /\ source # Nothing /\ written < MaxVersion
    /\ written' = v /\ wants' = v
    /\ holds' = [holds EXCEPT ![source] = v]
    /\ \E s \in {v, looks[holds[source]]} : looks' = [looks EXCEPT ![v] = s]
    /\ UNCHANGED <<source, since, claim, took, spool, quarantine, sent, cleaned, op>>

Remove ==
    /\ source # Nothing /\ source' = Nothing /\ wants' = Nothing
    /\ UNCHANGED <<holds, looks, written, since, claim, took, spool, quarantine, sent, cleaned, op>>

----------------------------------------------------------------------------
(* prepare.                                                                *)

\* A turn begins; a run is active until its output is in a manifest.
Begin(r) ==
    /\ claim[r] = "new" /\ at \notin Cleaning \cup Releasing
    /\ claim' = [claim EXCEPT ![r] = "none"]
    /\ since' = [since EXCEPT ![r] = written]
    /\ UNCHANGED <<agentVars, took, spool, quarantine, sent, cleaned, op>>

Published(r) == claim[r] = "published"
Claimed(v) == \E r \in Run : Published(r) /\ took[r] = v

\* A file of the spool that has a second name stops every usage().
HasTwin(r) == quarantine[r] # Nothing
                 /\ \/ quarantine[r] = source
                    \/ \E q \in Run \ {r} : quarantine[q] = quarantine[r]

\* With a manifest it only returns what the manifest says.
Prepare(r) ==
    /\ At("idle") /\ claim[r] = "none" /\ \A q \in Run : ~HasTwin(q)
    /\ Starts(r, "scanning")
    /\ UNCHANGED <<agentVars, since, claim, took, spool, quarantine, sent, cleaned>>

\* Files older than the turn are passed over, and what another run has claimed.
Scan ==
    /\ At("scanning")
    /\ IF source # Nothing /\ looks[holds[source]] > since[run] /\ ~Claimed(holds[source])
       THEN Goes("reading") ELSE Goes("publishing")
    /\ UNCHANGED <<agentVars, since, claim, took, spool, quarantine, sent, cleaned>>

Read ==
    /\ At("reading")
    /\ source # Nothing /\ ~Claimed(holds[source]) /\ Sees("copying", holds[source])
    /\ UNCHANGED <<agentVars, since, claim, took, spool, quarantine, sent, cleaned>>

\* A snapshot left by an earlier attempt is taken if it is whole.
Copy ==
    LET left == spool[run][sees] IN
    /\ At("copying")
    /\ CASE left = "whole" -> Goes("publishing") /\ UNCHANGED spool
         [] left = "torn"  -> Sees("publishing", Nothing) /\ UNCHANGED spool
         [] left = "none"  -> /\ Goes("writing")
                              /\ spool' = [spool EXCEPT ![run][sees] = "torn"]
    /\ UNCHANGED <<agentVars, since, claim, took, quarantine, sent, cleaned>>

Write ==
    /\ At("writing") /\ Goes("publishing")
    /\ spool' = [spool EXCEPT ![run][sees] = "whole"]
    /\ UNCHANGED <<agentVars, since, claim, took, quarantine, sent, cleaned>>

\* The manifest, which is the claim, appears at once.
Publish ==
    /\ At("publishing") /\ Stops
    /\ claim' = [claim EXCEPT ![run] = "published"]
    /\ took' = [took EXCEPT ![run] = sees]
    /\ UNCHANGED <<agentVars, since, spool, quarantine, sent, cleaned>>

\* A file that cannot be copied is noted in the manifest as a failure.
FileFails ==
    /\ at \in {"reading", "copying", "writing"} /\ Sees("publishing", Nothing)
    /\ UNCHANGED <<agentVars, since, claim, took, spool, quarantine, sent, cleaned>>

----------------------------------------------------------------------------
(* The artifact is uploaded from its snapshot and sent.                    *)
Send(r) ==
    /\ Published(r) /\ took[r] # Nothing /\ spool[r][took[r]] = "whole"
    /\ sent' = [sent EXCEPT ![r] = TRUE]
    /\ UNCHANGED <<agentVars, since, claim, took, spool, quarantine, cleaned, op>>

----------------------------------------------------------------------------
(* cleanup, of an artifact whose send is confirmed.                        *)

\* Both wait until no run of the conversation is active, and keep others away.
Quiet == \A r \in Run : claim[r] # "none"

Cleanup(r) ==
    /\ At("idle") /\ Quiet /\ Published(r) /\ sent[r] /\ ~cleaned[r]
    /\ Starts(r, "looking")
    /\ UNCHANGED <<agentVars, since, claim, took, spool, quarantine, sent, cleaned>>

\* lstat of the quarantine and of the source: another file is left alone.
Look ==
    /\ At("looking")
    /\ \/ quarantine[run] # Nothing /\ Goes("checking")
       \/ /\ quarantine[run] = Nothing
          /\ IF /\ source # Nothing /\ looks[holds[source]] = looks[took[run]]
                /\ \A q \in Run : quarantine[q] # source
             THEN Goes("moving") ELSE Goes("dropping")
    /\ UNCHANGED <<agentVars, since, claim, took, spool, quarantine, sent, cleaned>>

\* Slip: the name is renamed without regard to a file that has gone.
MoveBlindly ==
    /\ At("moving") /\ Goes("checking")
    /\ quarantine' = [quarantine EXCEPT ![run] = source] /\ source' = Nothing
    /\ UNCHANGED <<holds, looks, written, wants, since, claim, took, spool, sent, cleaned>>

\* The rename takes whatever has the name by now.
Move ==
    /\ At("moving")
    /\ IF source = Nothing THEN Goes("dropping") /\ UNCHANGED <<source, quarantine>>
       ELSE /\ Goes("checking") /\ source' = Nothing
            /\ quarantine' = [quarantine EXCEPT ![run] = source]
    /\ UNCHANGED <<holds, looks, written, wants, since, claim, took, spool, sent, cleaned>>

\* What was moved goes if it is the version that was sent.
Check ==
    LET held == quarantine[run] IN
    /\ At("checking")
    /\ CASE held = source -> Goes("unlinking")
         [] held # source /\ holds[held] = took[run] /\ ~HasTwin(run) -> Goes("erasing")
         [] OTHER -> Goes("restoring")
    /\ UNCHANGED <<agentVars, since, claim, took, spool, quarantine, sent, cleaned>>

Erase ==
    /\ at \in {"erasing", "unlinking"} /\ Goes("dropping")
    /\ quarantine' = [quarantine EXCEPT ![run] = Nothing]
    /\ UNCHANGED <<agentVars, since, claim, took, spool, sent, cleaned>>

\* Slip: the file is moved back, over whatever has the name.
RestoreOver ==
    /\ At("restoring")
    /\ source' = quarantine[run] /\ Goes("unlinking")
    /\ UNCHANGED <<holds, looks, written, wants, since, claim, took, spool, quarantine, sent, cleaned>>

\* Any other gets its name back, unless the name is taken.
Restore ==
    /\ At("restoring")
    /\ IF source = Nothing THEN source' = quarantine[run] /\ Goes("unlinking")
       ELSE Stops /\ UNCHANGED source
    /\ UNCHANGED <<holds, looks, written, wants, since, claim, took, spool, quarantine, sent, cleaned>>

\* The snapshot goes; the mark is removed, if that succeeds.
Drop ==
    /\ At("dropping") /\ Stops
    /\ spool' = [spool EXCEPT ![run][took[run]] = "none"]
    /\ \E done \in BOOLEAN : cleaned' = [cleaned EXCEPT ![run] = done]
    /\ UNCHANGED <<agentVars, since, claim, took, quarantine, sent>>

----------------------------------------------------------------------------
(* releaseRun, of a run with nothing left to send or to clean.             *)

Release(r) ==
    /\ At("idle") /\ Quiet /\ Published(r)
    /\ took[r] = Nothing \/ cleaned[r]
    /\ quarantine[r] = Nothing
    /\ Starts(r, "surveying")
    /\ UNCHANGED <<agentVars, since, claim, took, spool, quarantine, sent, cleaned>>

\* A claim is kept while the version it is about has the name.
Survey ==
    /\ At("surveying")
    /\ IF took[run] # Nothing /\ source # Nothing /\ holds[source] = took[run]
       THEN Stops ELSE Goes("deleting")
    /\ UNCHANGED <<agentVars, since, claim, took, spool, quarantine, sent, cleaned>>

Delete ==
    /\ At("deleting") /\ Goes("forgetting")
    /\ spool' = [spool EXCEPT ![run] = [v \in Version |-> "none"]]
    /\ UNCHANGED <<agentVars, since, claim, took, quarantine, sent, cleaned>>

\* The manifest goes last.
Forget ==
    /\ At("forgetting") /\ Stops
    /\ claim' = [claim EXCEPT ![run] = "retired"]
    /\ UNCHANGED <<agentVars, since, took, spool, quarantine, sent, cleaned>>

----------------------------------------------------------------------------
\* A call of the file system fails, or the process dies.
Crash ==
    /\ ~At("idle") /\ Stops
    /\ UNCHANGED <<agentVars, since, claim, took, spool, quarantine, sent, cleaned>>

Agent == Replace \/ Edit \/ Remove
Prepares == Scan \/ Read \/ Copy \/ Write \/ Publish \/ FileFails
Cleans == Look \/ Move \/ Check \/ Erase \/ Restore \/ Drop
Releases == Survey \/ Delete \/ Forget

Next ==
    \/ Agent \/ Prepares \/ Cleans \/ Releases \/ Crash
    \/ \E r \in Run : Begin(r) \/ Prepare(r) \/ Send(r) \/ Cleanup(r) \/ Release(r)

Spec == Init /\ [][Next]_vars

----------------------------------------------------------------------------
(* Properties.                                                             *)

\* What the agent last left at the name is there, or awaits its return in a
\* quarantine, or was sent.
NothingLost ==
    wants # Nothing =>
        \/ source # Nothing /\ holds[source] = wants
        \/ \E r \in Run : quarantine[r] # Nothing /\ holds[quarantine[r]] = wants
        \/ \E r \in Run : took[r] = wants /\ sent[r]

\* No version is claimed, and so sent, by two runs.
ClaimedOnce == \A r, q \in Run : took[r] # Nothing /\ took[r] = took[q] => r = q

\* A claim has its snapshot until it is sent.
SnapshotKept ==
    \A r \in Run : Published(r) /\ took[r] # Nothing /\ ~sent[r] => spool[r][took[r]] = "whole"

\* The three promises of the spool, whatever the agent writes and whenever the
\* process dies: no output is lost, none is sent by two runs, and what was
\* claimed can still be sent.
FilesKept == NothingLost /\ ClaimedOnce /\ SnapshotKept
=============================================================================
