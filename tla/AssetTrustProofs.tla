--------------------------- MODULE AssetTrustProofs ---------------------------
(***************************************************************************)
(* What a running script is made of, for any releases, files and profiles, *)
(* and for any number of changes around it.  Which field a plan recommends *)
(* for any quests, fields and rates.                                       *)
(***************************************************************************)
EXTENDS AssetTrust, QuestPlanner, FiniteSetTheorems, TLAPS

Marks == Digests \cup {None}
StepType == [id : Assets \cup {Reset}, digest : Marks]
Trusts == [Assets -> Marks]

Fields ==
  {"pass", "steps", "k", "at", "trusted", "harmless", "copy", "consent", "scripts"}

TrustTyped ==
  /\ server \in Releases \cup {None}
  /\ trusted \in Trusts /\ job.trusted \in Trusts
  /\ DOMAIN job = Fields
  /\ job.pass \in {"none", "preflight", "execute", "running"}
  /\ job.at \in 0..8
  /\ job.pass = "preflight" => job.at \in 1..PreflightChecks
  /\ \A k \in DOMAIN job.steps : job.steps[k].id \in Assets \cup {Reset}

(* The daemon of a run is there as long as the run is.                     *)
ServedByDaemon == job.pass # "none" => server # None

(* Every digest a profile, or a run's copy of it, trusts was reviewed.     *)
TrustReviewed ==
  \A a \in Assets :
    /\ trusted[a] # None => <<a, trusted[a]>> \in reviewed
    /\ job.trusted[a] # None => <<a, job.trusted[a]>> \in reviewed

(* The script at work: what it has to be made of, and how far its checks   *)
(* have come.  From the second check on the profile trusts it; the copy is *)
(* right when it is inspected, the consent from then on, and both when it  *)
(* runs.                                                                   *)
AtScript == job.pass = "running" \/ (job.pass = "execute" /\ job.at > 0)
Script == job.steps[job.k].id
Expected == IF Script = Reset THEN Reset ELSE Pinned[server][Script]
ScriptChecked ==
  AtScript =>
    /\ job.k \in DOMAIN job.steps
    /\ (job.pass = "running" \/ job.at > 1) /\ Script # Reset =>
         job.trusted[Script] = Pinned[server][Script]
    /\ job.pass = "execute" /\ job.at <= 7 => job.consent = None
    /\ job.pass = "execute" /\ job.at = 7 => job.copy = Expected
    /\ job.pass = "execute" /\ job.at = 8 => job.consent = Expected
    /\ job.pass = "running" => job.copy = Expected

TrustInv == TrustTyped /\ ServedByDaemon /\ TrustReviewed /\ ScriptChecked

-----------------------------------------------------------------------------
(* The order of the checks.                                                *)
LEMMA CheckOrder ==
  /\ Checks[1] = "policy" /\ Checks[2] = "support" /\ Checks[3] = "interpreter"
  /\ Checks[4] = "fragment" /\ Checks[5] = "interpreter" /\ Checks[6] = "stage"
  /\ Checks[7] = "inspect" /\ Checks[8] = "launch"
  BY DEF Checks

(* A release pins a digest for every asset.                                *)
LEMMA PinnedDigest == \A r \in Releases, a \in Assets : Pinned[r][a] \in Digests
  <1> SUFFICES ASSUME NEW r \in Releases, NEW a \in Assets PROVE Pinned[r][a] \in Digests
    OBVIOUS
  <1>1. a \in DOMAIN Pinned[r]
    BY TrustAssumption DEF TrustAssumption, Parts
  <1>2. Pinned[r][a] \in Range(Pinned[r])
    BY <1>1 DEF Range
  <1> QED
    BY <1>2 DEF Digests

(* None is neither a release nor a digest.                                *)
LEMMA NoneIsNoDigest == None \notin Releases /\ None \notin Digests
  BY TrustAssumption DEF TrustAssumption

(* A session's steps name assets, with the digest that the profile trusts, *)
(* and the built-in reset.                                                 *)
OwnDigest(step) == IF step.id = Reset THEN None ELSE trusted[step.id]
OwnSteps == {step \in StepType : step.digest = OwnDigest(step)}
LEMMA SessionStepsTyped ==
  ASSUME trusted \in Trusts
  PROVE  /\ SessionSteps \o CollectSteps \in Seq(OwnSteps)
         /\ SessionFields # <<>> => SessionSteps \o CollectSteps # <<>>
  <1>1. SessionFields \in Seq(Assets \X Assets) /\ Collects \in Seq(Assets)
    BY TrustAssumption DEF TrustAssumption
  <1>2. /\ Step(Reset, None) \in OwnSteps
        /\ \A a \in Assets : Step(a, trusted[a]) \in OwnSteps
    BY TrustAssumption DEF TrustAssumption, Parts, OwnSteps, OwnDigest, Step, StepType, Trusts, Marks
  <1> DEFINE n == 3 * Len(SessionFields)
  <1>3. n \in Nat /\ SessionSteps \in [1..n -> OwnSteps]
    <2>1. n \in Nat
      BY <1>1
    <2>2. ASSUME NEW k \in 1..n PROVE SessionSteps[k] \in OwnSteps
      <3>1. (k + 2) \div 3 \in 1..Len(SessionFields)
        BY <1>1
      <3>2. SessionFields[(k + 2) \div 3] \in Assets \X Assets
        BY <1>1, <3>1
      <3> QED
        BY <1>2, <2>2, <3>2 DEF SessionSteps
    <2>3. SessionSteps = [k \in 1..n |-> SessionSteps[k]]
      BY DEF SessionSteps
    <2> HIDE DEF n
    <2> QED
      BY <2>1, <2>2, <2>3
  <1>4. SessionSteps \in Seq(OwnSteps) /\ Len(SessionSteps) = n
    <2> HIDE DEF n
    <2> QED
      BY <1>3
  <1>5. CollectSteps \in Seq(OwnSteps)
    <2>1. CollectSteps = [k \in 1..Len(Collects) |-> CollectSteps[k]]
      BY <1>1 DEF CollectSteps
    <2>2. ASSUME NEW k \in 1..Len(Collects) PROVE CollectSteps[k] \in OwnSteps
      BY <1>1, <1>2, <2>2 DEF CollectSteps
    <2>3. Len(Collects) \in Nat
      BY <1>1
    <2> QED
      BY <2>1, <2>2, <2>3
  <1>6. SessionFields # <<>> => Len(SessionSteps) > 0
    BY <1>1, <1>4
  <1> QED
    BY <1>4, <1>5, <1>6

(* No run, nothing trusted and nothing reviewed at the start.              *)
LEMMA InitTrustInv == TrustInit => TrustInv
  <1> SUFFICES ASSUME TrustInit PROVE TrustInv
    OBVIOUS
  <1>1. TrustTyped
    BY DEF TrustInit, TrustTyped, Fields, NoJob, Trusts, Marks
  <1>2. ServedByDaemon /\ TrustReviewed /\ ScriptChecked
    BY DEF TrustInit, ServedByDaemon, TrustReviewed, ScriptChecked, AtScript, NoJob
  <1> QED
    BY <1>1, <1>2 DEF TrustInv

(* A run that is over leaves nothing to say of it.                         *)
LEMMA OverKeeps ==
  ASSUME TrustInv, Over, UNCHANGED review, server' \in {server, None}
  PROVE  TrustInv'
  <1>1. TrustTyped'
    BY DEF TrustInv, TrustTyped, Fields, Over, NoJob, review
  <1>2. ServedByDaemon' /\ TrustReviewed' /\ ScriptChecked'
    BY DEF TrustInv, ServedByDaemon, TrustReviewed, ScriptChecked, AtScript, Over, NoJob, review
  <1> QED
    BY <1>1, <1>2 DEF TrustInv

(* So do the steps that leave the run, the daemon and the review alone.    *)
LEMMA AsideKeeps ==
  ASSUME TrustInv, UNCHANGED <<job, server, trusted, reviewed>>
  PROVE  TrustInv'
  BY DEF TrustInv, TrustTyped, Fields, ServedByDaemon, TrustReviewed, ScriptChecked, AtScript,
      Script,
         Expected

(* A run that starts takes the profile as it is.                           *)
LEMMA StartKeeps ==
  ASSUME TrustInv, NEW steps, Started(steps),
         \A k \in DOMAIN steps : steps[k].id \in Assets \cup {Reset}
  PROVE  TrustInv'
  <1>1. job' = [NoJob EXCEPT !.pass = "preflight", !.steps = steps, !.k = 1, !.at = 1]
        /\ UNCHANGED <<server, trusted, reviewed>> /\ server # None
    BY DEF Started, review
  <1>2. TrustTyped'
    <2>1. job' = [pass |-> "preflight", steps |-> steps, k |-> 1, at |-> 1, trusted |-> trusted,
                  harmless |-> harmless, copy |-> None, consent |-> None, scripts |-> 0]
      BY <1>1 DEF NoJob
    <2>2. /\ DOMAIN job' = Fields /\ job'.pass = "preflight" /\ job'.at = 1
          /\ job'.trusted = trusted /\ job'.steps = steps
      BY <2>1 DEF Fields
    <2> QED
      BY <1>1, <2>2 DEF TrustInv, TrustTyped, PreflightChecks
  <1>3. ServedByDaemon' /\ TrustReviewed' /\ ScriptChecked'
    BY <1>1 DEF TrustInv, ServedByDaemon, TrustReviewed, ScriptChecked, AtScript, NoJob
  <1> QED
    BY <1>2, <1>3 DEF TrustInv

(* Trusting an asset reviews the digest that is trusted.                   *)
LEMMA TrustingKeeps ==
  ASSUME TrustInv, NEW a \in Assets, NEW digest \in Digests, TrustExtension(a, digest)
  PROVE  TrustInv'
  <1>1. TrustTyped' /\ ServedByDaemon' /\ ScriptChecked'
    BY DEF TrustExtension, TrustInv, TrustTyped, Fields, ServedByDaemon, ScriptChecked, AtScript,
        Script,
           Expected, Trusts, Marks
  <1>2. TrustReviewed'
    BY DEF TrustExtension, TrustInv, TrustTyped, Fields, TrustReviewed, Trusts
  <1> QED
    BY <1>1, <1>2 DEF TrustInv

-----------------------------------------------------------------------------
(* A check that fails ends the run; one that holds takes it further.       *)
LEMMA ExamineKeeps ==
  ASSUME TrustInv, Examine
  PROVE  TrustInv'
  <1> DEFINE step == job.steps[job.k]
             check == Checks[job.at]
             next == [job EXCEPT !.at = @ + 1]
  <1>1. CASE ~Holds(check, step)
    <2>1. Over /\ UNCHANGED review /\ server' = server
      BY <1>1 DEF Examine, review
    <2> QED
      BY <2>1, OverKeeps
  <1>2. CASE Holds(check, step) /\ job.pass = "preflight"
    <2>1. /\ UNCHANGED <<server, trusted, reviewed>>
          /\ job.at \in 1..PreflightChecks /\ DOMAIN job = Fields
      BY <1>2 DEF Examine, review, TrustInv, TrustTyped
    <2>2. \/ job' = [job EXCEPT !.k = NextPreflight(job.k), !.at = 1]
          \/ job' = [job EXCEPT !.pass = "execute", !.at = 0]
          \/ job.at < PreflightChecks /\ job' = next
      <3>1. CASE job.at = PreflightChecks
        BY <1>2, <2>1, <3>1 DEF Examine
      <3>2. CASE job.at \in 1..3
        <4>1. check \notin {"stage", "inspect", "launch"}
          BY <3>2, CheckOrder
        <4> QED
          BY <1>2, <2>1, <3>2, <4>1 DEF Examine, PreflightChecks
      <3> QED
        BY <2>1, <3>1, <3>2 DEF PreflightChecks
    <2>3. /\ DOMAIN job' = Fields /\ job'.trusted = job.trusted /\ job'.steps = job.steps
          /\ \/ job'.pass = "preflight" /\ job'.at \in 1..PreflightChecks
             \/ job'.pass = "execute" /\ job'.at = 0
      <3>1. CASE job' = [job EXCEPT !.k = NextPreflight(job.k), !.at = 1]
        BY <1>2, <2>1, <3>1 DEF Fields, PreflightChecks
      <3>2. CASE job' = [job EXCEPT !.pass = "execute", !.at = 0]
        BY <2>1, <3>2 DEF Fields
      <3>3. CASE job.at < PreflightChecks /\ job' = next
        <4>1. job'.at = job.at + 1
          BY <2>1, <3>3 DEF Fields
        <4>2. job'.at \in 1..PreflightChecks
          BY <2>1, <3>3, <4>1 DEF PreflightChecks
        <4> QED
          BY <1>2, <2>1, <3>3, <4>2 DEF Fields
      <3> QED
        BY <2>2, <3>1, <3>2, <3>3
    <2>4. TrustTyped' /\ ServedByDaemon' /\ TrustReviewed'
      BY <1>2, <2>1, <2>3 DEF TrustInv, TrustTyped, ServedByDaemon, TrustReviewed, PreflightChecks
    <2>5. ScriptChecked'
      BY <2>3 DEF ScriptChecked, AtScript
    <2> QED
      BY <2>4, <2>5 DEF TrustInv
  <1>3. CASE Holds(check, step) /\ job.pass = "execute"
    <2>1. /\ UNCHANGED <<server, trusted, reviewed>> /\ job.at \in 1..8
          /\ job.k \in DOMAIN job.steps /\ Script \in Assets \cup {Reset}
      BY <1>3 DEF Examine, Working, review, TrustInv, TrustTyped, Fields, ScriptChecked, AtScript,
          Script
    <2>2. CASE job.at \in 1..5
      <3>1. job' = next
        BY <1>3, <2>2, CheckOrder DEF Examine
      <3>2. job.at = 1 /\ Script # Reset => job.trusted[Script] = Pinned[server][Script]
        BY <1>3, CheckOrder DEF Holds, SafeProfile, Script
      <3>3. TrustTyped' /\ ServedByDaemon' /\ TrustReviewed'
        BY <1>3, <2>1, <2>2, <3>1 DEF TrustInv, TrustTyped, Fields, ServedByDaemon, TrustReviewed
      <3>4. ScriptChecked'
        BY <1>3, <2>1, <2>2, <3>1, <3>2
        DEF TrustInv, TrustTyped, Fields, ScriptChecked, AtScript, Script, Expected
      <3> QED
        BY <3>3, <3>4 DEF TrustInv
    <2>3. CASE job.at = 6
      <3>1. job' = [next EXCEPT !.copy = Expected]
        BY <1>3, <2>3, CheckOrder DEF Examine, Holds, VerifiedFragment, Script, Expected
      <3>2. TrustTyped' /\ ServedByDaemon' /\ TrustReviewed'
        BY <1>3, <2>1, <2>3, <3>1 DEF TrustInv, TrustTyped, Fields, ServedByDaemon, TrustReviewed
      <3>3. ScriptChecked'
        BY <1>3, <2>1, <2>3, <3>1 DEF TrustInv, TrustTyped, Fields, ScriptChecked, AtScript,
            Script, Expected
      <3> QED
        BY <3>2, <3>3 DEF TrustInv
    <2>4. CASE job.at = 7
      <3>1. job' = [next EXCEPT !.consent = job.copy]
        BY <1>3, <2>4, CheckOrder DEF Examine
      <3>2. TrustTyped' /\ ServedByDaemon' /\ TrustReviewed'
        BY <1>3, <2>1, <2>4, <3>1 DEF TrustInv, TrustTyped, Fields, ServedByDaemon, TrustReviewed
      <3>3. ScriptChecked'
        BY <1>3, <2>1, <2>4, <3>1 DEF TrustInv, TrustTyped, Fields, ScriptChecked, AtScript,
            Script, Expected
      <3> QED
        BY <3>2, <3>3 DEF TrustInv
    <2>5. CASE job.at = 8
      <3>1. job' = [job EXCEPT !.pass = "running"] /\ job.copy = job.consent
        BY <1>3, <2>5, CheckOrder DEF Examine, Holds, ConsentMatches
      <3>2. TrustTyped' /\ ServedByDaemon' /\ TrustReviewed'
        BY <1>3, <2>1, <2>5, <3>1 DEF TrustInv, TrustTyped, Fields, ServedByDaemon, TrustReviewed
      <3>3. ScriptChecked'
        BY <1>3, <2>1, <2>5, <3>1 DEF TrustInv, TrustTyped, Fields, ScriptChecked, AtScript,
            Script, Expected
      <3> QED
        BY <3>2, <3>3 DEF TrustInv
    <2> QED
      BY <2>1, <2>2, <2>3, <2>4, <2>5
  <1> QED
    BY <1>1, <1>2, <1>3 DEF Examine, Working

(* A script begins at its first check, and is gone when it exits.          *)
LEMMA ScriptKeeps ==
  ASSUME TrustInv, NextScript \/ ScriptExits
  PROVE  TrustInv'
  <1>1. UNCHANGED <<server, trusted, reviewed>> /\ DOMAIN job = Fields
    BY DEF NextScript, ScriptExits, review, TrustInv, TrustTyped
  <1>2. CASE NextScript
    <2>1. PICK k \in DOMAIN job.steps :
            job' = [job EXCEPT !.k = k, !.at = 1, !.copy = None, !.consent = None, !.scripts = @ + 1]
      BY <1>2 DEF NextScript
    <2>2. /\ DOMAIN job' = Fields /\ job'.trusted = job.trusted /\ job'.steps = job.steps
          /\ job'.pass = "execute" /\ job'.at = 1 /\ job'.k = k /\ job'.consent = None
      BY <1>1, <1>2, <2>1 DEF Fields, NextScript
    <2>3. TrustTyped'
      BY <1>1, <2>2 DEF TrustInv, TrustTyped
    <2>4. ServedByDaemon' /\ TrustReviewed'
      BY <1>1, <1>2, <2>2 DEF NextScript, TrustInv, ServedByDaemon, TrustReviewed
    <2>5. ScriptChecked'
      BY <1>1, <2>2 DEF ScriptChecked, AtScript
    <2> QED
      BY <2>3, <2>4, <2>5 DEF TrustInv
  <1>3. CASE ScriptExits
    <2>1. /\ DOMAIN job' = Fields /\ job'.trusted = job.trusted /\ job'.steps = job.steps
          /\ job'.pass = "execute" /\ job'.at = 0
      BY <1>1, <1>3 DEF Fields, ScriptExits
    <2>2. TrustTyped' /\ ServedByDaemon' /\ TrustReviewed'
      BY <1>1, <1>3, <2>1 DEF ScriptExits, TrustInv, TrustTyped, ServedByDaemon, TrustReviewed
    <2>3. ScriptChecked'
      BY <2>1 DEF ScriptChecked, AtScript
    <2> QED
      BY <2>2, <2>3 DEF TrustInv
  <1> QED
    BY <1>2, <1>3

(* A staged script that is damaged was inspected before.                   *)
LEMMA StagedKeeps ==
  ASSUME TrustInv, StagedChanges
  PROVE  TrustInv'
  <1>1. TrustTyped' /\ ServedByDaemon' /\ TrustReviewed'
    BY DEF StagedChanges, TrustInv, TrustTyped, Fields, ServedByDaemon, TrustReviewed, review
  <1>2. ScriptChecked'
    BY DEF StagedChanges, TrustInv, TrustTyped, Fields, ScriptChecked, AtScript, Script, Expected
  <1> QED
    BY <1>1, <1>2 DEF TrustInv

(* A daemon starts only where there is none, and so no run.                *)
LEMMA DaemonKeeps ==
  ASSUME TrustInv, StartDaemon, installed \in Releases
  PROVE  TrustInv'
  BY DEF StartDaemon, review, TrustInv, TrustTyped, Fields, ServedByDaemon, TrustReviewed,
      ScriptChecked,
         AtScript

-----------------------------------------------------------------------------
(* What is installed is a release.                                         *)
THEOREM InstalledIsRelease == TrustSpec => [](installed \in Releases)
  <1>1. TrustInit => installed \in Releases
    BY TrustAssumption DEF TrustAssumption, TrustInit
  <1>2. installed \in Releases /\ [TrustNext]_trustVars => (installed \in Releases)'
    BY DEF TrustNext, trustVars, disk, TrustExtension, StartExtension, StartSession, Started,
           EditSafety, Examine, Refuse, NextScript, ScriptExits, RunEnds, Install, FileChanges,
           StagedChanges, OpenDesktop, CloseDesktop, StartDaemon, DaemonEnds
  <1> QED
    BY <1>1, <1>2, PTL DEF TrustSpec

(* One case per action.                                                    *)
LEMMA NextTrustInv == TrustInv /\ installed \in Releases /\ [TrustNext]_trustVars => TrustInv'
  <1> SUFFICES ASSUME TrustInv, installed \in Releases, [TrustNext]_trustVars PROVE TrustInv'
    OBVIOUS
  <1>1. ASSUME NEW a \in Assets, NEW digest \in Digests,
               TrustExtension(a, digest) \/ StartExtension(a, digest)
        PROVE  TrustInv'
    <2>1. CASE TrustExtension(a, digest)
      BY <2>1, TrustingKeeps
    <2>2. CASE StartExtension(a, digest)
      <3> DEFINE steps == <<Step(a, digest)>>
      <3>1. Started(steps) /\ \A k \in DOMAIN steps : steps[k].id \in Assets \cup {Reset}
        BY <2>2 DEF StartExtension, Step
      <3> QED
        BY <3>1, StartKeeps
    <2> QED
      BY <1>1, <2>1, <2>2
  <1>2. CASE StartSession
    <2> DEFINE steps == SessionSteps \o CollectSteps
    <2>1. Started(steps)
      BY <1>2 DEF StartSession
    <2>2. steps \in Seq(OwnSteps)
      BY SessionStepsTyped DEF TrustInv, TrustTyped
    <2> HIDE DEF steps
    <2>3. \A k \in DOMAIN steps : steps[k].id \in Assets \cup {Reset}
      BY <2>2 DEF OwnSteps, StepType
    <2> QED
      BY <2>1, <2>3, StartKeeps
  <1>3. CASE Examine
    BY <1>3, ExamineKeeps
  <1>4. CASE Refuse \/ RunEnds \/ DaemonEnds
    <2>1. Over /\ UNCHANGED review /\ server' \in {server, None}
      BY <1>4 DEF Refuse, RunEnds, DaemonEnds, review
    <2> QED
      BY <2>1, OverKeeps
  <1>5. CASE NextScript \/ ScriptExits
    BY <1>5, ScriptKeeps
  <1>6. CASE StagedChanges
    BY <1>6, StagedKeeps
  <1>7. CASE StartDaemon
    BY <1>7, DaemonKeeps
  <1>8. CASE \/ EditSafety \/ OpenDesktop \/ CloseDesktop \/ UNCHANGED trustVars
             \/ \E r \in Releases : Install(r)
             \/ \E p \in Parts : FileChanges(p)
    <2>1. UNCHANGED <<job, server, trusted, reviewed>>
      BY <1>8 DEF EditSafety, OpenDesktop, CloseDesktop, trustVars, review, Install, FileChanges
    <2> QED
      BY <2>1, AsideKeeps
  <1> QED
    BY <1>1, <1>2, <1>3, <1>4, <1>5, <1>6, <1>7, <1>8 DEF TrustNext

(* What is known of a script at each of its checks.                        *)
THEOREM TrustInvariant == TrustSpec => []TrustInv
  BY InitTrustInv, NextTrustInv, InstalledIsRelease, PTL DEF TrustSpec

(* A script that runs is made of reviewed bytes.                           *)
THEOREM ReviewedScriptsOnly == TrustSpec => []RunsWhatWasReviewed
  <1>1. TrustInv => RunsWhatWasReviewed
    <2> SUFFICES ASSUME TrustInv, job.pass = "running"
                 PROVE  IF Script = Reset THEN job.copy = Reset ELSE <<Script, job.copy>> \in reviewed
      BY DEF RunsWhatWasReviewed, Script
    <2>1. job.copy = Expected /\ Script \in Assets \cup {Reset}
      BY DEF TrustInv, TrustTyped, Fields, ScriptChecked, AtScript, Script
    <2>2. CASE Script # Reset
      <3>1. job.trusted[Script] = Pinned[server][Script] /\ server \in Releases
        BY <2>2 DEF TrustInv, TrustTyped, Fields, ServedByDaemon, ScriptChecked, AtScript
      <3>2. job.trusted[Script] # None
        BY <2>1, <2>2, <3>1, PinnedDigest, NoneIsNoDigest
      <3> QED
        BY <2>1, <2>2, <3>1, <3>2 DEF TrustInv, TrustReviewed, Expected
    <2> QED
      BY <2>1, <2>2 DEF Expected
  <1> QED
    BY TrustInvariant, <1>1, PTL
-----------------------------------------------------------------------------
(* The preflight looks at one step of each asset, and the steps of one     *)
(* asset are the same: a step that it has not looked at has been looked at *)
(* in the first of its name.                                               *)

Passed(step) == \A c \in 1..PreflightChecks : Holds(Checks[c], step)
StepsTyped ==
  /\ job.steps \in Seq(StepType)
  /\ \A k \in DOMAIN job.steps :
       job.steps[k].digest = IF job.steps[k].id = Reset THEN None ELSE job.trusted[job.steps[k].id]
Looked ==
  /\ job.pass = "preflight" => job.k \in ToPreflight(job.steps)
  /\ job.pass = "preflight" /\ ~disturbed =>
       /\ \A j \in ToPreflight(job.steps) : j < job.k => Passed(job.steps[j])
       /\ \A c \in 1..(job.at - 1) : Holds(Checks[c], job.steps[job.k])
  /\ job.pass \in {"execute", "running"} /\ ~disturbed =>
       \A k \in DOMAIN job.steps : Passed(job.steps[k])
PreflightInv == StepsTyped /\ Looked

(* A set of naturals has a least element.                                  *)
LEMMA LeastOf ==
  ASSUME NEW T \in SUBSET Nat, T # {}
  PROVE  \E n \in T : \A m \in T : n <= m
  <1> DEFINE below(n) == 1..n
             intervals == {below(n) : n \in T}
  <1>1. IsWellFoundedOn(StrictSubsetOrdering(Nat), FiniteSubsetsOf(Nat))
    BY FS_StrictSubsetOrderingWellFounded
  <1>2. intervals \subseteq FiniteSubsetsOf(Nat)
    <2> SUFFICES ASSUME NEW n \in T PROVE below(n) \in FiniteSubsetsOf(Nat)
      OBVIOUS
    <2>1. IsFiniteSet(1..n) /\ 1..n \in SUBSET Nat
      BY FS_Interval
    <2> QED
      BY <2>1 DEF FiniteSubsetsOf
  <1>3. intervals # {}
    OBVIOUS
  <1>4. PICK x \in intervals : \A y \in intervals : <<y, x>> \notin StrictSubsetOrdering(Nat)
    <2> HIDE DEF intervals
    <2> QED
      BY <1>1, <1>2, <1>3, WFMin
  <1>5. PICK n \in T : x = below(n)
    OBVIOUS
  <1>6. ASSUME NEW m \in T, m < n PROVE FALSE
    <2>1. below(m) \subseteq below(n) /\ n \in below(n) /\ n \notin below(m)
      BY <1>6
    <2>2. <<below(m), below(n)>> \in StrictSubsetOrdering(Nat)
      <3>1. below(m) \in SUBSET Nat /\ below(n) \in SUBSET Nat
        OBVIOUS
      <3> HIDE DEF below
      <3> QED
        BY <2>1, <3>1 DEF StrictSubsetOrdering
    <2> QED
      BY <1>4, <1>5, <2>2
  <1> QED
    BY <1>6

(* What one check finds stays so while no file changes.                    *)
LEMMA PassedStays ==
  ASSUME UNCHANGED <<server, onDisk>>, job'.trusted = job.trusted, job'.harmless = job.harmless,
         NEW step
  PROVE  /\ \A c \in 1..PreflightChecks : Holds(Checks[c], step) => Holds(Checks[c], step)'
         /\ Passed(step) => Passed(step)'
  <1>1. \A c \in 1..PreflightChecks : Checks[c] \in {"policy", "support", "interpreter", "fragment"}
    BY CheckOrder DEF PreflightChecks
  <1>2. \A check \in {"policy", "support", "interpreter", "fragment"} :
          Holds(check, step) => Holds(check, step)'
    BY DEF Holds, SafeProfile, ApprovedDigest, SupportHolds, InterpreterHolds, VerifiedFragment
  <1>3. \A c \in 1..PreflightChecks : Holds(Checks[c], step) => Holds(Checks[c], step)'
    BY <1>1, <1>2
  <1> QED
    BY <1>3 DEF Passed

(* The next step that is looked at is the first after this one.            *)
LEMMA NextToPreflight ==
  ASSUME NEW k \in Nat, job.steps \in Seq(StepType)
  PROVE  LET j == NextPreflight(k) IN
         \/ j = 0 /\ \A i \in ToPreflight(job.steps) : i <= k
         \/ /\ j \in ToPreflight(job.steps) /\ j > k
            /\ \A i \in ToPreflight(job.steps) : i < j => i <= k
  <1> DEFINE later == {j \in ToPreflight(job.steps) : j > k}
  <1>1. ToPreflight(job.steps) \subseteq Nat \ {0}
    BY DEF ToPreflight
  <1>2. CASE later = {}
    BY <1>1, <1>2 DEF NextPreflight
  <1>3. CASE later # {}
    <2>1. \E j \in later : \A i \in later : j <= i
      <3>1. later \in SUBSET Nat
        BY <1>1
      <3> HIDE DEF later
      <3> QED
        BY <1>3, <3>1, LeastOf
    <2>2. NextPreflight(k) = CHOOSE j \in later : \A i \in later : j <= i
      BY <1>3 DEF NextPreflight
    <2>3. NextPreflight(k) \in later /\ \A i \in later : NextPreflight(k) <= i
      <3> HIDE DEF later
      <3> QED
        BY <2>1, <2>2
    <2> QED
      BY <1>1, <2>3
  <1> QED
    BY <1>2, <1>3

(* Every step is the same as the first of its name.                        *)
LEMMA FirstOfItsName ==
  ASSUME StepsTyped, NEW k \in DOMAIN job.steps
  PROVE  \E j \in ToPreflight(job.steps) : job.steps[j] = job.steps[k]
  <1> DEFINE named == {j \in DOMAIN job.steps : job.steps[j].id = job.steps[k].id}
  <1>1. job.steps \in Seq(StepType) /\ named \subseteq Nat /\ named # {}
    BY DEF StepsTyped
  <1>2. PICK j \in named : \A i \in named : j <= i
    <2> HIDE DEF named
    <2> QED
      BY <1>1, LeastOf
  <1>3. j \in DOMAIN job.steps /\ job.steps[j].id = job.steps[k].id
    OBVIOUS
  <1>4. j \in ToPreflight(job.steps)
    <2>1. ASSUME NEW i \in 1..(j - 1) PROVE job.steps[i].id # job.steps[j].id
      <3>1. i \in DOMAIN job.steps /\ ~(j <= i)
        BY <1>1, <1>3, <2>1
      <3> QED
        BY <1>2, <1>3, <3>1
    <2> QED
      BY <1>3, <2>1 DEF ToPreflight
  <1>5. job.steps[j] \in StepType /\ job.steps[k] \in StepType
        /\ job.steps[j].digest = job.steps[k].digest
    BY <1>1, <1>3 DEF StepsTyped
  <1> QED
    BY <1>3, <1>4, <1>5 DEF StepType

-----------------------------------------------------------------------------
(* A run that is over, and the steps that do not touch one.                *)
LEMMA OverStaysLooked ==
  ASSUME Over
  PROVE  PreflightInv'
  BY DEF Over, NoJob, PreflightInv, StepsTyped, Looked

LEMMA AsideStaysLooked ==
  ASSUME TrustTyped, PreflightInv, UNCHANGED <<job, server>>,
         UNCHANGED <<onDisk, disturbed>> \/ disturbed' = TRUE
  PROVE  PreflightInv'
  <1>1. StepsTyped' /\ ToPreflight(job'.steps) = ToPreflight(job.steps)
    BY DEF PreflightInv, StepsTyped
  <1>2. CASE UNCHANGED <<onDisk, disturbed>>
    <2>1. \A step : (Passed(step) => Passed(step)')
      BY <1>2, PassedStays
    <2>2. \A step : \A c \in 1..PreflightChecks : Holds(Checks[c], step) => Holds(Checks[c], step)'
      BY <1>2, PassedStays
    <2>3. job.pass = "preflight" => \A c \in 1..(job.at - 1) : c \in 1..PreflightChecks
      BY DEF TrustTyped, PreflightChecks
    <2>4. job.pass = "preflight" /\ ~disturbed =>
            \A c \in 1..(job.at - 1) : Holds(Checks[c], job.steps[job.k])'
      <3>1. ASSUME job.pass = "preflight", ~disturbed, NEW c \in 1..(job.at - 1)
            PROVE  Holds(Checks[c], job.steps[job.k])'
        <4> DEFINE step == job.steps[job.k]
        <4>1. Holds(Checks[c], step) /\ c \in 1..PreflightChecks /\ step' = step
          BY <2>3, <3>1 DEF PreflightInv, Looked
        <4> QED
          BY <2>2, <4>1
      <3> QED
        BY <3>1
    <2>5. ASSUME NEW k, Passed(job.steps[k]) PROVE Passed(job.steps[k])'
      BY <2>1, <2>5
    <2> QED
      BY <1>1, <1>2, <2>4, <2>5 DEF PreflightInv, Looked
  <1>3. CASE disturbed' = TRUE
    BY <1>1, <1>3 DEF PreflightInv, Looked
  <1> QED
    BY <1>2, <1>3

(* A run that starts has looked at nothing yet.                            *)
LEMMA StartLooks ==
  ASSUME TrustTyped, NEW steps, Started(steps), steps \in Seq(OwnSteps), steps # <<>>
  PROVE  PreflightInv'
  <1>1. /\ job' = [NoJob EXCEPT !.pass = "preflight", !.steps = steps, !.k = 1, !.at = 1]
        /\ disturbed' = FALSE
    BY DEF Started
  <1>2. /\ job'.pass = "preflight" /\ job'.steps = steps /\ job'.k = 1 /\ job'.at = 1
        /\ job'.trusted = trusted
    BY <1>1 DEF NoJob
  <1>3. steps \in Seq(StepType) /\ \A k \in DOMAIN steps : steps[k].digest = OwnDigest(steps[k])
    BY DEF OwnSteps
  <1>4. StepsTyped'
    BY <1>2, <1>3 DEF StepsTyped, OwnDigest
  <1>5. 1 \in ToPreflight(steps)
    BY <1>3 DEF ToPreflight
  <1>6. \A j \in ToPreflight(steps) : ~(j < 1)
    BY <1>3 DEF ToPreflight
  <1> QED
    BY <1>2, <1>4, <1>5, <1>6 DEF PreflightInv, Looked

(* A check that holds is one more that is looked at; after the last of the *)
(* last step, every step has been.                                         *)
LEMMA ExamineLooks ==
  ASSUME TrustInv, PreflightInv, Examine
  PROVE  PreflightInv'
  <1> DEFINE step == job.steps[job.k]
             check == Checks[job.at]
             next == [job EXCEPT !.at = @ + 1]
  <1>1. /\ UNCHANGED <<server, onDisk, disturbed>> /\ DOMAIN job = Fields
        /\ job.pass \in {"preflight", "execute"} /\ StepsTyped
    BY DEF Examine, Working, disk, TrustInv, TrustTyped, PreflightInv
  <1>2. CASE ~Holds(check, step)
    <2>1. Over
      BY <1>2 DEF Examine
    <2> QED
      BY <2>1, OverStaysLooked
  <1>3. CASE Holds(check, step) /\ job.pass = "preflight"
    <2>1. job.at \in 1..4 /\ job.k \in ToPreflight(job.steps) /\ 1..PreflightChecks = 1..4
      BY <1>3 DEF TrustInv, TrustTyped, PreflightInv, Looked, PreflightChecks
    <2>2. job.k \in DOMAIN job.steps /\ job.k \in Nat
      BY <1>1, <2>1 DEF ToPreflight, StepsTyped
    <2>3. job.trusted = job'.trusted /\ job.harmless = job'.harmless => 
            /\ \A s : (Passed(s) => Passed(s)')
            /\ \A s : \A c \in 1..4 : Holds(Checks[c], s) => Holds(Checks[c], s)'
      BY <1>1, <2>1, PassedStays
    <2>4. CASE job.at < 4
      <3>1. check \notin {"stage", "inspect", "launch"}
        BY <2>1, <2>4, CheckOrder
      <3>2. job' = next
        BY <1>3, <2>4, <3>1 DEF Examine, PreflightChecks
      <3>3. /\ job'.pass = "preflight" /\ job'.at = job.at + 1 /\ job'.k = job.k
            /\ job'.steps = job.steps /\ job'.trusted = job.trusted /\ job'.harmless = job.harmless
        BY <1>1, <1>3, <3>2 DEF Fields
      <3>4. StepsTyped'
        BY <1>1, <3>3 DEF StepsTyped
      <3>5. ASSUME ~disturbed, NEW c \in 1..(job'.at - 1)
            PROVE  Holds(Checks[c], job.steps[job.k])'
        <4>1. c \in 1..4 /\ (c = job.at \/ c \in 1..(job.at - 1))
          BY <2>1, <2>4, <3>3, <3>5
        <4>2. Holds(Checks[c], step)
          BY <1>3, <3>5, <4>1 DEF PreflightInv, Looked
        <4>3. step' = step
          BY <3>3
        <4> QED
          BY <2>3, <3>3, <4>1, <4>2, <4>3
      <3>6. ASSUME NEW j, Passed(job.steps[j]) PROVE Passed(job.steps[j])'
        BY <2>3, <3>3, <3>6
      <3> QED
        BY <1>1, <1>3, <2>1, <3>3, <3>4, <3>5, <3>6 DEF PreflightInv, Looked
    <2>5. CASE job.at = 4
      <3> DEFINE j == NextPreflight(job.k)
      <3>1. \/ j = 0 /\ \A i \in ToPreflight(job.steps) : i <= job.k
            \/ /\ j \in ToPreflight(job.steps) /\ j > job.k
               /\ \A i \in ToPreflight(job.steps) : i < j => i <= job.k
        BY <1>1, <2>2, NextToPreflight DEF StepsTyped
      <3>2. job' = IF j > 0 THEN [job EXCEPT !.k = j, !.at = 1]
                            ELSE [job EXCEPT !.pass = "execute", !.at = 0]
        BY <1>3, <2>5 DEF Examine, PreflightChecks
      <3> HIDE DEF j
      <3>3. /\ job'.steps = job.steps /\ job'.trusted = job.trusted /\ job'.harmless = job.harmless
            /\ j > 0 => job'.pass = "preflight" /\ job'.k = j /\ job'.at = 1
            /\ ~(j > 0) => job'.pass = "execute"
        BY <1>1, <1>3, <3>2 DEF Fields
      <3>4. ~disturbed => Passed(step)
        <4>1. ASSUME ~disturbed, NEW c \in 1..4 PROVE Holds(Checks[c], step)
          <5>1. c = job.at \/ c \in 1..(job.at - 1)
            BY <2>5, <4>1
          <5> QED
            BY <1>3, <4>1, <5>1 DEF PreflightInv, Looked
        <4> QED
          BY <2>1, <4>1 DEF Passed
      <3>5. ASSUME ~disturbed, NEW i \in ToPreflight(job.steps), i <= job.k
            PROVE  Passed(job.steps[i])
        <4>1. i \in Nat
          BY <1>1 DEF ToPreflight, StepsTyped
        <4>2. i = job.k \/ i < job.k
          BY <2>2, <3>5, <4>1
        <4> QED
          BY <1>3, <3>4, <3>5, <4>2 DEF PreflightInv, Looked
      <3>6. ASSUME NEW i, Passed(job.steps[i]) PROVE Passed(job.steps[i])'
        BY <2>3, <3>3, <3>6
      <3>7. StepsTyped'
        BY <1>1, <3>3 DEF StepsTyped
      <3>8. CASE j \in ToPreflight(job.steps) /\ j > job.k
                 /\ \A i \in ToPreflight(job.steps) : i < j => i <= job.k
        <4>1. j > 0
          BY <1>1, <2>2, <3>8 DEF ToPreflight, StepsTyped
        <4> QED
          BY <1>1, <3>3, <3>5, <3>6, <3>7, <3>8, <4>1 DEF PreflightInv, Looked
      <3>9. CASE j = 0 /\ \A i \in ToPreflight(job.steps) : i <= job.k
        <4>1. ASSUME ~disturbed, NEW k \in DOMAIN job.steps PROVE Passed(job.steps[k])'
          <5>1. PICK i \in ToPreflight(job.steps) : job.steps[i] = job.steps[k]
            BY <1>1, FirstOfItsName
          <5>2. Passed(job.steps[k])
            BY <3>5, <3>9, <4>1, <5>1
          <5> QED
            BY <3>6, <5>2
        <4> QED
          BY <1>1, <3>3, <3>7, <3>9, <4>1 DEF PreflightInv, Looked
      <3> QED
        BY <3>1, <3>8, <3>9
    <2> QED
      BY <2>1, <2>4, <2>5
  <1>4. CASE Holds(check, step) /\ job.pass = "execute"
    <2>1. /\ job'.pass \in {"execute", "running"} /\ job'.steps = job.steps
          /\ job'.trusted = job.trusted /\ job'.harmless = job.harmless
      BY <1>1, <1>4 DEF Examine, Fields
    <2>2. \A s : (Passed(s) => Passed(s)')
      BY <1>1, <2>1, PassedStays
    <2>3. ASSUME NEW k, Passed(job.steps[k]) PROVE Passed(job.steps[k])'
      BY <2>1, <2>2, <2>3
    <2>4. StepsTyped'
      BY <1>1, <2>1 DEF StepsTyped
    <2> QED
      BY <1>1, <1>4, <2>1, <2>3, <2>4 DEF PreflightInv, Looked
  <1> QED
    BY <1>1, <1>2, <1>3, <1>4

(* The scripts of a run that has been looked at.                           *)
LEMMA ScriptStaysLooked ==
  ASSUME TrustInv, PreflightInv, NextScript \/ ScriptExits \/ StagedChanges
  PROVE  PreflightInv'
  <1>1. /\ UNCHANGED <<server, onDisk>> /\ (disturbed' = disturbed \/ disturbed' = TRUE)
        /\ job.pass \in {"execute", "running"} /\ job'.pass = "execute" /\ job'.steps = job.steps
        /\ job'.trusted = job.trusted /\ job'.harmless = job.harmless
    BY DEF NextScript, ScriptExits, StagedChanges, disk, TrustInv, TrustTyped, Fields
  <1>2. \A s : (Passed(s) => Passed(s)')
    BY <1>1, PassedStays
  <1>3. ASSUME NEW k, Passed(job.steps[k]) PROVE Passed(job.steps[k])'
    BY <1>1, <1>2, <1>3
  <1>4. StepsTyped'
    BY <1>1 DEF PreflightInv, StepsTyped
  <1> QED
    BY <1>1, <1>3, <1>4 DEF PreflightInv, Looked

-----------------------------------------------------------------------------
(* No run at the start.                                                    *)
LEMMA InitPreflightInv == TrustInit => PreflightInv
  BY DEF TrustInit, NoJob, PreflightInv, StepsTyped, Looked

(* One case per action.                                                    *)
LEMMA NextPreflightInv ==
  TrustInv /\ PreflightInv /\ [TrustNext]_trustVars => PreflightInv'
  <1> SUFFICES ASSUME TrustInv, PreflightInv, [TrustNext]_trustVars PROVE PreflightInv'
    OBVIOUS
  <1>0. TrustTyped
    BY DEF TrustInv
  <1>1. ASSUME NEW a \in Assets, NEW digest \in Digests, StartExtension(a, digest)
        PROVE  PreflightInv'
    <2> DEFINE steps == <<Step(a, digest)>>
    <2>1. Started(steps) /\ trusted[a] = digest
      BY <1>1 DEF StartExtension
    <2>2. Step(a, digest) \in OwnSteps
      BY <2>1, TrustAssumption DEF TrustAssumption, Parts, OwnSteps, OwnDigest, Step, StepType, Marks
    <2>3. steps \in Seq(OwnSteps) /\ steps # <<>>
      BY <2>2
    <2> HIDE DEF steps
    <2> QED
      BY <1>0, <2>1, <2>3, StartLooks
  <1>2. CASE StartSession
    <2> DEFINE steps == SessionSteps \o CollectSteps
    <2>1. Started(steps)
      BY <1>2 DEF StartSession
    <2>2. steps \in Seq(OwnSteps) /\ steps # <<>>
      BY <1>0, <1>2, SessionStepsTyped DEF StartSession, TrustTyped
    <2> HIDE DEF steps
    <2> QED
      BY <1>0, <2>1, <2>2, StartLooks
  <1>3. CASE Examine
    BY <1>3, ExamineLooks
  <1>4. CASE Refuse \/ RunEnds \/ DaemonEnds
    <2>1. Over
      BY <1>4 DEF Refuse, RunEnds, DaemonEnds
    <2> QED
      BY <2>1, OverStaysLooked
  <1>5. CASE NextScript \/ ScriptExits \/ StagedChanges
    BY <1>5, ScriptStaysLooked
  <1>6. CASE StartDaemon
    <2>1. job.pass = "none" /\ UNCHANGED job
      BY <1>6 DEF StartDaemon, TrustInv, ServedByDaemon
    <2> QED
      BY <2>1 DEF PreflightInv, StepsTyped, Looked
  <1>7. CASE \/ EditSafety \/ OpenDesktop \/ CloseDesktop \/ UNCHANGED trustVars
             \/ \E r \in Releases : Install(r)
             \/ \E p \in Parts : FileChanges(p)
             \/ \E a \in Assets, digest \in Digests : TrustExtension(a, digest)
    <2>1. /\ UNCHANGED <<job, server>>
          /\ UNCHANGED <<onDisk, disturbed>> \/ disturbed' = TRUE
      BY <1>7 DEF EditSafety, OpenDesktop, CloseDesktop, trustVars, disk, Install, FileChanges,
         TrustExtension
    <2> QED
      BY <1>0, <2>1, AsideStaysLooked
  <1> QED
    BY <1>1, <1>2, <1>3, <1>4, <1>5, <1>6, <1>7 DEF TrustNext

(* The preflight has looked at every step of a run that executes.          *)
THEOREM PreflightInvariant == TrustSpec => []PreflightInv
  BY InitPreflightInv, NextPreflightInv, TrustInvariant, PTL DEF TrustSpec

(* As long as no file changes, no script of the run meets a check that     *)
(* fails, although the preflight looked at each asset once.                *)
THEOREM PreflightIsEnough == TrustSpec => []PreflightSuffices
  <1>1. PreflightInv => PreflightSuffices
    <2> SUFFICES ASSUME PreflightInv, job.pass \in {"execute", "running"}, ~disturbed,
                        NEW k \in DOMAIN job.steps, NEW c \in 1..6
                 PROVE  Holds(Checks[c], job.steps[k])
      BY DEF PreflightSuffices
    <2>1. \A i \in 1..4 : Holds(Checks[i], job.steps[k])
      BY DEF PreflightInv, Looked, Passed, PreflightChecks
    <2>2. /\ Holds("interpreter", job.steps[k]) /\ Holds("fragment", job.steps[k])
      BY <2>1, CheckOrder
    <2>3. Holds("stage", job.steps[k])
      BY <2>2 DEF Holds
    <2> QED
      BY <2>1, <2>2, <2>3, CheckOrder
  <1> QED
    BY <1>1, PreflightInvariant, PTL

-----------------------------------------------------------------------------
(***************************************************************************)
(* The quest planner.                                                      *)
(***************************************************************************)

(* What a quotient of naturals is bounded by.                              *)
LEMMA Quotients ==
  ASSUME NEW d \in Nat \ {0}, NEW x \in Nat, NEW y \in Nat, x <= y
  PROVE  /\ x \div d \in Nat /\ x \div d <= y \div d
         /\ x >= d => x \div d >= 1
         /\ \A u \in Nat : x <= u * d => x \div d <= u
  <1>1. x \div d \in Nat /\ y \div d \in Nat
    OBVIOUS
  <1>2. x \div d <= y \div d
    BY <1>1
  <1>3. x >= d => x \div d >= 1
    BY <1>1
  <1>4. ASSUME NEW u \in Nat, x <= u * d PROVE x \div d <= u
    BY <1>1, <1>4
  <1> QED
    BY <1>1, <1>2, <1>3, <1>4

(* A sum is made term by term.                                             *)
Sums(terms, f, m) == f = [n \in 0..m |-> IF n = 0 THEN 0 ELSE f[n - 1] + terms[n]]

(* The recursion over the terms defines a function.                        *)
LEMMA TotalDefined ==
  ASSUME NEW terms \in Seq(Nat)
  PROVE  \E f : Sums(terms, f, Len(terms)) /\ Total(terms) = f[Len(terms)]
  <1> DEFINE T == {m \in Nat : m <= Len(terms) /\ \A f : ~Sums(terms, f, m)}
  <1>1. T = {}
    <2> SUFFICES ASSUME T # {} PROVE FALSE
      OBVIOUS
    <2>1. PICK m \in T : \A k \in T : m <= k
      <3>1. T \in SUBSET Nat
        OBVIOUS
      <3> HIDE DEF T
      <3> QED
        BY <3>1, LeastOf
    <2>2. m \in Nat /\ m <= Len(terms) /\ (\A f : ~Sums(terms, f, m)) /\ Len(terms) \in Nat
      OBVIOUS
    <2>3. CASE m = 0
      <3> DEFINE g == [n \in 0..0 |-> 0]
      <3>1. Sums(terms, g, 0)
        BY DEF Sums
      <3> QED
        BY <2>2, <2>3, <3>1
    <2>4. CASE m # 0
      <3>1. m - 1 \in Nat /\ m - 1 <= Len(terms) /\ m - 1 \notin T
        <4> HIDE DEF T
        <4> QED
          BY <2>1, <2>2, <2>4
      <3>2. PICK f : Sums(terms, f, m - 1)
        BY <3>1
      <3> DEFINE g == [n \in 0..m |-> IF n = m THEN f[m - 1] + terms[m] ELSE f[n]]
      <3>3. ASSUME NEW n \in 0..m
            PROVE  g[n] = IF n = 0 THEN 0 ELSE g[n - 1] + terms[n]
        <4>1. CASE n = m
          <5>1. g[n] = f[m - 1] + terms[m] /\ n - 1 \in 0..m /\ n - 1 # m
            BY <2>2, <2>4, <4>1
          <5>2. g[n - 1] = f[m - 1]
            BY <4>1, <5>1
          <5> QED
            BY <2>4, <4>1, <5>1, <5>2
        <4>2. CASE n # m
          <5>1. n \in 0..(m - 1) /\ g[n] = f[n]
            BY <2>2, <4>2
          <5>2. f[n] = IF n = 0 THEN 0 ELSE f[n - 1] + terms[n]
            BY <3>2, <5>1 DEF Sums
          <5>3. n # 0 => n - 1 \in 0..m /\ n - 1 # m /\ g[n - 1] = f[n - 1]
            BY <2>2, <5>1
          <5> QED
            BY <5>1, <5>2, <5>3
        <4> QED
          BY <4>1, <4>2
      <3>4. Sums(terms, g, m)
        <4>1. g = [n \in 0..m |-> g[n]]
          OBVIOUS
        <4> HIDE DEF g
        <4> QED
          BY <3>3, <4>1 DEF Sums
      <3> QED
        BY <2>2, <3>4
    <2> QED
      BY <2>3, <2>4
  <1>2. \E f : Sums(terms, f, Len(terms))
    <2>1. Len(terms) \in Nat /\ Len(terms) <= Len(terms)
      OBVIOUS
    <2>2. Len(terms) \notin T
      <3> HIDE DEF T
      <3> QED
        BY <1>1
    <2> QED
      BY <2>1, <2>2
  <1> DEFINE sum == CHOOSE f : Sums(terms, f, Len(terms))
  <1>3. Total(terms) = sum[Len(terms)]
    BY DEF Total, Sums
  <1>4. Sums(terms, sum, Len(terms))
    BY <1>2, Zenon
  <1> QED
    BY <1>3, <1>4

(* A sum is at least each of its terms.                                    *)
LEMMA TotalAtLeast ==
  ASSUME NEW terms \in Seq(Nat)
  PROVE  Total(terms) \in Nat /\ \A k \in DOMAIN terms : terms[k] <= Total(terms)
  <1>1. PICK f : Sums(terms, f, Len(terms)) /\ Total(terms) = f[Len(terms)]
    BY TotalDefined
  <1> DEFINE Fine(n) == f[n] \in Nat /\ \A k \in 1..n : terms[k] <= f[n]
             T == {n \in 0..Len(terms) : ~Fine(n)}
  <1>2. f[0] = 0 /\ \A n \in 1..Len(terms) : f[n] = f[n - 1] + terms[n]
    <2>1. 0 \in 0..Len(terms) /\ \A n \in 1..Len(terms) : n \in 0..Len(terms) /\ n # 0
      OBVIOUS
    <2> QED
      BY <1>1, <2>1 DEF Sums
  <1>3. T = {}
    <2> SUFFICES ASSUME T # {} PROVE FALSE
      OBVIOUS
    <2>1. PICK n \in T : \A m \in T : n <= m
      <3>1. T \in SUBSET Nat
        OBVIOUS
      <3> HIDE DEF T
      <3> QED
        BY <3>1, LeastOf
    <2>2. n \in 0..Len(terms) /\ ~Fine(n)
      OBVIOUS
    <2>3. n # 0
      BY <1>2, <2>2
    <2>4. n - 1 \in 0..Len(terms) /\ n \in 1..Len(terms) /\ n - 1 \notin T
      <3> HIDE DEF T
      <3> QED
        BY <2>1, <2>2, <2>3
    <2>5. Fine(n - 1)
      BY <2>4
    <2>6. f[n] = f[n - 1] + terms[n] /\ terms[n] \in Nat /\ f[n - 1] \in Nat
      BY <1>2, <2>4, <2>5
    <2>7. \A k \in 1..n : terms[k] \in Nat /\ (k = n \/ k \in 1..(n - 1))
      BY <2>4
    <2>8. \A k \in 1..n : terms[k] <= f[n]
      BY SMTT(20), <2>5, <2>6, <2>7
    <2> QED
      BY <2>2, <2>6, <2>8
  <1>4. Fine(Len(terms))
    <2>1. Len(terms) \in 0..Len(terms)
      OBVIOUS
    <2> QED
      BY <1>3, <2>1
  <1> QED
    BY <1>1, <1>4

(* A sum is no less than one whose terms are each no greater.              *)
LEMMA TotalGrows ==
  ASSUME NEW low \in Seq(Nat), NEW high \in Seq(Nat), Len(low) = Len(high),
         \A k \in DOMAIN low : low[k] <= high[k]
  PROVE  Total(low) <= Total(high)
  <1>1. PICK f : Sums(low, f, Len(low)) /\ Total(low) = f[Len(low)]
    BY TotalDefined
  <1>2. PICK g : Sums(high, g, Len(high)) /\ Total(high) = g[Len(high)]
    BY TotalDefined
  <1>a. \A n \in 1..Len(low) : low[n] \in Nat /\ high[n] \in Nat /\ low[n] <= high[n]
    BY SMTT(20)
  <1> DEFINE Fine(n) == f[n] \in Nat /\ g[n] \in Nat /\ f[n] <= g[n]
             T == {n \in 0..Len(low) : ~Fine(n)}
  <1>3. /\ f[0] = 0 /\ \A n \in 1..Len(low) : f[n] = f[n - 1] + low[n]
        /\ g[0] = 0 /\ \A n \in 1..Len(low) : g[n] = g[n - 1] + high[n]
    <2>1. 0 \in 0..Len(low) /\ \A n \in 1..Len(low) : n \in 0..Len(low) /\ n # 0
      OBVIOUS
    <2> QED
      BY <1>1, <1>2, <2>1 DEF Sums
  <1>4. T = {}
    <2> SUFFICES ASSUME T # {} PROVE FALSE
      OBVIOUS
    <2>1. PICK n \in T : \A m \in T : n <= m
      <3>1. T \in SUBSET Nat
        OBVIOUS
      <3> HIDE DEF T
      <3> QED
        BY <3>1, LeastOf
    <2>2. n \in 0..Len(low) /\ ~Fine(n)
      OBVIOUS
    <2>3. n # 0
      BY <1>3, <2>2
    <2>4. n - 1 \in 0..Len(low) /\ n \in 1..Len(low) /\ n - 1 \notin T
      <3> HIDE DEF T
      <3> QED
        BY <2>1, <2>2, <2>3
    <2>5. Fine(n - 1)
      BY <2>4
    <2>6. low[n] \in Nat /\ high[n] \in Nat /\ low[n] <= high[n]
      BY ONLY <1>a, <2>4
    <2>7. f[n] = f[n - 1] + low[n] /\ g[n] = g[n - 1] + high[n]
      BY ONLY <1>3, <2>4
    <2>8. Fine(n)
      BY ONLY SMTT(20), <2>5, <2>6, <2>7
    <2> QED
      BY ONLY <2>2, <2>8
  <1>5. Fine(Len(low))
    <2>1. Len(low) \in 0..Len(low)
      OBVIOUS
    <2> QED
      BY <1>4, <2>1
  <1> QED
    BY <1>1, <1>2, <1>5

(* A quest as the planner gets it: a progress for each objective.          *)
SoundQuest(quest) ==
  /\ quest.objectives \in Seq(Range(quest.objectives))
  /\ quest.confidence \in Nat
  /\ quest.giver = "science" => quest.translator \in BOOLEAN
  /\ \A k \in DOMAIN quest.objectives :
       quest.objectives[k].amount \in 1..Unit /\ quest.progress[k] \in Nat

(* No field has a negative rate for an objective.                          *)
LEMMA RateTyped ==
  ASSUME NEW place \in Places, NEW objective
  PROVE  ObjectiveRate(place, objective) \in Nat
  <1>1. /\ {"pollen", "goo"} \subseteq DOMAIN place.rates
        /\ \A what \in DOMAIN place.rates : place.rates[what] \in Nat
    BY PlannerAssumption DEF PlannerAssumption
  <1> QED
    BY <1>1 DEF ObjectiveRate, FieldKinds

(* What remains of an unfinished objective divides into Unit shares.       *)
LEMMA RemainingTyped ==
  ASSUME NEW quest, SoundQuest(quest), NEW k \in Unfinished(quest)
  PROVE  k \in DOMAIN quest.objectives /\ Remaining(quest, k) \in 1..Unit
  <1>1. k \in DOMAIN quest.objectives /\ Remaining(quest, k) > 0
    BY DEF Unfinished
  <1>2. quest.objectives[k].amount \in 1..Unit /\ quest.progress[k] \in Nat /\ Unit \in Nat
    BY <1>1, PlannerAssumption DEF SoundQuest, PlannerAssumption
  <1> QED
    BY <1>1, <1>2 DEF Remaining

(* The share of an objective: some for any rate, more for a higher one.    *)
LEMMA FractionGrows ==
  ASSUME NEW a \in Places, NEW b \in Places, NEW quest, SoundQuest(quest),
         NEW k \in Unfinished(quest)
  PROVE  /\ Fraction(a, quest, k) \in Nat
         /\ ObjectiveRate(a, quest.objectives[k]) > 0 => Fraction(a, quest, k) > 0
         /\ ObjectiveRate(b, quest.objectives[k]) <= ObjectiveRate(a, quest.objectives[k]) =>
              Fraction(b, quest, k) <= Fraction(a, quest, k)
  <1> DEFINE x == ObjectiveRate(a, quest.objectives[k])
             y == ObjectiveRate(b, quest.objectives[k])
             d == Remaining(quest, k)
  <1>1. x \in Nat /\ y \in Nat /\ d \in 1..Unit /\ Unit \in Nat \ {0}
    BY RateTyped, RemainingTyped, PlannerAssumption DEF PlannerAssumption
  <1>2. /\ Fraction(a, quest, k) = IF x >= d THEN Unit ELSE (x * Unit) \div d
        /\ Fraction(b, quest, k) = IF y >= d THEN Unit ELSE (y * Unit) \div d
    BY DEF Fraction
  <1> HIDE DEF x, y, d
  <1>3. x * Unit \in Nat /\ y * Unit \in Nat /\ d \in Nat \ {0}
    BY <1>1
  <1>4. (x * Unit) \div d \in Nat /\ (y * Unit) \div d \in Nat
    BY <1>3, Quotients
  <1>5. x > 0 => (x * Unit) \div d >= 1
    <2>1. x > 0 => x * Unit >= Unit
      BY <1>1
    <2>2. x > 0 => x * Unit >= d
      BY <1>1, <1>3, <2>1
    <2> QED
      BY <1>3, <2>2, Quotients
  <1>6. y <= x => (y * Unit) \div d <= (x * Unit) \div d
    <2>1. y <= x => y * Unit <= x * Unit
      BY <1>1
    <2> QED
      BY <1>3, <2>1, Quotients
  <1>7. y < d => (y * Unit) \div d <= Unit
    <2>1. y < d => y * Unit <= d * Unit
      BY <1>1
    <2>2. d * Unit = Unit * d
      BY <1>1
    <2> QED
      BY <1>1, <1>3, <2>1, <2>2, Quotients
  <1> QED
    BY <1>1, <1>2, <1>4, <1>5, <1>6, <1>7 DEF x, y

(* A field that advances a quest has some share of it.                     *)
LEMMA FractionsTyped ==
  ASSUME NEW place \in Places, NEW quest, SoundQuest(quest)
  PROVE  /\ Fractions(place, quest) \in Seq(Nat)
         /\ DOMAIN Fractions(place, quest) = DOMAIN quest.objectives
         /\ Total(Fractions(place, quest)) \in Nat
         /\ Advances(place, quest) # {} => Total(Fractions(place, quest)) > 0
  <1> DEFINE fs == Fractions(place, quest)
  <1>1. PICK n \in Nat : DOMAIN quest.objectives = 1..n
    BY DEF SoundQuest
  <1>2. \A k \in Advances(place, quest) :
          /\ k \in Unfinished(quest) /\ k \in 1..n /\ ObjectiveRate(place, quest.objectives[k]) > 0
          /\ Fraction(place, quest, k) \in Nat /\ Fraction(place, quest, k) > 0
    <2>1. \A k \in Advances(place, quest) :
            k \in Unfinished(quest) /\ k \in 1..n /\ ObjectiveRate(place, quest.objectives[k]) > 0
      BY <1>1 DEF Advances, Unfinished
    <2> QED
      BY <2>1, FractionGrows
  <1>3. /\ fs = [k \in 1..n |-> IF k \in Advances(place, quest) THEN Fraction(place, quest, k) ELSE 0]
        /\ DOMAIN fs = 1..n
    BY <1>1 DEF Fractions
  <1>4. fs \in [1..n -> Nat]
    BY <1>2, <1>3
  <1>5. fs \in Seq(Nat)
    BY <1>4
  <1> HIDE DEF fs
  <1>6. Total(fs) \in Nat /\ \A k \in DOMAIN fs : fs[k] <= Total(fs)
    BY <1>5, TotalAtLeast
  <1>7. ASSUME NEW k \in Advances(place, quest) PROVE Total(fs) > 0
    <2>1. k \in DOMAIN fs /\ fs[k] = Fraction(place, quest, k) /\ fs[k] \in Nat /\ fs[k] > 0
      BY <1>2, <1>3
    <2> QED
      BY <1>6, <2>1
  <1> QED
    BY <1>1, <1>3, <1>5, <1>6, <1>7 DEF fs

(* A quest weighs something, whoever gives it.                             *)
LEMMA WeightTyped ==
  ASSUME NEW quest, SoundQuest(quest)
  PROVE  ProgressionWeight(quest) \in {100, 155, 240}
  <1>1. CASE quest.giver = "science"
    BY <1>1 DEF SoundQuest, ProgressionWeight
  <1>2. CASE quest.giver # "science"
    BY <1>2 DEF ProgressionWeight
  <1> QED
    BY <1>1, <1>2

(* Only a confident quest that a field advances adds to its score.         *)
LEMMA ShareTyped ==
  ASSUME NEW place \in Places, NEW quest, SoundQuest(quest)
  PROVE  /\ Share(place, quest) \in Nat
         /\ Confident(quest) /\ Advances(place, quest) # {} => Share(place, quest) > 0
  <1>1. /\ Total(Fractions(place, quest)) \in Nat
        /\ Advances(place, quest) # {} => Total(Fractions(place, quest)) > 0
    BY FractionsTyped
  <1> QED
    BY <1>1, WeightTyped DEF Share

(* What the planner is given, and what it has made of it.                  *)
SoundInput ==
  /\ wanted \in Seq(Range(wanted))
  /\ \A j \in DOMAIN wanted : SoundQuest(wanted[j])
  /\ places \subseteq Places /\ \A p, q \in places : p.field = q.field => p = q
  /\ dwell \in Nat
PlannerInv == SoundInput /\ (plan # Nothing => plan = Plan)

(* The score of a candidate is positive, and no travel divides by 0.       *)
LEMMA RawTyped ==
  ASSUME SoundInput, NEW place \in Places
  PROVE  /\ [j \in DOMAIN wanted |-> Share(place, wanted[j])] \in Seq(Nat)
         /\ Len([j \in DOMAIN wanted |-> Share(place, wanted[j])]) = Len(wanted)
         /\ Raw(place) \in Nat /\ Far(place) \in Nat \ {0}
         /\ Candidate(place) => Raw(place) > 0
  <1> DEFINE shares == [j \in DOMAIN wanted |-> Share(place, wanted[j])]
  <1>1. DOMAIN wanted = 1..Len(wanted) /\ Len(wanted) \in Nat
    BY DEF SoundInput
  <1>2. \A j \in DOMAIN wanted :
          /\ Share(place, wanted[j]) \in Nat
          /\ Confident(wanted[j]) /\ Advances(place, wanted[j]) # {} => Share(place, wanted[j]) > 0
    BY ShareTyped DEF SoundInput
  <1>3. shares \in [1..Len(wanted) -> Nat]
    BY <1>1, <1>2
  <1>4. shares \in Seq(Nat) /\ Len(shares) = Len(wanted) /\ DOMAIN shares = DOMAIN wanted
    BY <1>1, <1>3
  <1>5. \A j \in DOMAIN wanted : shares[j] = Share(place, wanted[j])
    OBVIOUS
  <1>6. Raw(place) = Total(shares)
    BY DEF Raw
  <1> HIDE DEF shares
  <1>7. Raw(place) \in Nat /\ \A j \in DOMAIN shares : shares[j] <= Raw(place)
    BY <1>4, <1>6, TotalAtLeast
  <1>8. ASSUME Candidate(place) PROVE Raw(place) > 0
    <2>1. PICK j \in DOMAIN wanted : Confident(wanted[j]) /\ Advances(place, wanted[j]) # {}
      BY <1>8 DEF Candidate
    <2>2. shares[j] > 0 /\ shares[j] \in Nat /\ shares[j] <= Raw(place)
      BY <1>2, <1>4, <1>5, <1>7, <2>1
    <2> QED
      BY <1>7, <2>2
  <1>9. Far(place) \in Nat \ {0}
    <2>1. place.travel \in Nat
      BY PlannerAssumption DEF PlannerAssumption
    <2> QED
      BY <2>1 DEF Far
  <1> QED
    BY <1>4, <1>7, <1>8, <1>9 DEF shares

-----------------------------------------------------------------------------
(* The order of the candidates.                                            *)
LEMMA Products ==
  ASSUME NEW a \in Nat, NEW b \in Nat, NEW c \in Nat,
         NEW x \in Nat \ {0}, NEW y \in Nat \ {0}, NEW z \in Nat \ {0}
  PROVE  /\ b * x <= a * y /\ c * y <= b * z => c * x <= a * z
         /\ b * x < a * y /\ c * y <= b * z => c * x < a * z
         /\ b * x <= a * y /\ c * y < b * z => c * x < a * z
  <1> DEFINE p == (b * x) * z
             q == (a * y) * z
             r == (c * y) * x
             s == (b * z) * x
  <1>1. p \in Nat /\ q \in Nat /\ r \in Nat /\ s \in Nat /\ p = s
    OBVIOUS
  <1>2. q = (a * z) * y /\ r = (c * x) * y
    OBVIOUS
  <1>3. /\ b * x <= a * y => p <= q
        /\ b * x < a * y => p < q
    OBVIOUS
  <1>4. /\ c * y <= b * z => r <= s
        /\ c * y < b * z => r < s
    OBVIOUS
  <1>5. a * z \in Nat /\ c * x \in Nat
    OBVIOUS
  <1>6. /\ (c * x) * y <= (a * z) * y => c * x <= a * z
        /\ (c * x) * y < (a * z) * y => c * x < a * z
    BY <1>5
  <1> HIDE DEF p, q, r, s
  <1> QED
    BY <1>1, <1>2, <1>3, <1>4, <1>6

(* The order, as products of whole numbers.                                *)
LEMMA PrecedesBy ==
  ASSUME SoundInput, NEW a \in Places, NEW b \in Places
  PROVE  /\ Raw(a) * Far(b) \in Nat /\ Raw(b) * Far(a) \in Nat
         /\ Precedes(a, b) <=>
              \/ Raw(b) * Far(a) < Raw(a) * Far(b)
              \/ Raw(b) * Far(a) = Raw(a) * Far(b) /\ Rank(a.field) < Rank(b.field)
  <1>1. Raw(a) * Far(b) \in Nat /\ Raw(b) * Far(a) \in Nat
    <2>1. Raw(a) \in Nat /\ Raw(b) \in Nat /\ Far(a) \in Nat /\ Far(b) \in Nat
      BY RawTyped
    <2> QED
      BY <2>1
  <1>2. /\ AtLeast(b, a, 100) <=> 100 * (Raw(b) * Far(a)) >= 100 * (Raw(a) * Far(b))
        /\ AtLeast(a, b, 100) <=> 100 * (Raw(a) * Far(b)) >= 100 * (Raw(b) * Far(a))
    BY DEF AtLeast
  <1>3. /\ AtLeast(b, a, 100) <=> Raw(b) * Far(a) >= Raw(a) * Far(b)
        /\ AtLeast(a, b, 100) <=> Raw(a) * Far(b) >= Raw(b) * Far(a)
    BY <1>1, <1>2
  <1> QED
    BY <1>1, <1>3 DEF Precedes

(* Two fields have two ranks.                                              *)
LEMMA RankFacts ==
  ASSUME NEW a \in Places, NEW b \in Places
  PROVE  /\ Rank(a.field) \in Nat /\ Rank(b.field) \in Nat
         /\ Rank(a.field) = Rank(b.field) => a.field = b.field
  <1>1. a.field \in FieldIds /\ b.field \in FieldIds /\ FieldOrder \in Seq(FieldIds)
    BY PlannerAssumption DEF PlannerAssumption
  <1>2. /\ Rank(a.field) \in DOMAIN FieldOrder /\ FieldOrder[Rank(a.field)] = a.field
        /\ Rank(b.field) \in DOMAIN FieldOrder /\ FieldOrder[Rank(b.field)] = b.field
    BY <1>1 DEF Rank, FieldIds, Range
  <1> QED
    BY <1>1, <1>2

(* The order is total and transitive: sorting by it makes sense.           *)
LEMMA PrecedesOrders ==
  ASSUME SoundInput, NEW a \in places, NEW b \in places, NEW c \in places
  PROVE  /\ a # b => Precedes(a, b) \/ Precedes(b, a)
         /\ Precedes(a, b) /\ Precedes(b, c) => Precedes(a, c)
  <1>1. a \in Places /\ b \in Places /\ c \in Places
    BY DEF SoundInput
  <1>2. /\ Raw(a) \in Nat /\ Far(a) \in Nat \ {0} /\ Raw(b) \in Nat /\ Far(b) \in Nat \ {0}
        /\ Raw(c) \in Nat /\ Far(c) \in Nat \ {0}
    BY <1>1, RawTyped
  <1>3. /\ Rank(a.field) \in Nat /\ Rank(b.field) \in Nat /\ Rank(c.field) \in Nat
        /\ a # b => Rank(a.field) # Rank(b.field)
    BY <1>1, RankFacts DEF SoundInput
  <1>4. a # b => Precedes(a, b) \/ Precedes(b, a)
    BY <1>1, <1>3, PrecedesBy
  <1>5. ASSUME Precedes(a, b), Precedes(b, c) PROVE Precedes(a, c)
    <2>1. /\ Raw(b) * Far(a) <= Raw(a) * Far(b) /\ Raw(c) * Far(b) <= Raw(b) * Far(c)
          /\ \/ Raw(b) * Far(a) < Raw(a) * Far(b)
             \/ Raw(c) * Far(b) < Raw(b) * Far(c)
             \/ Rank(a.field) < Rank(b.field) /\ Rank(b.field) < Rank(c.field)
      BY <1>1, <1>5, PrecedesBy
    <2>2. /\ Raw(c) * Far(a) <= Raw(a) * Far(c)
          /\ Raw(c) * Far(a) < Raw(a) * Far(c) \/ Rank(a.field) < Rank(c.field)
      <3>1. Raw(c) * Far(a) <= Raw(a) * Far(c)
        BY <1>2, <2>1, Products
      <3>2. CASE Raw(b) * Far(a) < Raw(a) * Far(b)
        BY <1>2, <2>1, <3>1, <3>2, Products
      <3>3. CASE Raw(c) * Far(b) < Raw(b) * Far(c)
        BY <1>2, <2>1, <3>1, <3>3, Products
      <3>4. CASE Rank(a.field) < Rank(b.field) /\ Rank(b.field) < Rank(c.field)
        BY <1>3, <3>1, <3>4
      <3> QED
        BY <2>1, <3>2, <3>3, <3>4
    <2> QED
      BY <1>1, <2>2, PrecedesBy
  <1> QED
    BY <1>4, <1>5

(* There is a first one of any candidates.                                 *)
LEMMA BestExists ==
  ASSUME SoundInput, NEW C \in SUBSET places, C # {}
  PROVE  Best(C) \in C /\ \A d \in C \ {Best(C)} : Precedes(Best(C), d)
  <1> DEFINE First(D, c) == c \in D /\ \A d \in D \ {c} : Precedes(c, d)
             T == {n \in Nat : \E D \in SUBSET places :
                                 D # {} /\ Cardinality(D) = n /\ \A c \in D : ~First(D, c)}
  <1>1. \A D \in SUBSET places : IsFiniteSet(D) /\ Cardinality(D) \in Nat
    <2>1. IsFiniteSet(Places) /\ places \in SUBSET Places
      BY PlannerAssumption DEF PlannerAssumption, SoundInput
    <2> QED
      BY <2>1, FS_Subset, FS_CardinalityType
  <1>2. T = {}
    <2> SUFFICES ASSUME T # {} PROVE FALSE
      OBVIOUS
    <2>1. PICK n \in T : \A m \in T : n <= m
      <3>1. T \in SUBSET Nat
        OBVIOUS
      <3> HIDE DEF T
      <3> QED
        BY <3>1, LeastOf
    <2>2. PICK D \in SUBSET places : D # {} /\ Cardinality(D) = n /\ \A c \in D : ~First(D, c)
      OBVIOUS
    <2>3. PICK x \in D : TRUE
      BY <2>2
    <2> DEFINE E == D \ {x}
    <2>4. E \in SUBSET places /\ Cardinality(E) = n - 1 /\ n \in Nat
      BY <1>1, <2>2, FS_RemoveElement
    <2>5. n - 1 \notin T /\ n - 1 \in Nat
      <3>1. n - 1 \in Nat
        BY <1>1, <2>4
      <3> HIDE DEF T
      <3> QED
        BY <2>1, <2>4, <3>1
    <2>6. CASE E = {}
      <3>1. First(D, x)
        BY <2>6
      <3> QED
        BY <2>2, <3>1
    <2>7. CASE E # {}
      <3>1. PICK c \in E : First(E, c)
        BY <2>4, <2>5, <2>7
      <3>2. c \in places /\ x \in places /\ c # x /\ c \in D
        BY <2>4, <3>1
      <3>3. CASE Precedes(c, x)
        <4>1. First(D, c)
          BY <3>1, <3>2, <3>3
        <4> QED
          BY <2>2, <3>2, <4>1
      <3>4. CASE Precedes(x, c)
        <4>1. ASSUME NEW d \in D \ {x} PROVE Precedes(x, d)
          <5>1. d = c \/ Precedes(c, d)
            BY <3>1
          <5>2. d \in places
            OBVIOUS
          <5> QED
            BY <3>2, <3>4, <5>1, <5>2, PrecedesOrders
        <4> QED
          BY <2>2, <4>1
      <3> QED
        BY <3>2, <3>3, <3>4, PrecedesOrders
    <2> QED
      BY <2>6, <2>7
  <1>3. \E c \in C : First(C, c)
    <2>1. Cardinality(C) \in Nat /\ Cardinality(C) \notin T
      BY <1>1, <1>2
    <2> QED
      BY <2>1
  <1>4. Best(C) = CHOOSE c \in C : \A d \in C \ {c} : Precedes(c, d)
    BY DEF Best
  <1> QED
    BY <1>3, <1>4, Zenon

-----------------------------------------------------------------------------
(* The reasons that the property speaks of are those that a score counts.  *)
LEMMA ReasonsAre ==
  ASSUME SoundInput, NEW place \in places
  PROVE  /\ \A jk \in Reasons(place) :
              /\ jk[1] \in DOMAIN wanted /\ jk[2] \in DOMAIN wanted[jk[1]].objectives
              /\ Confident(place) /\ Confident(wanted[jk[1]])
              /\ jk[2] \in Advances(place, wanted[jk[1]])
         /\ \A j \in DOMAIN wanted : \A k \in Advances(place, wanted[j]) :
              Confident(place) /\ Confident(wanted[j]) => <<j, k>> \in Reasons(place)
  <1>1. ASSUME NEW j \in DOMAIN wanted, NEW k \in DOMAIN wanted[j].objectives
        PROVE  wanted[j].objectives[k].amount > wanted[j].progress[k] <=> k \in Unfinished(wanted[j])
    <2>1. wanted[j].objectives[k].amount \in Nat /\ wanted[j].progress[k] \in Nat
      BY DEF SoundInput, SoundQuest
    <2> QED
      BY <2>1 DEF Unfinished, Remaining
  <1>2. ASSUME NEW jk \in Reasons(place)
        PROVE  /\ jk[1] \in DOMAIN wanted /\ jk[2] \in DOMAIN wanted[jk[1]].objectives
               /\ Confident(place) /\ Confident(wanted[jk[1]])
               /\ jk[2] \in Advances(place, wanted[jk[1]])
    <2>a. PICK j \in DOMAIN wanted : \E k \in DOMAIN wanted[j].objectives :
            /\ jk = <<j, k>> /\ Confident(place) /\ Confident(wanted[j])
            /\ wanted[j].objectives[k].amount > wanted[j].progress[k]
            /\ ObjectiveRate(place, wanted[j].objectives[k]) > 0
      BY DEF Reasons
    <2>1. PICK k \in DOMAIN wanted[j].objectives :
            /\ jk = <<j, k>> /\ Confident(place) /\ Confident(wanted[j])
            /\ wanted[j].objectives[k].amount > wanted[j].progress[k]
            /\ ObjectiveRate(place, wanted[j].objectives[k]) > 0
      BY <2>a
    <2>2. k \in Advances(place, wanted[j])
      BY <1>1, <2>1 DEF Advances
    <2> QED
      BY <2>1, <2>2
  <1>3. ASSUME NEW j \in DOMAIN wanted, NEW k \in Advances(place, wanted[j]),
               Confident(place), Confident(wanted[j])
        PROVE  <<j, k>> \in Reasons(place)
    <2>1. /\ k \in DOMAIN wanted[j].objectives /\ k \in Unfinished(wanted[j])
          /\ ObjectiveRate(place, wanted[j].objectives[k]) > 0
      BY DEF Advances, Unfinished
    <2>2. wanted[j].objectives[k].amount > wanted[j].progress[k]
      BY <1>1, <2>1
    <2> QED
      BY <1>3, <2>1, <2>2 DEF Reasons
  <1> QED
    BY <1>2, <1>3

(* The candidates are the fields with a reason to be in them.              *)
LEMMA ReasonMakesCandidate ==
  ASSUME SoundInput, NEW place \in places
  PROVE  Reasons(place) # {} <=> Confident(place) /\ Candidate(place)
  <1>1. ASSUME NEW jk \in Reasons(place) PROVE Confident(place) /\ Candidate(place)
    BY ReasonsAre DEF Candidate
  <1>2. ASSUME Confident(place), Candidate(place) PROVE Reasons(place) # {}
    <2>1. PICK j \in DOMAIN wanted : Confident(wanted[j]) /\ Advances(place, wanted[j]) # {}
      BY <1>2 DEF Candidate
    <2>2. PICK k \in Advances(place, wanted[j]) : TRUE
      BY <2>1
    <2>3. <<j, k>> \in Reasons(place)
      BY <1>2, <2>1, ReasonsAre
    <2> QED
      BY <2>3
  <1> QED
    BY <1>1, <1>2

(* A field that dominates another scores at least as much before travel.   *)
LEMMA DominantScores ==
  ASSUME SoundInput, NEW a \in places, NEW b \in places, Confident(b), Dominates(a, b)
  PROVE  Raw(b) <= Raw(a)
  <1> DEFINE low == [j \in DOMAIN wanted |-> Share(b, wanted[j])]
             high == [j \in DOMAIN wanted |-> Share(a, wanted[j])]
  <1>1. a \in Places /\ b \in Places
    BY DEF SoundInput
  <1>2. /\ low \in Seq(Nat) /\ high \in Seq(Nat) /\ Len(low) = Len(high)
        /\ Raw(b) = Total(low) /\ Raw(a) = Total(high)
    BY <1>1, RawTyped DEF Raw
  <1>3. ASSUME NEW j \in DOMAIN wanted PROVE Share(b, wanted[j]) <= Share(a, wanted[j])
    <2> DEFINE quest == wanted[j]
    <2>1. SoundQuest(quest)
      BY DEF SoundInput
    <2>2. CASE ~Confident(quest)
      BY <2>2 DEF Share
    <2>3. CASE Confident(quest)
      <3>1. ASSUME NEW k \in Advances(b, quest)
            PROVE  /\ k \in Unfinished(quest) /\ k \in Advances(a, quest)
                   /\ Fraction(b, quest, k) <= Fraction(a, quest, k)
        <4>1. <<j, k>> \in Reasons(b)
          BY <2>3, <3>1, ReasonsAre
        <4>2. /\ <<j, k>> \in Reasons(a)
              /\ ObjectiveRate(a, quest.objectives[k]) >= ObjectiveRate(b, quest.objectives[k])
          BY <4>1 DEF Dominates
        <4>3. k \in Advances(a, quest)
          BY <4>2, ReasonsAre
        <4>4. k \in Unfinished(quest)
          BY <4>3 DEF Advances
        <4>5. /\ ObjectiveRate(a, quest.objectives[k]) \in Nat
              /\ ObjectiveRate(b, quest.objectives[k]) \in Nat
          BY <1>1, RateTyped
        <4> QED
          BY <1>1, <2>1, <4>2, <4>3, <4>4, <4>5, FractionGrows
      <3>2. /\ Fractions(b, quest) \in Seq(Nat) /\ Fractions(a, quest) \in Seq(Nat)
            /\ DOMAIN Fractions(b, quest) = DOMAIN quest.objectives
            /\ DOMAIN Fractions(a, quest) = DOMAIN quest.objectives
            /\ Total(Fractions(b, quest)) \in Nat /\ Total(Fractions(a, quest)) \in Nat
        BY <1>1, <2>1, FractionsTyped
      <3>3. Len(Fractions(b, quest)) = Len(Fractions(a, quest))
        BY <3>2
      <3>4. ASSUME NEW k \in DOMAIN quest.objectives
            PROVE  Fractions(b, quest)[k] <= Fractions(a, quest)[k]
        <4>1. /\ Fractions(b, quest)[k] = IF k \in Advances(b, quest) THEN Fraction(b, quest, k) ELSE 0
              /\ Fractions(a, quest)[k] = IF k \in Advances(a, quest) THEN Fraction(a, quest, k) ELSE 0
              /\ Fractions(a, quest)[k] \in Nat
          BY <3>2 DEF Fractions
        <4> QED
          BY <3>1, <4>1
      <3>5. Total(Fractions(b, quest)) <= Total(Fractions(a, quest))
        BY <3>2, <3>3, <3>4, TotalGrows
      <3>6. ProgressionWeight(quest) \in {100, 155, 240}
        BY <2>1, WeightTyped
      <3>7. /\ Share(b, quest) = ProgressionWeight(quest) * Total(Fractions(b, quest))
            /\ Share(a, quest) = ProgressionWeight(quest) * Total(Fractions(a, quest))
        BY <2>3 DEF Share
      <3> QED
        BY ONLY <3>2, <3>5, <3>6, <3>7
    <2>4. Share(b, quest) \in Nat /\ Share(a, quest) \in Nat
      BY <1>1, <2>1, ShareTyped
    <2> QED
      BY <2>2, <2>3
  <1>4. \A j \in DOMAIN low : low[j] <= high[j]
    BY <1>3
  <1> HIDE DEF low, high
  <1> QED
    BY <1>2, <1>4, TotalGrows

(* The best candidate is dominated by no field at all.                     *)
LEMMA BestIsUndominated ==
  ASSUME SoundInput, NEW C, C = {place \in places : Confident(place) /\ Candidate(place)}, C # {},
         NEW q \in places
  PROVE  ~Dominates(q, Best(C))
  <1> SUFFICES ASSUME Dominates(q, Best(C)) PROVE FALSE
    OBVIOUS
  <1> DEFINE b == Best(C)
  <1>1. C \in SUBSET places
    OBVIOUS
  <1>2. b \in C /\ \A d \in C \ {b} : Precedes(b, d)
    BY <1>1, BestExists
  <1> HIDE DEF b
  <1>3. b \in places /\ Confident(b) /\ Candidate(b) /\ Dominates(q, b)
    BY <1>2 DEF b
  <1>4. q.travel < b.travel /\ Reasons(b) \subseteq Reasons(q)
    BY <1>3 DEF Dominates
  <1>5. q \in C
    BY <1>3, <1>4, ReasonMakesCandidate
  <1>6. q \in Places /\ b \in Places
    BY <1>3 DEF SoundInput
  <1>7. q.travel \in Nat /\ b.travel \in Nat
    BY <1>6, PlannerAssumption DEF PlannerAssumption
  <1>8. q # b
    BY <1>4, <1>7
  <1>9. Precedes(b, q)
    BY <1>2, <1>5, <1>8
  <1>10. Raw(q) * Far(b) <= Raw(b) * Far(q)
    BY <1>6, <1>9, PrecedesBy
  <1>11. Raw(b) <= Raw(q) /\ Raw(b) \in Nat \ {0} /\ Raw(q) \in Nat
    <2>1. Raw(b) <= Raw(q)
      BY <1>3, DominantScores
    <2>2. Raw(b) \in Nat /\ Raw(b) > 0 /\ Raw(q) \in Nat
      BY <1>3, <1>6, RawTyped
    <2> QED
      BY <2>1, <2>2
  <1>12. Far(q) \in Nat /\ Far(b) \in Nat /\ Far(q) < Far(b)
    BY <1>4, <1>7 DEF Far
  <1>13. Raw(b) * Far(b) <= Raw(q) * Far(b)
    BY ONLY <1>11, <1>12
  <1>14. Raw(b) * Far(q) < Raw(b) * Far(b)
    BY ONLY <1>11, <1>12
  <1>15. Raw(b) * Far(q) \in Nat /\ Raw(b) * Far(b) \in Nat /\ Raw(q) * Far(b) \in Nat
    BY ONLY <1>11, <1>12
  <1> QED
    BY ONLY <1>10, <1>13, <1>14, <1>15

(* What the plan of any sound input recommends.                            *)
LEMMA PlanIsSound == ASSUME SoundInput, plan = Plan PROVE PlanIsWarranted
  <1> DEFINE C == {place \in places : Confident(place) /\ Candidate(place)}
  <1>1. plan.recommended = Recommended(C)
    BY DEF Plan
  <1>2. \A p \in places : Reasons(p) # {} <=> p \in C
    BY ReasonMakesCandidate
  <1>3. C \in SUBSET places
    OBVIOUS
  <1>4. \A p \in places : p.field # Nothing
    BY PlannerAssumption DEF PlannerAssumption, SoundInput
  <1>5. \A q \in places : C # {} => ~Dominates(q, Best(C))
    BY BestIsUndominated
  <1> HIDE DEF C
  <1>6. CASE C = {}
    <2>1. plan.recommended = Nothing
      BY <1>1, <1>6 DEF Recommended
    <2> QED
      BY <1>2, <1>6, <2>1 DEF PlanIsWarranted
  <1>7. CASE C # {}
    <2>1. Best(C) \in C
      BY <1>3, <1>7, BestExists
    <2>2. ~(\A p \in places : Reasons(p) = {})
      BY <1>2, <1>3, <2>1
    <2>3. CASE StaysAWhile /\ \E c \in C : c.field = here /\ AtLeast(c, Best(C), 88)
      <3>1. PICK c \in C : c.field = here
        BY <2>3
      <3>2. plan.recommended = here /\ ~(here # c.field \/ dwell >= 180)
        BY <1>1, <1>7, <2>3, <3>1 DEF Recommended, StaysAWhile, SoundInput
      <3>3. c \in places /\ Reasons(c) # {} /\ c.field = plan.recommended /\ c.field # Nothing
        BY <1>2, <1>3, <1>4, <3>1, <3>2
      <3> QED
        BY <2>2, <3>2, <3>3 DEF PlanIsWarranted
    <2>4. CASE ~(StaysAWhile /\ \E c \in C : c.field = here /\ AtLeast(c, Best(C), 88))
      <3>1. plan.recommended = Best(C).field
        BY <1>1, <1>7, <2>4 DEF Recommended
      <3>2. Best(C) \in places /\ Reasons(Best(C)) # {} /\ Best(C).field # Nothing
        BY <1>2, <1>3, <1>4, <2>1
      <3>3. \A q \in places : ~Dominates(q, Best(C))
        BY <1>5, <1>7
      <3> QED
        BY <2>2, <3>1, <3>2, <3>3 DEF PlanIsWarranted
    <2> QED
      BY <2>3, <2>4
  <1> QED
    BY <1>6, <1>7

-----------------------------------------------------------------------------
(* A line says at most one thing, and of the amount that it names.         *)
AtMostOne(parsed, amount) ==
  /\ parsed = {} \/ \E o : parsed = {o}
  /\ \A o \in parsed : o.amount = amount

LEMMA CollectsOne ==
  ASSUME NEW words, NEW amount
  PROVE  AtMostOne(ParseCollect(amount, words), amount)
  <1> DEFINE named == {f \in FieldIds : SelectSeq(SubSeq(words, 4, Len(words)),
                          LAMBDA w : w \notin {"field", "patch", "forest"}) = <<f>>}
             plain == words \in {<<"pollen">>, <<"goo">>}
             inField == /\ Len(words) > 3 /\ words[1] \in {"pollen", "goo"}
                        /\ words[2] = "from" /\ words[3] = "the"
             coloured == Len(words) = 2 /\ words[2] = "pollen"
  <1>1. ~(plain /\ inField) /\ ~(plain /\ coloured) /\ ~(inField /\ coloured)
    <2>1. plain => Len(words) = 1
      OBVIOUS
    <2>2. inField => Len(words) > 3 /\ Len(words) # 2 /\ Len(words) # 1
      OBVIOUS
    <2>3. coloured => Len(words) = 2
      OBVIOUS
    <2> QED
      BY <2>1, <2>2, <2>3
  <1>2. named = {} \/ \E f : named = {f}
    <2>1. \A f, g \in named : <<f>> = <<g>>
      OBVIOUS
    <2>2. \A f, g : <<f>> = <<g>> => f = g
      OBVIOUS
    <2> HIDE DEF named
    <2> QED
      BY <2>1, <2>2
  <1> DEFINE made == {Objective(words[1], amount, field, Anywhere, Nothing) : field \in named}
             hued == {Objective("pollen", amount, Anywhere, colour, Nothing) :
                        colour \in {words[1]} \cap Colors}
             whole == {Objective(words[1], amount, Anywhere, Anywhere, Nothing)}
  <1>3. ParseCollect(amount, words) =
          CASE plain -> whole [] inField -> made [] coloured -> hued [] OTHER -> {}
    BY DEF ParseCollect
  <1> HIDE DEF named, plain, inField, coloured
  <1>4. AtMostOne(whole, amount) /\ AtMostOne(made, amount) /\ AtMostOne(hued, amount)
    <2>1. AtMostOne(whole, amount)
      BY DEF AtMostOne, Objective
    <2>2. AtMostOne(made, amount)
      <3>1. CASE named = {}
        BY <3>1 DEF AtMostOne
      <3>2. ASSUME NEW f, named = {f} PROVE AtMostOne(made, amount)
        <4>1. made = {Objective(words[1], amount, f, Anywhere, Nothing)}
          BY <3>2
        <4>2. Objective(words[1], amount, f, Anywhere, Nothing).amount = amount
          BY DEF Objective
        <4> HIDE DEF made
        <4> QED
          BY <4>1, <4>2 DEF AtMostOne
      <3> QED
        BY <1>2, <3>1, <3>2
    <2>3. AtMostOne(hued, amount)
      <3>1. CASE words[1] \in Colors
        <4>1. hued = {Objective("pollen", amount, Anywhere, words[1], Nothing)}
          BY <3>1
        <4>2. Objective("pollen", amount, Anywhere, words[1], Nothing).amount = amount
          BY DEF Objective
        <4> HIDE DEF hued
        <4> QED
          BY <4>1, <4>2 DEF AtMostOne
      <3>2. CASE words[1] \notin Colors
        <4>1. hued = {}
          BY <3>2
        <4> QED
          BY <4>1 DEF AtMostOne
      <3> QED
        BY <3>1, <3>2
    <2> QED
      BY <2>1, <2>2, <2>3
  <1> HIDE DEF whole, made, hued
  <1>5. AtMostOne({}, amount)
    BY DEF AtMostOne
  <1>6. CASE plain
    <2>1. ParseCollect(amount, words) = whole
      BY <1>1, <1>3, <1>6
    <2> QED
      BY <1>4, <2>1
  <1>7. CASE inField
    <2>1. ParseCollect(amount, words) = made
      BY <1>1, <1>3, <1>7
    <2> QED
      BY <1>4, <2>1
  <1>8. CASE coloured
    <2>1. ParseCollect(amount, words) = hued
      BY <1>1, <1>3, <1>8
    <2> QED
      BY <1>4, <2>1
  <1>9. CASE ~plain /\ ~inField /\ ~coloured
    <2>1. ParseCollect(amount, words) = {}
      BY <1>3, <1>9
    <2> QED
      BY <1>5, <2>1
  <1> QED
    BY <1>6, <1>7, <1>8, <1>9

LEMMA DefeatsOne ==
  ASSUME NEW words, NEW amount
  PROVE  AtMostOne(ParseDefeat(amount, words), amount)
  <1>1. CASE words \in DOMAIN Mobs
    <2>1. ParseDefeat(amount, words) = {Objective("defeat", amount, Anywhere, Anywhere, Mobs[words])}
      BY <1>1 DEF ParseDefeat
    <2> QED
      BY <2>1 DEF AtMostOne, Objective
  <1>2. CASE words \notin DOMAIN Mobs
    <2>1. ParseDefeat(amount, words) = {}
      BY <1>2 DEF ParseDefeat
    <2> QED
      BY <2>1 DEF AtMostOne
  <1> QED
    BY <1>1, <1>2

LEMMA ParsesOne ==
  ASSUME NEW line
  PROVE  /\ AtMostOne(ParseObjective(line), line[2])
         /\ ParseObjective(line) # {} => Len(line) \in 3..12 /\ line[2] # 0
  <1> DEFINE rest == SubSeq(line, 3, Len(line))
  <1>1. ParseObjective(line) =
          IF Len(line) \notin 3..12 \/ line[2] = 0 THEN {}
          ELSE CASE line[1] = "collect" -> ParseCollect(line[2], rest)
                 [] line[1] = "defeat"  -> ParseDefeat(line[2], rest)
                 [] OTHER               -> {}
    BY DEF ParseObjective
  <1> HIDE DEF rest
  <1>2. AtMostOne({}, line[2])
    BY DEF AtMostOne
  <1>3. \/ ParseObjective(line) = {}
        \/ /\ Len(line) \in 3..12 /\ line[2] # 0
           /\ ParseObjective(line) \in {ParseCollect(line[2], rest), ParseDefeat(line[2], rest)}
    BY <1>1
  <1> QED
    BY <1>2, <1>3, CollectsOne, DefeatsOne

(* The quest that a line makes is one that the planner may be given.       *)
LEMMA DynamicIsSound ==
  ASSUME NEW line \in Lines
  PROVE  SoundQuest(Dynamic(line))
  <1> DEFINE parsed == ParseObjective(line)
             quest == Dynamic(line)
  <1>1. ASSUME NEW o \in parsed PROVE o.amount \in 1..Unit
    <2>1. Len(line) \in 3..12 /\ line[2] # 0 /\ o.amount = line[2]
      BY <1>1, ParsesOne DEF AtMostOne
    <2> QED
      BY <2>1, PlannerAssumption DEF PlannerAssumption
  <1>2. parsed = {} \/ \E o : parsed = {o}
    BY ParsesOne DEF AtMostOne
  <1>3. Cardinality(parsed) \in {0, 1} /\ (Cardinality(parsed) = 1 => parsed # {})
    BY <1>2, FS_EmptySet, FS_Singleton
  <1> HIDE DEF parsed
  <1>4. /\ quest.objectives = [k \in 1..Cardinality(parsed) |-> CHOOSE o \in parsed : TRUE]
        /\ quest.progress = [k \in 1..Cardinality(parsed) |-> 0]
        /\ quest.confidence = 75 /\ quest.giver = "brown"
    BY DEF Dynamic, parsed
  <1> HIDE DEF quest
  <1>5. DOMAIN quest.objectives = 1..Cardinality(parsed)
    BY <1>4
  <1>6. \A k \in 1..Cardinality(parsed) :
          quest.objectives[k] \in parsed /\ quest.progress[k] = 0
    <2>1. \A k \in 1..Cardinality(parsed) : parsed # {}
      BY <1>3
    <2> QED
      BY <1>4, <2>1
  <1>7. quest.objectives \in Seq(Range(quest.objectives))
    <2>1. quest.objectives = [k \in 1..Cardinality(parsed) |-> quest.objectives[k]]
      BY <1>4
    <2>2. \A k \in 1..Cardinality(parsed) : quest.objectives[k] \in Range(quest.objectives)
      BY <1>5 DEF Range
    <2>3. Cardinality(parsed) \in Nat
      BY <1>3
    <2> QED
      BY <2>1, <2>2, <2>3
  <1> QED
    BY <1>1, <1>4, <1>5, <1>6, <1>7 DEF SoundQuest, quest

(* Whatever is active and calibrated, the planner gets a sound input.      *)
LEMMA PlannerInitially == PlannerInit => PlannerInv
  <1> SUFFICES ASSUME PlannerInit PROVE PlannerInv
    OBVIOUS
  <1>1. PICK quest \in Quests, line \in Lines : wanted \in {<<quest>>, <<quest, Dynamic(line)>>}
    BY DEF PlannerInit
  <1>2. SoundQuest(quest)
    BY CatalogAssumption DEF CatalogAssumption, SoundQuest
  <1>3. SoundQuest(Dynamic(line))
    BY DynamicIsSound
  <1>4. /\ wanted \in Seq(Range(wanted))
        /\ \A j \in DOMAIN wanted : wanted[j] = quest \/ wanted[j] = Dynamic(line)
    <2> DEFINE other == Dynamic(line)
    <2> HIDE DEF other
    <2>1. CASE wanted = <<quest>>
      <3>1. quest \in Range(<<quest>>)
        <4>1. 1 \in DOMAIN <<quest>> /\ <<quest>>[1] = quest
          OBVIOUS
        <4> QED
          BY <4>1 DEF Range
      <3> QED
        BY <2>1, <3>1
    <2>2. CASE wanted = <<quest, other>>
      <3>1. quest \in Range(<<quest, other>>) /\ other \in Range(<<quest, other>>)
        <4>1. /\ 1 \in DOMAIN <<quest, other>> /\ <<quest, other>>[1] = quest
              /\ 2 \in DOMAIN <<quest, other>> /\ <<quest, other>>[2] = other
          OBVIOUS
        <4> QED
          BY <4>1 DEF Range
      <3> QED
        BY <2>2, <3>1 DEF other
    <2> QED
      BY <1>1, <2>1, <2>2 DEF other
  <1>5. /\ places \subseteq Places /\ (\A p, q \in places : p.field = q.field => p = q)
        /\ dwell \in Nat /\ plan = Nothing
    BY PlannerAssumption DEF PlannerInit, PlannerAssumption
  <1> QED
    BY <1>2, <1>3, <1>4, <1>5 DEF PlannerInv, SoundInput

(* The plan is made of the input that was given.                           *)
LEMMA PlannerStep == PlannerInv /\ [PlannerNext]_plannerVars => PlannerInv'
  <1> SUFFICES ASSUME PlannerInv, [PlannerNext]_plannerVars PROVE PlannerInv'
    OBVIOUS
  <1>1. UNCHANGED <<wanted, places, here, dwell, budget>>
    BY DEF PlannerNext, MakePlan, plannerVars
  <1>2. SoundInput'
    BY <1>1 DEF PlannerInv, SoundInput
  <1>3. Plan' = Plan
    BY <1>1 DEF Plan, Recommended, Best, Candidate, Precedes, AtLeast, Raw, Far, Rank,
                StaysAWhile, Held, Share
  <1>4. plan' # Nothing => plan' = Plan
    BY DEF PlannerInv, PlannerNext, MakePlan, plannerVars
  <1> QED
    BY <1>2, <1>3, <1>4 DEF PlannerInv

(* For any quests, lines, fields, rates and budgets: a field is            *)
(* recommended if and only if there is a reason to be in one, and then one *)
(* with a reason, which no other dominates unless it is kept for having    *)
(* been entered within three minutes.                                      *)
THEOREM PlansAreWarranted == PlannerSpec => []PlanIsWarranted
  <1>1. PlannerSpec => []PlannerInv
    BY PlannerInitially, PlannerStep, PTL DEF PlannerSpec
  <1>2. PlannerInv => PlanIsWarranted
    <2>1. ASSUME PlannerInv, plan = Nothing PROVE PlanIsWarranted
      BY <2>1 DEF PlanIsWarranted
    <2>2. ASSUME PlannerInv, plan # Nothing PROVE PlanIsWarranted
      BY <2>2, PlanIsSound DEF PlannerInv
    <2> QED
      BY <2>1, <2>2
  <1> QED
    BY <1>1, <1>2, PTL
=============================================================================
