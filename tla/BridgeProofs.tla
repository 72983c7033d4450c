----------------------------- MODULE BridgeProofs -----------------------------
(***************************************************************************)
(* What the desktop may tell its user and keep of the daemon, for any      *)
(* profiles, any number of calls and of daemon processes, and any number   *)
(* of lost events, broken connections, crashed and hung daemons.           *)
(***************************************************************************)
EXTENDS DesktopBridge, TLAPS

SomeProfile == Profiles \cup {NoProfile}
Documents == [Profiles -> SUBSET Calls]
Runs == {"Idle", "Running"}
QuestionKinds == {"profiles", "history", "snapshot", "stop", "shutdown"}
EventKinds ==
  {"accepted", "rejected", "saved", "selected", "snapshot", "deleted", "state", "history", "ready"}
CommandType ==
  [kind : {"save", "select", "delete", "start"}, p : Profiles, c : Calls, doc : SUBSET Calls]
  \cup [kind : QuestionKinds, p : SomeProfile, c : {Untracked}, doc : {{}}]
EventType ==
  [kind : EventKinds, p : SomeProfile, c : Calls \cup {Untracked}, state : Runs \cup {"none"}]
ListType ==
  [kind : {"profiles"}, p : Profiles, c : {Untracked}, state : {"none"},
   exists : SUBSET Profiles, edits : Documents]
Events == EventType \cup ListType
CacheType ==
  [connected : BOOLEAN, run : Runs \cup {"none"}, selected : SomeProfile,
   exists : SUBSET Profiles, edits : Documents, history : SomeProfile]
Unanswered == {"unused", "inserted", "waiting", "failed"}
Answered == {"ok", "rejected", "shown", "stale"}
CallType == [at : Unanswered \cup Answered, cmd : CommandType]

DaemonTyped ==
  /\ exists \subseteq Profiles /\ edits \in Documents /\ active \in Profiles /\ run \in Runs
  /\ applied \subseteq Calls /\ sampled \in {<<>>} \cup (Profiles \X Runs)
WireTyped == inbox \in Seq(CommandType) /\ outbox \in Seq(Events)
ShellTyped ==
  /\ pending \subseteq Calls /\ cache \in CacheType
  /\ call \in [Calls -> CallType]
  /\ follow \in Seq(CommandType) /\ \A j \in DOMAIN follow : follow[j].c = Untracked
ProcessTyped ==
  /\ kids \in [Kids -> {"unused", "running", "exited"}]
  /\ ownedDaemon \in Kids \cup {NoKid} /\ stopping \in Kids \cup {NoKid}
BridgeTyped == DaemonTyped /\ WireTyped /\ ShellTyped /\ ProcessTyped

(* A call is on its way to the daemon once, and has its answer on the way  *)
(* back only after that; the answer says what the daemon did.              *)
Fresh(c) == call[c].at \in {"unused", "inserted"}
Tracked ==
  /\ \A c \in Calls : call[c].at = "inserted" => call[c].cmd.c = c
  /\ \A c \in applied : ~Fresh(c)
  /\ \A i \in DOMAIN inbox : inbox[i].c # Untracked =>
       /\ inbox[i].c \notin applied
       /\ ~Fresh(inbox[i].c) /\ call[inbox[i].c].at \notin Answered
       /\ \A j \in DOMAIN inbox : inbox[j].c = inbox[i].c => j = i
       /\ \A k \in DOMAIN outbox : outbox[k].c # inbox[i].c
Answering ==
  \A k \in DOMAIN outbox : outbox[k].c # Untracked =>
    /\ ~Fresh(outbox[k].c)
    /\ \/ outbox[k].kind = "accepted" /\ outbox[k].c \in applied
       \/ outbox[k].kind = "rejected" /\ outbox[k].c \notin applied
Told ==
  \A c \in Calls :
    /\ call[c].at \in {"ok", "shown", "stale"} => c \in applied
    /\ call[c].at = "rejected" => c \notin applied

(* A call that waits can be failed: it is in the map, and the supervisor   *)
(* has still to go through it; who has something to send has not gone on.  *)
Waiting ==
  /\ sender => Connection \/ supervisor = "teardown"
  /\ supervisor \in {"asking", "refreshing"} \/ follow = <<>>
  /\ shutdown \in {"take", "stop", "exit", "left", "gone"} => pending = {}
  /\ \A c \in Calls : call[c].at = "waiting" =>
       c \in pending /\ (Connection \/ supervisor \in {"teardown", "failing"})

(* A daemon that runs is one of the two the desktop holds a handle of.     *)
Handles ==
  /\ \A k \in Kids : kids[k] = "running" => k \in {ownedDaemon, stopping}
  /\ shutdown # "stop" => stopping = NoKid

(* The profiles are current, or something is on its way that makes them    *)
(* so: a list that is, a change that asks for one, or the question, sent   *)
(* or about to be.                                                         *)
Lists(q) == {k \in DOMAIN q : q[k].kind = "profiles"}
Current(l) == l.exists = exists /\ l.edits = edits
Synchronizing ==
  \/ \E i \in DOMAIN follow : follow[i].kind = "profiles"
  \/ \E i \in DOMAIN inbox : inbox[i].kind = "profiles"
  \/ \E k \in DOMAIN outbox : outbox[k].kind \in {"saved", "deleted"}
  \/ \E k \in Lists(outbox) : Current(outbox[k]) /\ \A j \in Lists(outbox) : j <= k
  \/ Lists(outbox) = {} /\ Current(cache)
Synchronized ==
  /\ Connection /\ open /\ sender /\ fresh => Synchronizing
  /\ cache.history \in {NoProfile, cache.selected}

BridgeInv ==
  /\ BridgeTyped /\ Tracked /\ Answering /\ Told /\ Waiting /\ Handles /\ Synchronized
-----------------------------------------------------------------------------
(* Queues.                                                                 *)

(* What is put behind a queue leaves what was there in its place.          *)
LEMMA Chained ==
  ASSUME NEW S, NEW q \in Seq(S), NEW r \in Seq(S)
  PROVE  /\ q \o r \in Seq(S)
         /\ \A k \in DOMAIN q : k \in DOMAIN (q \o r) /\ (q \o r)[k] = q[k]
         /\ \A j \in DOMAIN r : Len(q) + j \in DOMAIN (q \o r) /\ (q \o r)[Len(q) + j] = r[j]
         /\ \A k \in DOMAIN (q \o r) : k \in DOMAIN q \/ \E j \in DOMAIN r : k = Len(q) + j
  <1>1. q \o r \in Seq(S) /\ Len(q \o r) = Len(q) + Len(r)
    OBVIOUS
  <1>2. ASSUME NEW k \in DOMAIN q PROVE k \in DOMAIN (q \o r) /\ (q \o r)[k] = q[k]
    OBVIOUS
  <1>3. ASSUME NEW j \in DOMAIN r
        PROVE  Len(q) + j \in DOMAIN (q \o r) /\ (q \o r)[Len(q) + j] = r[j]
    OBVIOUS
  <1>4. ASSUME NEW k \in DOMAIN (q \o r), k \notin DOMAIN q
        PROVE  \E j \in DOMAIN r : k = Len(q) + j
    <2>1. k - Len(q) \in DOMAIN r /\ k = Len(q) + (k - Len(q))
      BY <1>1, <1>4
    <2> QED
      BY <2>1
  <1> QED
    BY <1>1, <1>2, <1>3, <1>4

(* So everything in the longer queue is from one of the two.               *)
LEMMA FromEither ==
  ASSUME NEW S, NEW q \in Seq(S), NEW r \in Seq(S)
  PROVE  \A k \in DOMAIN (q \o r) :
           \/ k \in DOMAIN q /\ (q \o r)[k] = q[k]
           \/ \E j \in DOMAIN r : (q \o r)[k] = r[j]
  BY Chained

(* What is taken from a queue moves the rest up by one.                    *)
LEMMA Popped ==
  ASSUME NEW S, NEW q \in Seq(S), q # <<>>
  PROVE  /\ Tail(q) \in Seq(S) /\ Head(q) \in S /\ 1 \in DOMAIN q /\ Head(q) = q[1]
         /\ \A k \in DOMAIN Tail(q) :
              k \in Nat \ {0} /\ k + 1 \in DOMAIN q /\ Tail(q)[k] = q[k + 1]
         /\ \A k \in DOMAIN q :
              /\ k \in Nat \ {0}
              /\ k # 1 => k - 1 \in DOMAIN Tail(q) /\ Tail(q)[k - 1] = q[k]
  OBVIOUS

(* The commands and events that the two ends make.                         *)
LEMMA UntrackedIsNoCall == Untracked \notin Calls
  BY BridgeAssumption DEF BridgeAssumption, Untracked, Calls

(* An event about no call.                                                 *)
LEMMA EventTyped ==
  ASSUME NEW kind \in EventKinds, NEW p \in SomeProfile, NEW state \in Runs \cup {"none"}
  PROVE  /\ <<Event(kind, p, Untracked, state)>> \in Seq(Events)
         /\ Event(kind, p, Untracked, state) \in Events
         /\ Event(kind, p, Untracked, state).kind = kind
         /\ Event(kind, p, Untracked, state).c = Untracked
  BY DEF Event, EventType, Events

(* The answer to a call.                                                   *)
LEMMA AnswerTyped ==
  ASSUME NEW c \in Calls \cup {Untracked}
  PROVE  /\ Accepted(c) \in Seq(Events) /\ Rejected(c) \in Seq(Events)
         /\ \A k \in DOMAIN Accepted(c) :
              Accepted(c)[k].c = c /\ c # Untracked /\ Accepted(c)[k].kind = "accepted"
         /\ \A k \in DOMAIN Rejected(c) :
              Rejected(c)[k].c = c /\ c # Untracked /\ Rejected(c)[k].kind = "rejected"
  <1>1. CASE c = Untracked
    <2>1. Accepted(c) = <<>> /\ Rejected(c) = <<>>
      BY <1>1 DEF Accepted, Rejected
    <2> QED
      BY <2>1
  <1>2. CASE c # Untracked
    <2>1. ASSUME NEW kind \in {"accepted", "rejected"}
          PROVE  /\ Event(kind, NoProfile, c, "none") \in Events
                 /\ Event(kind, NoProfile, c, "none").c = c
                 /\ Event(kind, NoProfile, c, "none").kind = kind
      BY DEF Event, EventType, EventKinds, Events, SomeProfile
    <2>2. /\ Accepted(c) = <<Event("accepted", NoProfile, c, "none")>>
          /\ Rejected(c) = <<Event("rejected", NoProfile, c, "none")>>
      BY <1>2 DEF Accepted, Rejected
    <2> QED
      BY <1>2, <2>1, <2>2
  <1> QED
    BY <1>1, <1>2

(* A question of the supervisor's.                                         *)
LEMMA AskTyped ==
  ASSUME NEW kind \in QuestionKinds, NEW p \in SomeProfile
  PROVE  /\ Ask(kind, p) \in CommandType /\ <<Ask(kind, p)>> \in Seq(CommandType)
         /\ Ask(kind, p).kind = kind /\ Ask(kind, p).c = Untracked
  BY DEF Ask, Command, CommandType

-----------------------------------------------------------------------------
(* The daemon handles a command: the events it emits, of which only the    *)
(* answer is about a call, and what they say of the store.                 *)
Handled(cmd, events) ==
  /\ events \in Seq(Events) /\ outbox' = outbox \o events
  /\ applied' \in {applied, applied \cup ({cmd.c} \ {Untracked})}
  /\ \A k \in DOMAIN events : events[k].c # Untracked =>
       /\ events[k].c = cmd.c
       /\ \/ events[k].kind = "accepted" /\ cmd.c \in applied'
          \/ events[k].kind = "rejected" /\ applied' = applied
Informed(cmd, events) ==
  \/ \E k \in DOMAIN events : events[k].kind \in {"saved", "deleted"}
  \/ /\ UNCHANGED <<exists, edits>>
     /\ \/ cmd.kind # "profiles" /\ \A k \in DOMAIN events : events[k].kind # "profiles"
        \/ events = <<ProfileList>>

(* A command that is accepted: the events come first, then the answer.     *)
LEMMA AcceptHandles ==
  ASSUME NEW cmd \in CommandType, NEW events \in Seq(Events), open, Accept(cmd, events),
         \A k \in DOMAIN events : events[k].c = Untracked /\ events[k].kind # "profiles",
         \/ UNCHANGED <<exists, edits>> /\ cmd.kind # "profiles"
         \/ \E k \in DOMAIN events : events[k].kind \in {"saved", "deleted"}
  PROVE  \E all \in Seq(Events) : Handled(cmd, all) /\ Informed(cmd, all)
  <1> DEFINE answer == Accepted(cmd.c)
             all == events \o answer
  <1>1. cmd.c \in Calls \cup {Untracked}
    BY DEF CommandType
  <1>2. /\ answer \in Seq(Events)
        /\ \A k \in DOMAIN answer :
             answer[k].c = cmd.c /\ cmd.c # Untracked /\ answer[k].kind = "accepted"
    BY <1>1, AnswerTyped
  <1>3. applied' = applied \cup ({cmd.c} \ {Untracked}) /\ outbox' = outbox \o all
    BY DEF Accept, Emit
  <1> HIDE DEF answer
  <1>4. /\ all \in Seq(Events)
        /\ \A k \in DOMAIN events : k \in DOMAIN all /\ all[k] = events[k]
        /\ \A k \in DOMAIN all : \/ k \in DOMAIN events /\ all[k] = events[k]
                                 \/ \E j \in DOMAIN answer : all[k] = answer[j]
    BY <1>2, Chained, FromEither
  <1> HIDE DEF all
  <1>5. Handled(cmd, all)
    BY SMTT(20), <1>2, <1>3, <1>4 DEF Handled
  <1>6. Informed(cmd, all)
    BY <1>2, <1>4 DEF Informed
  <1> QED
    BY <1>4, <1>5, <1>6

(* A command that is rejected.                                             *)
LEMMA RejectHandles ==
  ASSUME NEW cmd \in CommandType, open, Reject(cmd), cmd.kind # "profiles"
  PROVE  \E all \in Seq(Events) : Handled(cmd, all) /\ Informed(cmd, all)
  <1> DEFINE all == Rejected(cmd.c)
  <1>1. cmd.c \in Calls \cup {Untracked}
    BY DEF CommandType
  <1>2. /\ all \in Seq(Events)
        /\ \A k \in DOMAIN all :
             all[k].c = cmd.c /\ cmd.c # Untracked /\ all[k].kind = "rejected"
    BY <1>1, AnswerTyped
  <1>3. applied' = applied /\ outbox' = outbox \o all /\ UNCHANGED <<exists, edits>>
    BY DEF Reject, Emit, data
  <1> HIDE DEF all
  <1>4. Handled(cmd, all) /\ Informed(cmd, all)
    BY <1>2, <1>3 DEF Handled, Informed
  <1> QED
    BY <1>2, <1>4

(* The events that a stop broadcasts.                                      *)
LEMMA StopEventsTyped ==
  /\ StopEvents \in Seq(Events)
  /\ \A k \in DOMAIN StopEvents : StopEvents[k].kind = "state" /\ StopEvents[k].c = Untracked
  <1>1. <<Event("state", NoProfile, Untracked, "Idle")>> \in Seq(Events)
    BY EventTyped DEF EventKinds, Runs, SomeProfile
  <1> QED
    BY <1>1 DEF StopEvents, Event

(* Each command is handled so, and leaves the store typed.                 *)
LEMMA CommandHandled ==
  ASSUME DaemonTyped, WireTyped, open, NEW cmd \in CommandType,
         \/ SaveProfile(cmd) \/ SelectProfile(cmd) \/ DeleteProfile(cmd) \/ StartRun(cmd)
         \/ GetProfiles(cmd) \/ GetRunHistory(cmd) \/ GetSnapshot(cmd)
         \/ EmergencyStop(cmd) \/ ShutdownDaemon(cmd)
  PROVE  DaemonTyped' /\ \E events \in Seq(Events) : Handled(cmd, events) /\ Informed(cmd, events)
  <1> DEFINE IsHandled == \E all \in Seq(Events) : Handled(cmd, all) /\ Informed(cmd, all)
  <1>0. active \in SomeProfile /\ NoProfile \in SomeProfile /\ cmd.p \in SomeProfile
    BY DEF CommandType, DaemonTyped, SomeProfile
  <1>1. CASE SaveProfile(cmd)
    <2> DEFINE events == <<Event("saved", cmd.p, Untracked, "none")>>
    <2>1. events \in Seq(Events) /\ \A k \in DOMAIN events :
            events[k].c = Untracked /\ events[k].kind = "saved"
      BY <1>0, EventTyped DEF EventKinds
    <2>2. 1 \in DOMAIN events /\ Accept(cmd, events)
      BY <1>1 DEF SaveProfile
    <2> HIDE DEF events
    <2>3. IsHandled
      BY <2>1, <2>2, AcceptHandles
    <2>4. DaemonTyped'
      BY <1>1 DEF DaemonTyped, SaveProfile, Accept, CommandType, QuestionKinds, Documents
    <2> QED
      BY <2>3, <2>4
  <1>2. ASSUME Reject(cmd), cmd.kind # "profiles" PROVE DaemonTyped' /\ IsHandled
    <2>1. IsHandled
      BY <1>2, RejectHandles
    <2>2. DaemonTyped'
      BY <1>2 DEF DaemonTyped, Reject, data
    <2> QED
      BY <2>1, <2>2
  <1>3. CASE SelectProfile(cmd)
    <2>1. CASE run = "Idle" /\ cmd.p \in exists
      <3> DEFINE events == <<Event("selected", cmd.p, Untracked, "none"),
                             Event("snapshot", cmd.p, Untracked, run)>>
      <3>1. events \in Seq(Events) /\ \A k \in DOMAIN events :
              events[k].c = Untracked /\ events[k].kind # "profiles"
        BY <1>0, EventTyped DEF EventKinds, DaemonTyped
      <3>2. Accept(cmd, events) /\ UNCHANGED <<exists, edits, run, sampled>> /\ cmd.kind = "select"
            /\ active' = cmd.p
        BY <1>3, <2>1 DEF SelectProfile
      <3> HIDE DEF events
      <3>3. IsHandled
        BY <3>1, <3>2, AcceptHandles
      <3>4. DaemonTyped'
        BY <2>1, <3>2 DEF DaemonTyped, Accept, CommandType, QuestionKinds
      <3> QED
        BY <3>3, <3>4
    <2> QED
      BY <1>2, <1>3, <2>1 DEF SelectProfile
  <1>4. CASE DeleteProfile(cmd)
    <2>1. CASE run = "Idle" /\ cmd.p \in exists /\ cmd.p # active /\ Cardinality(exists) > 1
      <3> DEFINE events == <<Event("deleted", cmd.p, Untracked, "none")>>
      <3>1. events \in Seq(Events) /\ \A k \in DOMAIN events :
              events[k].c = Untracked /\ events[k].kind = "deleted"
        BY <1>0, EventTyped DEF EventKinds
      <3>2. /\ Accept(cmd, events) /\ UNCHANGED <<edits, active, run, sampled>> /\ 1 \in DOMAIN events
            /\ exists' = exists \ {cmd.p}
        BY <1>4, <2>1 DEF DeleteProfile
      <3> HIDE DEF events
      <3>3. IsHandled
        BY <3>1, <3>2, AcceptHandles
      <3>4. DaemonTyped'
        BY <3>2 DEF DaemonTyped, Accept, CommandType, QuestionKinds
      <3> QED
        BY <3>3, <3>4
    <2> QED
      BY <1>2, <1>4, <2>1 DEF DeleteProfile
  <1>5. CASE StartRun(cmd)
    <2>1. CASE run = "Idle" /\ cmd.p \in exists
      <3> DEFINE events == <<Event("state", NoProfile, Untracked, "Running")>>
      <3>1. events \in Seq(Events) /\ \A k \in DOMAIN events :
              events[k].c = Untracked /\ events[k].kind # "profiles"
        BY <1>0, EventTyped DEF EventKinds, Runs
      <3>2. /\ Accept(cmd, events) /\ UNCHANGED <<exists, edits, sampled>> /\ cmd.kind = "start"
            /\ active' = cmd.p /\ run' = "Running"
        BY <1>5, <2>1 DEF StartRun
      <3> HIDE DEF events
      <3>3. IsHandled
        BY <3>1, <3>2, AcceptHandles
      <3>4. DaemonTyped'
        BY <2>1, <3>2 DEF DaemonTyped, Accept, CommandType, QuestionKinds, Runs
      <3> QED
        BY <3>3, <3>4
    <2> QED
      BY <1>2, <1>5, <2>1 DEF StartRun
  (* The rest emits events of no call, and leaves the store alone.         *)
  <1>6. ASSUME NEW events \in Seq(Events), outbox' = outbox \o events, UNCHANGED data,
               \A k \in DOMAIN events : events[k].c = Untracked,
               events = <<ProfileList>>
                 \/ (cmd.kind # "profiles" /\ \A k \in DOMAIN events : events[k].kind # "profiles")
        PROVE  IsHandled
    BY <1>6 DEF Handled, Informed, data
  <1>7. CASE GetProfiles(cmd)
    <2>1. ProfileList \in ListType
      BY DEF ProfileList, ListType, DaemonTyped
    <2>2. <<ProfileList>> \in Seq(Events) /\ \A k \in DOMAIN <<ProfileList>> :
            <<ProfileList>>[k].c = Untracked
      BY <2>1 DEF Events, ProfileList
    <2>3. outbox' = outbox \o <<ProfileList>> /\ UNCHANGED <<data, run, sampled>>
      BY <1>7 DEF GetProfiles, Emit, daemon
    <2>4. IsHandled
      BY <1>6, <2>2, <2>3
    <2>5. DaemonTyped'
      BY <2>3 DEF DaemonTyped, data
    <2> QED
      BY <2>4, <2>5
  <1>8. CASE GetRunHistory(cmd)
    <2> DEFINE e == Event("history", IF cmd.p = NoProfile THEN active ELSE cmd.p, Untracked, "none")
    <2>1. <<e>> \in Seq(Events) /\ \A k \in DOMAIN <<e>> :
            <<e>>[k].c = Untracked /\ <<e>>[k].kind # "profiles"
      BY <1>0, EventTyped DEF EventKinds
    <2>2. outbox' = outbox \o <<e>> /\ UNCHANGED <<data, run, sampled>> /\ cmd.kind = "history"
      BY <1>8 DEF GetRunHistory, Emit, daemon
    <2> HIDE DEF e
    <2>3. IsHandled
      BY <1>6, <2>1, <2>2
    <2>4. DaemonTyped'
      BY <2>2 DEF DaemonTyped, data
    <2> QED
      BY <2>3, <2>4
  <1>9. CASE GetSnapshot(cmd)
    <2>1. outbox' = outbox /\ UNCHANGED <<data, run>> /\ cmd.kind = "snapshot"
          /\ sampled' = <<active, run>>
      BY <1>9 DEF GetSnapshot
    <2> DEFINE none == <<>>
    <2>2. none \in Seq(Events) /\ DOMAIN none = {} /\ outbox' = outbox \o none
      BY <2>1 DEF WireTyped
    <2> HIDE DEF none
    <2>3. IsHandled
      BY <1>6, <2>1, <2>2
    <2>4. DaemonTyped'
      BY <2>1 DEF DaemonTyped, data
    <2> QED
      BY <2>3, <2>4
  <1>10. CASE EmergencyStop(cmd)
    <2>1. outbox' = outbox \o StopEvents /\ UNCHANGED <<data, sampled>> /\ cmd.kind = "stop"
          /\ run' = "Idle"
      BY <1>10 DEF EmergencyStop, Emit
    <2>2. IsHandled
      BY <1>6, <2>1, StopEventsTyped
    <2>3. DaemonTyped'
      BY <2>1 DEF DaemonTyped, data, Runs
    <2> QED
      BY <2>2, <2>3
  <1>11. CASE ShutdownDaemon(cmd)
    <2> DEFINE e == <<Event("ready", NoProfile, Untracked, "none")>>
    <2>1. e \in Seq(Events) /\ \A k \in DOMAIN e : e[k].c = Untracked /\ e[k].kind # "profiles"
      BY <1>0, EventTyped DEF EventKinds
    <2>2. outbox' = outbox \o (StopEvents \o e) /\ UNCHANGED data /\ cmd.kind = "shutdown"
          /\ run' = "Idle" /\ sampled' = <<>>
      BY <1>11 DEF ShutdownDaemon, Emit
    <2> HIDE DEF e
    <2>3. StopEvents \o e \in Seq(Events) /\ \A k \in DOMAIN (StopEvents \o e) :
            (StopEvents \o e)[k].c = Untracked /\ (StopEvents \o e)[k].kind # "profiles"
      BY <2>1, StopEventsTyped, Chained, FromEither
    <2>4. IsHandled
      BY <1>6, <2>2, <2>3
    <2>5. DaemonTyped'
      BY <2>2 DEF DaemonTyped, data, Runs
    <2> QED
      BY <2>4, <2>5
  <1> QED
    BY <1>1, <1>3, <1>4, <1>5, <1>7, <1>8, <1>9, <1>10, <1>11

(* A command that was handled is never handled again, and its answer is    *)
(* what became of it.                                                      *)
LEMMA HandledOnce ==
  ASSUME BridgeInv, inbox # <<>>, inbox' \in {Tail(inbox), <<>>}, UNCHANGED call,
         NEW events \in Seq(Events), Handled(Head(inbox), events)
  PROVE  Tracked' /\ Answering' /\ Told'
  <1> DEFINE cmd == Head(inbox)
  <1>1. WireTyped /\ DaemonTyped /\ Tracked /\ Answering /\ Told
    BY DEF BridgeInv, BridgeTyped
  <1>2. /\ 1 \in DOMAIN inbox /\ cmd = inbox[1]
        /\ \A i \in DOMAIN inbox' :
             i \in Nat \ {0} /\ i + 1 \in DOMAIN inbox /\ inbox'[i] = inbox[i + 1]
    <2>1. /\ 1 \in DOMAIN inbox /\ cmd = inbox[1]
          /\ \A i \in DOMAIN Tail(inbox) :
               i \in Nat \ {0} /\ i + 1 \in DOMAIN inbox /\ Tail(inbox)[i] = inbox[i + 1]
      BY <1>1, Popped DEF WireTyped
    <2> QED
      BY <2>1
  <1>3. \A k \in DOMAIN outbox' :
          \/ k \in DOMAIN outbox /\ outbox'[k] = outbox[k]
          \/ \E j \in DOMAIN events : outbox'[k] = events[j]
    BY <1>1, FromEither DEF Handled, WireTyped
  <1>4. applied' \in {applied, applied \cup ({cmd.c} \ {Untracked})}
    BY DEF Handled
  <1>5. \A j \in DOMAIN events : events[j].c # Untracked =>
          /\ events[j].c = cmd.c
          /\ \/ events[j].kind = "accepted" /\ cmd.c \in applied'
             \/ events[j].kind = "rejected" /\ applied' = applied
    BY DEF Handled
  <1>6. cmd.c # Untracked =>
          /\ cmd.c \notin applied /\ ~Fresh(cmd.c) /\ call[cmd.c].at \notin Answered
          /\ \A i \in DOMAIN inbox : inbox[i].c = cmd.c => i = 1
          /\ \A k \in DOMAIN outbox : outbox[k].c # cmd.c
    BY <1>1, <1>2 DEF Tracked
  <1> HIDE DEF cmd
  <1>7. Tracked'
    <2>1. \A c \in Calls : call'[c].at = "inserted" => call'[c].cmd.c = c
      BY <1>1 DEF Tracked
    <2>2. \A c \in applied' : ~Fresh(c)
      BY <1>1, <1>4, <1>6 DEF Tracked, Fresh
    <2>3. ASSUME NEW i \in DOMAIN inbox', inbox'[i].c # Untracked
          PROVE  /\ inbox'[i].c \notin applied'
                 /\ ~Fresh(inbox'[i].c) /\ call'[inbox'[i].c].at \notin Answered
                 /\ \A j \in DOMAIN inbox' : inbox'[j].c = inbox'[i].c => j = i
                 /\ \A k \in DOMAIN outbox' : outbox'[k].c # inbox'[i].c
      <3>1. /\ i \in Nat \ {0} /\ i + 1 \in DOMAIN inbox /\ inbox'[i] = inbox[i + 1]
            /\ inbox[i + 1].c # cmd.c
        BY <1>2, <1>6, <2>3
      <3>2. /\ inbox[i + 1].c \notin applied /\ ~Fresh(inbox[i + 1].c)
            /\ call[inbox[i + 1].c].at \notin Answered
            /\ \A j \in DOMAIN inbox : inbox[j].c = inbox[i + 1].c => j = i + 1
            /\ \A k \in DOMAIN outbox : outbox[k].c # inbox[i + 1].c
        BY <1>1, <2>3, <3>1 DEF Tracked
      <3>3. inbox'[i].c \notin applied' /\ ~Fresh(inbox'[i].c)
            /\ call'[inbox'[i].c].at \notin Answered
        BY <1>4, <3>1, <3>2 DEF Fresh
      <3>4. \A j \in DOMAIN inbox' : inbox'[j].c = inbox'[i].c => j = i
        BY <1>2, <3>1, <3>2
      <3>5. \A k \in DOMAIN outbox' : outbox'[k].c # inbox'[i].c
        BY <1>3, <1>5, <2>3, <3>1, <3>2
      <3> QED
        BY <3>3, <3>4, <3>5
    <2> QED
      BY <2>1, <2>2, <2>3 DEF Tracked, Fresh
  <1>8. Answering'
    <2>1. ASSUME NEW k \in DOMAIN outbox', outbox'[k].c # Untracked
          PROVE  /\ ~Fresh(outbox'[k].c)
                 /\ \/ outbox'[k].kind = "accepted" /\ outbox'[k].c \in applied'
                    \/ outbox'[k].kind = "rejected" /\ outbox'[k].c \notin applied'
      <3>1. CASE k \in DOMAIN outbox /\ outbox'[k] = outbox[k]
        BY <1>1, <1>4, <1>6, <2>1, <3>1 DEF Answering, Fresh
      <3>2. CASE \E j \in DOMAIN events : outbox'[k] = events[j]
        BY <1>5, <1>6, <2>1, <3>2 DEF Fresh
      <3> QED
        BY <1>3, <3>1, <3>2
    <2> QED
      BY <2>1 DEF Answering, Fresh
  <1>9. Told'
    BY <1>1, <1>4, <1>6 DEF Told, Answered
  <1> QED
    BY <1>7, <1>8, <1>9

(* What it changed in the store is announced.                              *)
LEMMA HandledInforms ==
  ASSUME BridgeInv, inbox # <<>>, inbox' = Tail(inbox) \/ ~open',
         UNCHANGED <<cache, supervision, sender, fresh>>, open' => open,
         NEW events \in Seq(Events),
         Handled(Head(inbox), events), Informed(Head(inbox), events)
  PROVE  Synchronized'
  <1>1. WireTyped /\ Synchronized
    BY DEF BridgeInv, BridgeTyped
  <1>0. UNCHANGED <<supervisor, follow>>
    BY DEF supervision
  <1> SUFFICES ASSUME open', open, sender, fresh, Synchronizing, inbox' = Tail(inbox)
               PROVE  Synchronizing'
    BY <1>0, <1>1 DEF Synchronized, Connection
  <1>2. /\ Head(inbox) = inbox[1]
        /\ \A i \in DOMAIN inbox : i # 1 => i - 1 \in DOMAIN inbox' /\ inbox'[i - 1] = inbox[i]
    BY <1>1, Popped DEF WireTyped
  <1>3. /\ \A k \in DOMAIN outbox : k \in DOMAIN outbox' /\ outbox'[k] = outbox[k]
        /\ \A j \in DOMAIN events :
             Len(outbox) + j \in DOMAIN outbox' /\ outbox'[Len(outbox) + j] = events[j]
        /\ \A k \in DOMAIN outbox' : k \in DOMAIN outbox \/ \E j \in DOMAIN events : k = Len(outbox) + j
    BY <1>1, Chained DEF Handled, WireTyped
  <1>4. CASE \E k \in DOMAIN events : events[k].kind \in {"saved", "deleted"}
    BY <1>3, <1>4 DEF Synchronizing
  <1>5. CASE UNCHANGED <<exists, edits>> /\ events = <<ProfileList>>
    <2>1. Len(outbox) \in Nat /\ DOMAIN outbox = 1..Len(outbox)
      BY <1>1 DEF WireTyped
    <2>2. DOMAIN events = {1} /\ events[1] = ProfileList
      BY <1>5
    <2>3. Len(outbox) + 1 \in Lists(outbox') /\ Current(outbox'[Len(outbox) + 1])
      BY <1>3, <1>5, <2>2 DEF Lists, Current, ProfileList
    <2>4. \A j \in Lists(outbox') : j <= Len(outbox) + 1
      BY <1>3, <2>1, <2>2 DEF Lists
    <2> QED
      BY <1>5, <2>3, <2>4 DEF Synchronizing, Current
  <1>6. CASE /\ UNCHANGED <<exists, edits>> /\ Head(inbox).kind # "profiles"
             /\ \A k \in DOMAIN events : events[k].kind # "profiles"
    <2>1. Lists(outbox') = Lists(outbox) /\ \A k \in Lists(outbox) : outbox'[k] = outbox[k]
      BY <1>3, <1>6 DEF Lists
    <2>2. CASE \E i \in DOMAIN inbox : inbox[i].kind = "profiles"
      BY <1>2, <1>6, <2>2 DEF Synchronizing
    <2>6. CASE \E i \in DOMAIN follow : follow[i].kind = "profiles"
      BY <1>0, <2>6 DEF Synchronizing
    <2>3. CASE \E k \in DOMAIN outbox : outbox[k].kind \in {"saved", "deleted"}
      BY <1>3, <2>3 DEF Synchronizing
    <2>4. CASE \E k \in Lists(outbox) : Current(outbox[k]) /\ \A j \in Lists(outbox) : j <= k
      BY <1>6, <2>1, <2>4 DEF Synchronizing, Current
    <2>5. CASE Lists(outbox) = {} /\ Current(cache)
      BY <1>6, <2>1, <2>5 DEF Synchronizing, Current
    <2> QED
      BY <2>2, <2>3, <2>4, <2>5, <2>6 DEF Synchronizing
  <1> QED
    BY <1>4, <1>5, <1>6 DEF Informed

(* The daemon answers a command.                                           *)
LEMMA HandleCommandKeeps ==
  ASSUME BridgeInv, HandleCommand
  PROVE  BridgeInv'
  <1> DEFINE cmd == Head(inbox)
  <1>1. DaemonTyped /\ WireTyped /\ ShellTyped /\ ProcessTyped
    BY DEF BridgeInv, BridgeTyped
  <1>2. /\ open /\ inbox # <<>> /\ inbox' \in {Tail(inbox), <<>>}
        /\ inbox' = Tail(inbox) \/ cmd.kind = "shutdown"
        /\ \/ SaveProfile(cmd) \/ SelectProfile(cmd) \/ DeleteProfile(cmd) \/ StartRun(cmd)
           \/ GetProfiles(cmd) \/ GetRunHistory(cmd) \/ GetSnapshot(cmd)
           \/ EmergencyStop(cmd) \/ ShutdownDaemon(cmd)
        /\ kids' = kids \/ Exits(server)
        /\ UNCHANGED <<supervision, supervisor, follow, sender, pending, cache, call, closing,
                       ownedDaemon, stopping, counters>>
    BY DEF HandleCommand, supervision, link
  <1>3. cmd \in CommandType /\ Tail(inbox) \in Seq(CommandType) /\ <<>> \in Seq(CommandType)
    BY <1>1, <1>2, Popped DEF WireTyped
  <1>4. open' = (open /\ cmd.kind # "shutdown")
    BY <1>2 DEF SaveProfile, SelectProfile, DeleteProfile, StartRun, GetProfiles, GetRunHistory,
                GetSnapshot, EmergencyStop, ShutdownDaemon, Reject, daemon
  <1> HIDE DEF cmd
  <1>5. DaemonTyped'
    BY <1>1, <1>2, <1>3, CommandHandled
  <1>6. PICK events \in Seq(Events) : Handled(cmd, events) /\ Informed(cmd, events)
    BY <1>1, <1>2, <1>3, CommandHandled
  <1>7. WireTyped'
    BY <1>1, <1>2, <1>3, <1>6, Chained DEF WireTyped, Handled
  <1>8. ShellTyped' /\ ProcessTyped'
    BY <1>1, <1>2 DEF ShellTyped, ProcessTyped, Exits
  <1>9. Tracked' /\ Answering' /\ Told'
    BY <1>2, <1>6, HandledOnce DEF cmd
  <1>10. Waiting' /\ Handles'
    BY <1>1, <1>2 DEF BridgeInv, Waiting, Connection, Handles, closing, Exits, ProcessTyped
  <1>11. Synchronized'
    BY <1>2, <1>4, <1>6, HandledInforms DEF cmd, counters
  <1> QED
    BY <1>5, <1>7, <1>8, <1>9, <1>10, <1>11 DEF BridgeInv, BridgeTyped

-----------------------------------------------------------------------------
(* The desktop projects an event: what becomes of its copy, and what it    *)
(* asks the daemon next.                                                   *)
LEMMA ProjectedCache ==
  ASSUME cache \in CacheType, cache.history \in {NoProfile, cache.selected}, NEW e \in Events
  PROVE  /\ Projected(e) \in CacheType
         /\ Projected(e).history \in {NoProfile, Projected(e).selected}
         /\ e.kind = "profiles" => Projected(e).exists = e.exists /\ Projected(e).edits = e.edits
         /\ e.kind \notin {"profiles", "deleted"} =>
              Projected(e).exists = cache.exists /\ Projected(e).edits = cache.edits
  <1>1. /\ e.kind = "profiles" => e \in ListType
        /\ e.kind # "profiles" => e \in EventType
    BY DEF Events, EventType, ListType, EventKinds
  <1>2. e.p \in SomeProfile
    BY <1>1 DEF EventType, ListType, SomeProfile
  <1>3. /\ Selected(e.p) \in CacheType
        /\ Selected(e.p).history \in {NoProfile, Selected(e.p).selected}
        /\ Selected(e.p).exists = cache.exists /\ Selected(e.p).edits = cache.edits
    BY <1>2 DEF Selected, CacheType, SomeProfile
  <1> DEFINE s == Selected(e.p)
  <1> HIDE DEF s
  <1>4. CASE e.kind = "snapshot"
    <2>1. Projected(e) = [s EXCEPT !.run = e.state]
      BY <1>4 DEF Projected, SnapshotSeen, s
    <2> QED
      BY <1>1, <1>3, <1>4, <2>1 DEF CacheType, EventType, s
  <1>5. CASE e.kind = "profiles"
    <2>1. Projected(e) = [s EXCEPT !.exists = e.exists, !.edits = e.edits]
      BY <1>5 DEF Projected, Loaded, s
    <2> QED
      BY <1>1, <1>3, <1>5, <2>1 DEF CacheType, ListType, s
  <1>6. CASE e.kind = "selected"
    <2>1. Projected(e) = s
      BY <1>6 DEF Projected, s
    <2> QED
      BY <1>3, <1>6, <2>1 DEF s
  <1>7. CASE e.kind = "deleted"
    <2>1. Projected(e) = [cache EXCEPT !.exists = @ \ {e.p}]
      BY <1>7 DEF Projected
    <2> QED
      BY <1>7, <2>1 DEF CacheType
  <1>8. CASE e.kind = "history"
    <2>1. Projected(e) = IF cache.selected = e.p THEN [cache EXCEPT !.history = e.p] ELSE cache
      BY <1>8 DEF Projected, History
    <2> QED
      BY <1>2, <1>8, <2>1 DEF CacheType
  <1>9. CASE e.kind = "state"
    <2>1. Projected(e) = [cache EXCEPT !.run = IF @ = "none" THEN @ ELSE e.state]
      BY <1>9 DEF Projected
    <2> QED
      BY <1>1, <1>9, <2>1 DEF CacheType, EventType
  <1>10. CASE e.kind \notin {"snapshot", "profiles", "selected", "deleted", "history", "state"}
    <2>1. Projected(e) = cache
      BY <1>10 DEF Projected
    <2> QED
      BY <1>10, <2>1
  <1> QED
    BY <1>4, <1>5, <1>6, <1>7, <1>8, <1>9, <1>10

(* The follow-ups are questions; a changed store is asked for.             *)
LEMMA FollowUpAsks ==
  ASSUME cache \in CacheType, NEW e \in Events
  PROVE  /\ FollowUp(e) \in Seq(CommandType)
         /\ \A j \in DOMAIN FollowUp(e) : FollowUp(e)[j].c = Untracked
         /\ e.kind \in {"saved", "deleted"} =>
              1 \in DOMAIN FollowUp(e) /\ FollowUp(e)[1].kind = "profiles"
  <1>1. e.p \in SomeProfile /\ NoProfile \in SomeProfile /\ cache.selected \in SomeProfile
    BY DEF Events, EventType, ListType, SomeProfile, CacheType
  <1>2. ASSUME NEW kind \in QuestionKinds, NEW p \in SomeProfile, FollowUp(e) = <<Ask(kind, p)>>,
               kind = "profiles" \/ e.kind \notin {"saved", "deleted"}
        PROVE  /\ FollowUp(e) \in Seq(CommandType)
               /\ \A j \in DOMAIN FollowUp(e) : FollowUp(e)[j].c = Untracked
               /\ e.kind \in {"saved", "deleted"} =>
                    1 \in DOMAIN FollowUp(e) /\ FollowUp(e)[1].kind = "profiles"
    BY <1>2, AskTyped
  <1>3. CASE e.kind = "snapshot" /\ e.p \notin cache.exists
    BY <1>1, <1>2, <1>3 DEF FollowUp, QuestionKinds
  <1>4. CASE e.kind = "saved"
    BY <1>1, <1>2, <1>4 DEF FollowUp, QuestionKinds
  <1>5. CASE e.kind = "deleted"
    BY <1>1, <1>2, <1>5 DEF FollowUp, QuestionKinds
  <1>6. CASE e.kind = "selected"
    BY <1>1, <1>2, <1>6 DEF FollowUp, QuestionKinds
  <1>7. CASE e.kind = "state" /\ e.state = "Idle"
    BY <1>1, <1>2, <1>7 DEF FollowUp, QuestionKinds
  <1>8. CASE /\ ~(e.kind = "snapshot" /\ e.p \notin cache.exists)
             /\ ~(e.kind = "state" /\ e.state = "Idle")
             /\ e.kind \notin {"saved", "deleted", "selected"}
    <2>1. FollowUp(e) = <<>>
      BY <1>8 DEF FollowUp
    <2> QED
      BY <1>8, <2>1
  <1> QED
    BY <1>3, <1>4, <1>5, <1>6, <1>7, <1>8

(* A call that waits is answered, fails or times out.                      *)
MovesOn ==
  \A c \in Calls :
    \/ call'[c] = call[c]
    \/ call[c].at = "waiting" /\ call'[c].at = "failed"
    \/ /\ call[c].at = "waiting" /\ call'[c].at \in {"ok", "rejected"}
       /\ \E k \in DOMAIN outbox : outbox[k].c = c

(* Questions do not disturb the calls, whatever else is taken off the way  *)
(* back.                                                                   *)
LEMMA AskingKeeps ==
  ASSUME BridgeInv, NEW questions \in Seq(CommandType),
         \A j \in DOMAIN questions : questions[j].c = Untracked,
         Send(questions), UNCHANGED applied, MovesOn,
         outbox' = outbox \/ (outbox # <<>> /\ outbox' = Tail(outbox)) \/ outbox' = <<>>
  PROVE  /\ inbox' \in Seq(CommandType)
         /\ Tracked' /\ Answering'
  <1>1. WireTyped /\ Tracked /\ Answering
    BY DEF BridgeInv, BridgeTyped
  <1>2. inbox' = inbox \/ inbox' = inbox \o questions
    BY DEF Send
  <1>3. inbox' \in Seq(CommandType)
    BY <1>1, <1>2, Chained DEF WireTyped
  <1>4. \A i \in DOMAIN inbox' : inbox'[i].c # Untracked => i \in DOMAIN inbox /\ inbox'[i] = inbox[i]
    <2>1. CASE inbox' = inbox \o questions
      <3>1. /\ \A j \in DOMAIN questions : (inbox \o questions)[Len(inbox) + j] = questions[j]
            /\ \A k \in DOMAIN (inbox \o questions) :
                 k \in DOMAIN inbox \/ \E j \in DOMAIN questions : k = Len(inbox) + j
            /\ \A k \in DOMAIN inbox : (inbox \o questions)[k] = inbox[k]
        BY <1>1, Chained DEF WireTyped
      <3> QED
        BY <2>1, <3>1
    <2> QED
      BY <1>2, <2>1
  <1>5. \A k \in DOMAIN outbox' : \E j \in DOMAIN outbox : outbox'[k] = outbox[j]
    <2>1. CASE outbox # <<>> /\ outbox' = Tail(outbox)
      BY <1>1, <2>1, Popped DEF WireTyped
    <2>2. CASE outbox' = <<>>
      BY <2>2
    <2> QED
      BY <2>1, <2>2
  <1>6. \A i \in DOMAIN inbox : inbox[i].c \in Calls \cup {Untracked}
    BY <1>1 DEF WireTyped, CommandType
  <1>7. \A k \in DOMAIN outbox : outbox[k].c \in Calls \cup {Untracked}
    BY <1>1 DEF WireTyped, Events, EventType, ListType
  <1>8. Tracked'
    <2>1. \A c \in Calls : call'[c].at = "inserted" => call'[c].cmd.c = c
      BY <1>1 DEF Tracked, MovesOn
    <2>2. \A c \in applied' : call'[c].at \notin {"unused", "inserted"}
      BY <1>1 DEF Tracked, Fresh, MovesOn, BridgeInv, BridgeTyped, DaemonTyped
    <2>3. ASSUME NEW i \in DOMAIN inbox', inbox'[i].c # Untracked
          PROVE  /\ inbox'[i].c \notin applied'
                 /\ call'[inbox'[i].c].at \notin {"unused", "inserted"} \cup Answered
                 /\ \A j \in DOMAIN inbox' : inbox'[j].c = inbox'[i].c => j = i
                 /\ \A k \in DOMAIN outbox' : outbox'[k].c # inbox'[i].c
      <3>1. /\ i \in DOMAIN inbox /\ inbox'[i] = inbox[i] /\ inbox[i].c \in Calls
        BY <1>4, <1>6, <2>3
      <3>2. call'[inbox[i].c].at \notin {"unused", "inserted"} \cup Answered
        BY <1>1, <2>3, <3>1 DEF Tracked, Fresh, MovesOn, Answered
      <3> QED
        BY <1>1, <1>4, <1>5, <2>3, <3>1, <3>2 DEF Tracked
    <2> QED
      BY <2>1, <2>2, <2>3 DEF Tracked, Fresh
  <1>9. Answering'
    BY <1>1, <1>5, <1>7 DEF Answering, Fresh, MovesOn
  <1> QED
    BY <1>3, <1>8, <1>9

(* A longer queue of commands does not make the profiles any less current, *)
(* when they include what supervise() had to send.                         *)
LEMMA AskingInforms ==
  ASSUME BridgeInv, NEW questions \in Seq(CommandType), Send(questions),
         UNCHANGED follow \/ (follow' = <<>> /\ questions = follow),
         UNCHANGED <<outbox, exists, edits, sender, open, fresh>>, Connection' => Connection,
         cache'.exists = cache.exists, cache'.edits = cache.edits,
         cache'.history = cache.history, cache'.selected = cache.selected
  PROVE  Synchronized'
  <1>1. WireTyped /\ Synchronized
    BY DEF BridgeInv, BridgeTyped
  <1>2. /\ \A i \in DOMAIN inbox : i \in DOMAIN inbox' /\ inbox'[i] = inbox[i]
        /\ CanSend => \A j \in DOMAIN questions :
             Len(inbox) + j \in DOMAIN inbox' /\ inbox'[Len(inbox) + j] = questions[j]
    <2>1. /\ \A i \in DOMAIN inbox :
               i \in DOMAIN (inbox \o questions) /\ (inbox \o questions)[i] = inbox[i]
          /\ \A j \in DOMAIN questions :
               /\ Len(inbox) + j \in DOMAIN (inbox \o questions)
               /\ (inbox \o questions)[Len(inbox) + j] = questions[j]
      BY <1>1, Chained DEF WireTyped
    <2> QED
      BY <2>1 DEF Send
  <1>3. ASSUME CanSend, Synchronizing PROVE Synchronizing'
    <2>1. CASE \E i \in DOMAIN follow : follow[i].kind = "profiles"
      BY <1>2, <1>3, <2>1 DEF Synchronizing
    <2>2. CASE \E i \in DOMAIN inbox : inbox[i].kind = "profiles"
      BY <1>2, <2>2 DEF Synchronizing
    <2>3. CASE ~\E i \in DOMAIN follow : follow[i].kind = "profiles"
      BY <1>2, <1>3, <2>2, <2>3 DEF Synchronizing, Lists, Current
    <2> QED
      BY <2>1, <2>3
  <1> QED
    BY <1>1, <1>3 DEF Synchronized, CanSend

(* Events of no call that list no profiles disturb neither.                *)
LEMMA EmittingKeeps ==
  ASSUME BridgeInv, NEW events \in Seq(Events), Emit(events),
         \A k \in DOMAIN events : events[k].c = Untracked /\ events[k].kind # "profiles",
         UNCHANGED <<data, inbox, open, supervisor, follow, sender, cache, call, fresh>>
  PROVE  outbox' \in Seq(Events) /\ Tracked' /\ Answering' /\ Synchronized'
  <1>1. WireTyped /\ Tracked /\ Answering /\ Synchronized
    BY DEF BridgeInv, BridgeTyped
  <1>2. outbox' = outbox \/ outbox' = outbox \o events
    BY DEF Emit
  <1>3. /\ outbox' \in Seq(Events)
        /\ \A k \in DOMAIN outbox : k \in DOMAIN outbox' /\ outbox'[k] = outbox[k]
        /\ \A k \in DOMAIN outbox' :
             \/ k \in DOMAIN outbox
             \/ outbox'[k].c = Untracked /\ outbox'[k].kind # "profiles"
    <2>1. /\ outbox \o events \in Seq(Events)
          /\ \A k \in DOMAIN outbox :
               k \in DOMAIN (outbox \o events) /\ (outbox \o events)[k] = outbox[k]
          /\ \A j \in DOMAIN events : (outbox \o events)[Len(outbox) + j] = events[j]
          /\ \A k \in DOMAIN (outbox \o events) :
               k \in DOMAIN outbox \/ \E j \in DOMAIN events : k = Len(outbox) + j
      BY <1>1, Chained DEF WireTyped
    <2>2. \A k \in DOMAIN (outbox \o events) :
            \/ k \in DOMAIN outbox
            \/ (outbox \o events)[k].c = Untracked /\ (outbox \o events)[k].kind # "profiles"
      BY <2>1
    <2>3. CASE outbox' = outbox
      BY <1>1, <2>3 DEF WireTyped
    <2>4. CASE outbox' = outbox \o events
      BY <2>1, <2>2, <2>4
    <2> QED
      BY <1>2, <2>3, <2>4
  <1>4. Tracked'
    BY <1>1, <1>3 DEF Tracked, Fresh, data
  <1>5. Answering'
    BY <1>1, <1>3 DEF Answering, Fresh, data
  <1>6. Lists(outbox') = Lists(outbox) /\ \A k \in Lists(outbox) : outbox'[k] = outbox[k]
    BY <1>3 DEF Lists
  <1>7. Synchronizing => Synchronizing'
    BY <1>3, <1>6 DEF Synchronizing, Current, data
  <1> QED
    BY <1>1, <1>3, <1>4, <1>5, <1>7 DEF Synchronized, Connection

(* An event that is projected takes the desktop nearer to the store.       *)
LEMMA ProjectingInforms ==
  ASSUME BridgeInv, outbox # <<>>, NEW e, e = Head(outbox), outbox' = Tail(outbox),
         \/ Send(FollowUp(e)) /\ UNCHANGED follow
         \/ UNCHANGED inbox /\ follow' = FollowUp(e),
         cache' = Projected(e), supervisor = "live",
         UNCHANGED <<data, sender, open, fresh>>
  PROVE  Synchronized'
  <1>1. WireTyped /\ Synchronized /\ cache \in CacheType /\ follow = <<>>
    BY DEF BridgeInv, BridgeTyped, ShellTyped, Waiting
  <1>2. /\ e \in Events /\ e = outbox[1]
        /\ \A k \in DOMAIN outbox' :
             k \in Nat \ {0} /\ k + 1 \in DOMAIN outbox /\ outbox'[k] = outbox[k + 1]
        /\ \A k \in DOMAIN outbox :
             /\ k \in Nat \ {0}
             /\ k # 1 => k - 1 \in DOMAIN outbox' /\ outbox'[k - 1] = outbox[k]
    BY <1>1, Popped DEF WireTyped
  <1>3. /\ cache'.history \in {NoProfile, cache'.selected}
        /\ e.kind = "profiles" => cache'.exists = e.exists /\ cache'.edits = e.edits
        /\ e.kind \notin {"profiles", "deleted"} =>
             cache'.exists = cache.exists /\ cache'.edits = cache.edits
    BY <1>1, <1>2, ProjectedCache DEF Synchronized
  <1>4. ASSUME open, sender, fresh PROVE Synchronizing'
    <2>1. /\ Synchronizing
          /\ inbox' = inbox \o FollowUp(e) \/ (inbox' = inbox /\ follow' = FollowUp(e))
      BY <1>1, <1>4 DEF Synchronized, Send, CanSend, Connection
    <2>2. /\ FollowUp(e) \in Seq(CommandType)
          /\ e.kind \in {"saved", "deleted"} =>
               1 \in DOMAIN FollowUp(e) /\ FollowUp(e)[1].kind = "profiles"
      BY <1>1, <1>2, FollowUpAsks
    <2>3. /\ \A i \in DOMAIN inbox :
               i \in DOMAIN (inbox \o FollowUp(e)) /\ (inbox \o FollowUp(e))[i] = inbox[i]
          /\ \A j \in DOMAIN FollowUp(e) :
               /\ Len(inbox) + j \in DOMAIN (inbox \o FollowUp(e))
               /\ (inbox \o FollowUp(e))[Len(inbox) + j] = FollowUp(e)[j]
      BY <1>1, <2>2, Chained DEF WireTyped
    <2>4. CASE \E i \in DOMAIN inbox : inbox[i].kind = "profiles"
      BY <2>1, <2>3, <2>4 DEF Synchronizing
    <2>5. CASE e.kind \in {"saved", "deleted"}
      <3>1. FollowUp(e)[1].kind = "profiles" /\ 1 \in DOMAIN FollowUp(e)
        BY <2>2, <2>5
      <3>2. CASE inbox' = inbox \o FollowUp(e)
        BY <2>3, <3>1, <3>2 DEF Synchronizing
      <3>3. CASE follow' = FollowUp(e)
        BY <3>1, <3>3 DEF Synchronizing
      <3> QED
        BY <2>1, <3>2, <3>3
    <2>6. CASE \E k \in DOMAIN outbox : outbox[k].kind \in {"saved", "deleted"}
      <3>1. PICK k \in DOMAIN outbox : outbox[k].kind \in {"saved", "deleted"}
        BY <2>6
      <3>2. CASE k # 1
        BY <1>2, <3>1, <3>2 DEF Synchronizing
      <3> QED
        BY <1>2, <2>5, <3>1, <3>2
    <2>7. CASE \E k \in Lists(outbox) : Current(outbox[k]) /\ \A j \in Lists(outbox) : j <= k
      <3>1. PICK k \in Lists(outbox) : Current(outbox[k]) /\ \A j \in Lists(outbox) : j <= k
        BY <2>7
      <3>2. CASE k = 1
        <4>1. Lists(outbox') = {}
          BY <1>2, <3>1, <3>2 DEF Lists
        <4>2. e.kind = "profiles" /\ Current(e)
          BY <1>2, <3>1, <3>2 DEF Lists
        <4> QED
          BY <1>3, <4>1, <4>2 DEF Synchronizing, Current, data
      <3>3. CASE k # 1
        <4>1. k - 1 \in Lists(outbox') /\ outbox'[k - 1] = outbox[k]
          BY <1>2, <3>1, <3>3 DEF Lists
        <4>2. \A j \in Lists(outbox') : j <= k - 1
          BY <1>2, <3>1 DEF Lists
        <4> QED
          BY <3>1, <4>1, <4>2 DEF Synchronizing, Current, data
      <3> QED
        BY <3>2, <3>3
    <2>8. CASE Lists(outbox) = {} /\ Current(cache)
      <3>1. e.kind # "profiles"
        BY <1>2, <2>8, <1>1, Popped DEF Lists, WireTyped
      <3>2. Lists(outbox') = {}
        BY <1>2, <2>8 DEF Lists
      <3>3. CASE e.kind # "deleted"
        BY <1>3, <2>8, <3>1, <3>2, <3>3 DEF Synchronizing, Current, data
      <3> QED
        BY <2>5, <3>3
    <2>9. DOMAIN follow = {}
      BY <1>1
    <2> QED
      BY <2>1, <2>4, <2>6, <2>7, <2>8, <2>9 DEF Synchronizing
  <1> QED
    BY <1>3, <1>4 DEF Synchronized

(* The steps that leave the wire, the calls and the store as they are.     *)
LEMMA AsideKeeps ==
  ASSUME BridgeInv, UNCHANGED <<data, run, sampled, wire, follow, pending, call>>,
         cache' \in {cache, [cache EXCEPT !.connected = FALSE]},
         ProcessTyped', Handles', Waiting',
         Connection' /\ open' /\ sender' /\ fresh' => Connection /\ open /\ sender /\ fresh
  PROVE  BridgeInv'
  <1> USE DEF BridgeInv, BridgeTyped
  <1>1. DaemonTyped' /\ WireTyped' /\ Told'
    BY DEF DaemonTyped, WireTyped, Told, data, wire
  <1>2. /\ ShellTyped' /\ cache'.history = cache.history /\ cache'.selected = cache.selected
        /\ cache'.exists = cache.exists /\ cache'.edits = cache.edits
    BY DEF ShellTyped, CacheType
  <1>3. Tracked' /\ Answering'
    BY DEF Tracked, Answering, Fresh, data, wire
  <1>4. Synchronized'
    BY <1>2 DEF Synchronized, Synchronizing, Lists, Current, data, wire
  <1> QED
    BY <1>1, <1>2, <1>3, <1>4

(* ... or lose the connection and what is on it, and the daemon with it.   *)
LEMMA ClosingKeeps ==
  ASSUME BridgeInv, UNCHANGED data, MovesOn \/ UNCHANGED call, Told', ShellTyped',
         run' \in Runs, sampled' \in {sampled, <<>>},
         inbox' \in {inbox, <<>>}, outbox' \in {outbox, <<>>}, ~(Connection' /\ open' /\ sender'),
         cache'.history = cache.history, cache'.selected = cache.selected,
         ProcessTyped', Handles', Waiting'
  PROVE  BridgeInv'
  <1> USE DEF BridgeInv, BridgeTyped
  <1>1. DaemonTyped'
    BY DEF DaemonTyped, data
  <1>2. WireTyped'
    <2>1. <<>> \in Seq(CommandType) /\ <<>> \in Seq(Events)
      OBVIOUS
    <2>2. inbox \in Seq(CommandType) /\ outbox \in Seq(Events)
      BY DEF WireTyped
    <2> QED
      BY ONLY <2>1, <2>2, inbox' \in {inbox, <<>>}, outbox' \in {outbox, <<>>} DEF WireTyped
  <1>3. MovesOn
    BY DEF MovesOn
  <1>4. /\ \A i \in DOMAIN inbox' : i \in DOMAIN inbox /\ inbox'[i] = inbox[i]
        /\ \A k \in DOMAIN outbox' : k \in DOMAIN outbox /\ outbox'[k] = outbox[k]
    OBVIOUS
  <1>5. \A i \in DOMAIN inbox : inbox[i].c \in Calls \cup {Untracked}
    BY DEF WireTyped, CommandType
  <1>6. \A k \in DOMAIN outbox : outbox[k].c \in Calls \cup {Untracked}
    BY DEF WireTyped, Events, EventType, ListType
  <1>7. Tracked'
    <2>1. /\ \A c \in Calls : call'[c].at = "inserted" => call'[c].cmd.c = c
          /\ \A c \in applied' : call'[c].at \notin {"unused", "inserted"}
      BY <1>3 DEF Tracked, Fresh, MovesOn, data, DaemonTyped
    <2>2. ASSUME NEW i \in DOMAIN inbox', inbox'[i].c # Untracked
          PROVE  /\ inbox'[i].c \notin applied'
                 /\ call'[inbox'[i].c].at \notin {"unused", "inserted"} \cup Answered
                 /\ \A j \in DOMAIN inbox' : inbox'[j].c = inbox'[i].c => j = i
                 /\ \A k \in DOMAIN outbox' : outbox'[k].c # inbox'[i].c
      <3>1. i \in DOMAIN inbox /\ inbox'[i] = inbox[i] /\ inbox[i].c \in Calls
        BY <1>4, <1>5, <2>2
      <3>2. call'[inbox[i].c].at \notin {"unused", "inserted"} \cup Answered
        BY <1>3, <2>2, <3>1 DEF Tracked, Fresh, MovesOn, Answered
      <3> QED
        BY <1>4, <2>2, <3>1, <3>2 DEF Tracked, data
    <2> QED
      BY <2>1, <2>2 DEF Tracked, Fresh
  <1>8. Answering'
    BY <1>3, <1>4, <1>6 DEF Answering, Fresh, MovesOn, data
  <1>9. Synchronized'
    BY DEF Synchronized
  <1> QED
    BY <1>1, <1>2, <1>7, <1>8, <1>9

(* The loop is left: at once, or when the lock is free.                    *)
LEMMA LeaveLoopKeeps ==
  ASSUME BridgeInv, LeaveLoop, supervisor \in {"live", "teardown"},
         cache' \in {cache, [cache EXCEPT !.connected = FALSE]},
         UNCHANGED <<follow, pending, call, closing>>
  PROVE  BridgeInv'
  <1> USE DEF BridgeInv, BridgeTyped
  <1>1. /\ supervisor' \in {"failing", "teardown"} /\ (sender' => supervisor' = "teardown")
        /\ open' \in {open, FALSE} /\ inbox' \in {inbox, <<>>} /\ outbox' \in {outbox, <<>>}
        /\ UNCHANGED <<data, run, sampled, process, counters>>
    BY DEF LeaveLoop, wire
  <1>2. /\ ShellTyped' /\ cache'.history = cache.history /\ cache'.selected = cache.selected
    BY DEF ShellTyped, CacheType
  <1>3. Waiting' /\ Told'
    BY <1>1 DEF Waiting, Told, Connection, closing, data
  <1>4. ProcessTyped' /\ Handles' /\ run' \in Runs
    BY <1>1 DEF ProcessTyped, Handles, DaemonTyped, process, closing
  <1> QED
    BY <1>1, <1>2, <1>3, <1>4, ClosingKeeps DEF Connection

(* What becomes of a call.                                                 *)
LEMMA BecameTyped ==
  ASSUME ShellTyped, NEW c \in Calls, NEW at \in Unanswered \cup Answered
  PROVE  /\ Became(c, at) \in CallType /\ Became(c, at).at = at
         /\ Set(c, at) \in [Calls -> CallType] /\ Set(c, at)[c].at = at
         /\ \A d \in Calls : d # c => Set(c, at)[d] = call[d]
  <1>1. NoCommand \in CommandType
    BY AskTyped DEF NoCommand, QuestionKinds, SomeProfile
  <1>2. Became(c, at) \in CallType /\ Became(c, at).at = at
    BY <1>1 DEF Became, ShellTyped, CallType
  <1> QED
    BY <1>2 DEF Set, ShellTyped

(* The supervisor handles an event.                                        *)
LEMMA HandleEventKeeps ==
  ASSUME BridgeInv, HandleEvent
  PROVE  BridgeInv'
  <1> DEFINE e == Head(outbox)
             answered == pending \cap {e.c}
  <1>1. /\ DaemonTyped /\ WireTyped /\ ShellTyped /\ ProcessTyped
        /\ Tracked /\ Answering /\ Told /\ Waiting /\ Handles /\ Synchronized
    BY DEF BridgeInv, BridgeTyped
  <1>2. /\ outbox # <<>> /\ supervisor = "live"
        /\ UNCHANGED <<data, run, sampled, process, counters>>
    BY DEF HandleEvent, LeaveLoop, daemon
  <1>3. e \in Events /\ 1 \in DOMAIN outbox /\ e = outbox[1] /\ Tail(outbox) \in Seq(Events)
    BY <1>1, <1>2, Popped DEF WireTyped
  <1>4. DaemonTyped' /\ ProcessTyped'
    BY <1>1, <1>2 DEF DaemonTyped, ProcessTyped, data, process
  <1>5. CASE LeaveLoop /\ cache' = [cache EXCEPT !.connected = FALSE]
             /\ UNCHANGED <<follow, pending, call, closing>>
    BY <1>2, <1>5, LeaveLoopKeeps
  <1>6. CASE /\ cache' = Projected(e) /\ pending' = pending \ answered
             /\ call' = [c \in Calls |-> IF c \in answered /\ call[c].at = "waiting"
                                         THEN Became(c, Answer(e)) ELSE call[c]]
             /\ outbox' = Tail(outbox) /\ SendOrAsk(FollowUp(e), "asking")
             /\ UNCHANGED <<open, sender, shutdown>>
    <2>1. Answer(e) \in {"ok", "rejected"}
      BY DEF Answer
    <2>2. \A c \in answered : c = e.c /\ c \in Calls /\ c # Untracked
      BY <1>1, UntrackedIsNoCall DEF ShellTyped
    <2>3. \A c \in answered :
            \/ Answer(e) = "ok" /\ c \in applied
            \/ Answer(e) = "rejected" /\ c \notin applied
      BY <1>1, <1>3, <2>2 DEF Answering, Answer
    <2>4. \A c \in Calls :
            \/ call'[c] = call[c] /\ ~(c \in answered /\ call[c].at = "waiting")
            \/ /\ c \in answered /\ call[c].at = "waiting"
               /\ call'[c] \in CallType /\ call'[c].at = Answer(e)
      <3>1. Answer(e) \in Unanswered \cup Answered
        BY <2>1 DEF Answered
      <3>2. \A c \in Calls :
              Became(c, Answer(e)) \in CallType /\ Became(c, Answer(e)).at = Answer(e)
        BY <1>1, <3>1, BecameTyped
      <3> QED
        BY <1>6, <3>2
    <2> HIDE DEF answered
    <2>5. MovesOn
      BY <1>3, <2>1, <2>2, <2>4 DEF MovesOn
    <2>6. /\ FollowUp(e) \in Seq(CommandType)
          /\ \A j \in DOMAIN FollowUp(e) : FollowUp(e)[j].c = Untracked
      BY <1>1, <1>3, FollowUpAsks DEF ShellTyped
    <2>7. inbox' \in Seq(CommandType) /\ Tracked' /\ Answering'
      <3> DEFINE none == <<>>
      <3>1. none \in Seq(CommandType) /\ DOMAIN none = {}
        OBVIOUS
      <3>2. Send(FollowUp(e)) \/ Send(none)
        BY <1>1, <1>6 DEF SendOrAsk, Send, WireTyped
      <3> HIDE DEF none
      <3> QED
        BY <1>2, <1>6, <2>5, <2>6, <3>1, <3>2, AskingKeeps DEF data
    <2>8. WireTyped'
      BY <1>3, <1>6, <2>7 DEF WireTyped
    <2>9. ShellTyped'
      <3>1. cache' \in CacheType
        BY <1>1, <1>3, <1>6, ProjectedCache DEF ShellTyped, Synchronized
      <3>2. call' \in [Calls -> CallType]
        BY <1>1, <1>6, <2>4 DEF ShellTyped
      <3>3. follow' \in {follow, FollowUp(e)}
        BY <1>6 DEF SendOrAsk
      <3> QED
        BY <1>1, <1>6, <2>6, <3>1, <3>2, <3>3 DEF ShellTyped
    <2>10. Told'
      BY <1>1, <1>2, <2>3, <2>4 DEF Told, data
    <2>11. Waiting' /\ Handles'
      <3>1. \/ UNCHANGED <<supervisor, follow>>
            \/ supervisor' = "asking"
        BY <1>6 DEF SendOrAsk
      <3> QED
        BY <1>1, <1>2, <1>6, <2>1, <2>4, <3>1 DEF Waiting, Handles, Connection, process
    <2>12. Synchronized'
      BY <1>2, <1>6, ProjectingInforms DEF SendOrAsk, counters
    <2> QED
      BY <1>4, <2>7, <2>8, <2>9, <2>10, <2>11, <2>12 DEF BridgeInv, BridgeTyped
  <1> QED
    BY <1>5, <1>6 DEF HandleEvent, daemon, link

-----------------------------------------------------------------------------
(* The calls.                                                              *)

(* A call that is sent is the only one of its number.                      *)
LEMMA SendCallKeeps ==
  ASSUME BridgeInv, NEW c \in Calls, SendCall(c)
  PROVE  BridgeInv'
  <1>1. /\ DaemonTyped /\ WireTyped /\ ShellTyped /\ ProcessTyped
        /\ Tracked /\ Answering /\ Told /\ Waiting /\ Handles /\ Synchronized
    BY DEF BridgeInv, BridgeTyped
  <1>2. /\ call[c].at = "inserted" /\ Send(<<call[c].cmd>>)
        /\ UNCHANGED <<daemon, outbox, supervisor, follow, sender, closing, process, counters>>
    BY DEF SendCall, supervision
  <1>3. call[c].cmd \in CommandType /\ call[c].cmd.c = c /\ c # Untracked /\ Fresh(c)
    BY <1>1, <1>2, UntrackedIsNoCall DEF Tracked, ShellTyped, CallType, Fresh
  <1>4. <<call[c].cmd>> \in Seq(CommandType)
    BY <1>3
  <1>5. PICK at \in {"waiting", "failed"} :
          /\ call' = Set(c, at)
          /\ at = "waiting" => CanSend /\ c \in pending
    BY DEF SendCall
  <1>6. /\ call' \in [Calls -> CallType] /\ call'[c].at = at
        /\ \A d \in Calls : d # c => call'[d] = call[d]
    <2>1. at \in Unanswered \cup Answered
      BY DEF Unanswered
    <2> QED
      BY <1>1, <1>5, <2>1, BecameTyped
  <1>7. DaemonTyped' /\ ProcessTyped' /\ Handles'
    BY <1>1, <1>2 DEF DaemonTyped, ProcessTyped, Handles, daemon, data, process, closing
  <1>8. WireTyped'
    BY <1>1, <1>2, <1>4, Chained DEF WireTyped, Send
  <1>9. ShellTyped' /\ cache'.exists = cache.exists /\ cache'.edits = cache.edits
        /\ cache'.history = cache.history /\ cache'.selected = cache.selected
    <2>1. pending' \subseteq pending /\ (cache' = cache \/ cache' = [cache EXCEPT !.connected = FALSE])
      BY DEF SendCall
    <2> QED
      BY <1>1, <1>2, <1>6, <2>1 DEF ShellTyped, CacheType
  <1>10. Synchronized'
    BY <1>2, <1>4, <1>9, AskingInforms DEF daemon, data, counters, Connection
  <1>11. Waiting'
    <2>1. \A d \in Calls : call'[d].at = "waiting" =>
            d \in pending' /\ (Connection \/ supervisor \in {"teardown", "failing"})
      BY <1>1, <1>2, <1>5, <1>6 DEF SendCall, Waiting, CanSend
    <2>2. pending' \subseteq pending
      BY DEF SendCall
    <2> QED
      BY <1>1, <1>2, <2>1, <2>2 DEF Waiting, Connection, closing
  <1>12. Told'
    BY <1>1, <1>2, <1>5, <1>6 DEF Told, daemon, data
  <1>13. \A d \in Calls : Fresh(d)' => Fresh(d) /\ d # c
    BY <1>5, <1>6 DEF Fresh
  <1>14. Answering'
    <2>1. \A k \in DOMAIN outbox : outbox[k].c # Untracked => outbox[k].c \in Calls
      BY <1>1 DEF WireTyped, Events, EventType, ListType
    <2>2. \A k \in DOMAIN outbox : outbox[k].c # Untracked =>
            call'[outbox[k].c].at \notin {"unused", "inserted"}
      BY <1>1, <1>13, <2>1 DEF Answering, Fresh
    <2> QED
      BY <1>1, <1>2, <2>2 DEF Answering, Fresh, daemon, data
  <1>15. Tracked'
    <2>1. \A i \in DOMAIN inbox' :
            \/ i \in DOMAIN inbox /\ inbox'[i] = inbox[i]
            \/ i = Len(inbox) + 1 /\ inbox'[i] = call[c].cmd
      <3>1. /\ \A i \in DOMAIN inbox : (inbox \o <<call[c].cmd>>)[i] = inbox[i]
            /\ \A i \in DOMAIN (inbox \o <<call[c].cmd>>) :
                 \/ i \in DOMAIN inbox
                 \/ i = Len(inbox) + 1 /\ (inbox \o <<call[c].cmd>>)[i] = call[c].cmd
        BY <1>1, <1>3 DEF WireTyped
      <3> QED
        BY <1>2, <3>1 DEF Send
    <2>2. \A i \in DOMAIN inbox : inbox[i].c # c /\ inbox[i].c \in Calls \cup {Untracked}
      BY <1>1, <1>3 DEF Tracked, WireTyped, CommandType
    <2>3. c \notin applied /\ \A k \in DOMAIN outbox : outbox[k].c # c
      BY <1>1, <1>3 DEF Tracked, Answering
    <2>4. \A d \in Calls : call'[d].at = "inserted" => call'[d].cmd.c = d
      BY <1>1, <1>5, <1>6 DEF Tracked
    <2>5. \A d \in applied' : call'[d].at \notin {"unused", "inserted"}
      BY <1>1, <1>2, <1>13 DEF Tracked, Fresh, daemon, data, DaemonTyped
    <2>6. ASSUME NEW i \in DOMAIN inbox', inbox'[i].c # Untracked
          PROVE  /\ inbox'[i].c \notin applied'
                 /\ call'[inbox'[i].c].at \notin {"unused", "inserted"} \cup Answered
                 /\ \A j \in DOMAIN inbox' : inbox'[j].c = inbox'[i].c => j = i
                 /\ \A k \in DOMAIN outbox' : outbox'[k].c # inbox'[i].c
      <3>1. applied' = applied /\ outbox' = outbox
        BY <1>2 DEF daemon, data
      <3>2. CASE i \in DOMAIN inbox /\ inbox'[i] = inbox[i]
        <4>1. inbox[i].c \in Calls \ {c}
          BY <2>2, <2>6, <3>2
        <4>2. call'[inbox[i].c].at \notin {"unused", "inserted"} \cup Answered
          BY <1>1, <1>6, <2>6, <3>2, <4>1 DEF Tracked, Fresh
        <4> QED
          BY <1>1, <1>3, <2>1, <2>6, <3>1, <3>2, <4>1, <4>2 DEF Tracked
      <3>3. CASE i = Len(inbox) + 1 /\ inbox'[i] = call[c].cmd
        BY <1>3, <1>5, <1>6, <2>1, <2>2, <2>3, <3>1, <3>3 DEF Answered
      <3> QED
        BY <2>1, <3>2, <3>3
    <2> QED
      BY <2>4, <2>5, <2>6 DEF Tracked, Fresh
  <1> QED
    BY <1>7, <1>8, <1>9, <1>10, <1>11, <1>12, <1>14, <1>15 DEF BridgeInv, BridgeTyped

(* Every call that waits is failed.                                        *)
LEMMA FailPendingMoves ==
  ASSUME ShellTyped, Waiting, FailPending
  PROVE  /\ MovesOn /\ pending' = {} /\ call' \in [Calls -> CallType]
         /\ \A c \in Calls : call'[c].at # "waiting"
         /\ \A c \in Calls : call'[c].at \in Answered => call'[c].at = call[c].at
  <1>1. \A c \in Calls : Became(c, "failed") \in CallType /\ Became(c, "failed").at = "failed"
    BY BecameTyped DEF Unanswered
  <1>2. \A c \in Calls :
          \/ call'[c] = call[c] /\ ~(c \in pending /\ call[c].at = "waiting")
          \/ call[c].at = "waiting" /\ call'[c] \in CallType /\ call'[c].at = "failed"
    BY <1>1 DEF FailPending
  <1>3. call' \in [Calls -> CallType]
    BY <1>2 DEF FailPending, ShellTyped
  <1> QED
    BY <1>2, <1>3 DEF FailPending, MovesOn, Waiting, Answered

(* So is the rest of the invariant when nothing else happens to the wire.  *)
LEMMA FailingKeeps ==
  ASSUME BridgeInv, FailPending, UNCHANGED <<data, wire>>
  PROVE  Tracked' /\ Answering' /\ Told'
  <1>1. ShellTyped /\ Waiting /\ WireTyped /\ Told
    BY DEF BridgeInv, BridgeTyped
  <1>2. MovesOn /\ \A c \in Calls : call'[c].at \in Answered => call'[c].at = call[c].at
    BY <1>1, FailPendingMoves
  <1> DEFINE none == <<>>
  <1>3. none \in Seq(CommandType) /\ DOMAIN none = {} /\ Send(none)
    BY <1>1 DEF Send, wire, WireTyped
  <1> HIDE DEF none
  <1>4. Tracked' /\ Answering'
    BY <1>2, <1>3, AskingKeeps DEF data, wire
  <1>5. Told'
    BY <1>1, <1>2 DEF Told, Answered, data
  <1> QED
    BY <1>4, <1>5

(* The calls begin, time out and read the dashboard.                       *)
LEMMA CallStepsKeep ==
  ASSUME BridgeInv, CallSteps
  PROVE  BridgeInv'
  <1> USE DEF BridgeInv, BridgeTyped
  <1>1. ASSUME NEW c \in Calls, NEW kind \in CallKinds, NEW p \in Profiles, BeginCall(c, kind, p)
        PROVE  BridgeInv'
    <2> DEFINE doc == IF kind = "save" THEN cache.edits[p] \cup {c} ELSE {}
               new == [at |-> "inserted", cmd |-> Command(kind, p, c, doc)]
    <2>1. /\ call[c].at = "unused" /\ shutdown = "no" /\ call' = [call EXCEPT ![c] = new]
          /\ pending' = pending \cup {c}
          /\ UNCHANGED <<daemon, wire, supervisor, follow, sender, cache, closing, process,
                         counters>>
      BY <1>1 DEF BeginCall, supervision, link
    <2>2. doc \subseteq Calls
      BY DEF ShellTyped, CacheType, Documents
    <2>3. new.at = "inserted" /\ new.cmd.c = c /\ new \in CallType
      BY <2>2, BridgeAssumption DEF BridgeAssumption, CallType, CommandType, Command, Unanswered
    <2> HIDE DEF new
    <2>4. /\ call' \in [Calls -> CallType] /\ call'[c] = new
          /\ \A d \in Calls : d # c => call'[d] = call[d]
      BY <2>1, <2>3 DEF ShellTyped
    <2>5. DaemonTyped' /\ WireTyped' /\ ShellTyped' /\ ProcessTyped' /\ Handles' /\ Synchronized'
      BY <2>1, <2>4 DEF DaemonTyped, WireTyped, ShellTyped, ProcessTyped, Handles, Synchronized,
         Synchronizing, Connection, Lists, Current, daemon, data, wire, closing, process, counters
    <2>6. \A d \in Calls : call[d].at \notin {"unused", "inserted"} => d # c /\ call'[d] = call[d]
      BY <2>1, <2>4
    <2>7. \A i \in DOMAIN inbox : inbox[i].c \in Calls \cup {Untracked}
      BY DEF WireTyped, CommandType
    <2>8. \A k \in DOMAIN outbox : outbox[k].c \in Calls \cup {Untracked}
      BY DEF WireTyped, Events, EventType, ListType
    <2>9. Answering'
      BY <2>1, <2>6, <2>8 DEF Answering, Fresh, daemon, data, wire
    <2>10. Tracked'
      BY <2>1, <2>3, <2>4, <2>6, <2>7 DEF Tracked, Fresh, DaemonTyped, daemon, data, wire
    <2>11. Told' /\ Waiting'
      BY <2>1, <2>3, <2>4 DEF Told, Waiting, Connection, daemon, data, closing
    <2> QED
      BY <2>5, <2>9, <2>10, <2>11
  <1>2. ASSUME NEW c \in Calls, SendCall(c) PROVE BridgeInv'
    BY <1>2, SendCallKeeps
  <1>3. ASSUME NEW c \in Calls, NEW at \in {"failed", "shown", "stale"}, call' = Set(c, at),
               at = "failed" => call[c].at = "waiting",
               at \in {"shown", "stale"} => call[c].at = "ok",
               UNCHANGED <<daemon, wire, supervision, link, pending, cache, closing, process,
                           counters>>
        PROVE  BridgeInv'
    <2>0. UNCHANGED <<supervisor, follow, sender>>
      BY <1>3 DEF supervision, link
    <2>1. /\ call' \in [Calls -> CallType] /\ call'[c].at = at
          /\ \A d \in Calls : d # c => call'[d] = call[d]
      <3>1. at \in Unanswered \cup Answered
        BY DEF Unanswered, Answered
      <3> QED
        BY <1>3, <3>1, BecameTyped
    <2>2. DaemonTyped' /\ WireTyped' /\ ShellTyped' /\ ProcessTyped' /\ Handles' /\ Synchronized'
      BY <1>3, <2>0, <2>1 DEF DaemonTyped, WireTyped, ShellTyped, ProcessTyped, Handles,
         Synchronized, Synchronizing, Connection, Lists, Current, daemon, data, wire, closing, process, counters
    <2>3. \A k \in DOMAIN outbox : outbox[k].c \in Calls \cup {Untracked}
      BY DEF WireTyped, Events, EventType, ListType
    <2>4. \A d \in Calls : call'[d].at \in {"unused", "inserted"} => Fresh(d)
      BY <1>3, <2>1 DEF Fresh
    <2>5. Answering'
      BY <1>3, <2>3, <2>4 DEF Answering, Fresh, daemon, data, wire
    <2>6. \A i \in DOMAIN inbox : inbox[i].c \in Calls \cup {Untracked}
      BY DEF WireTyped, CommandType
    <2>7. Tracked'
      BY <1>3, <2>1, <2>6 DEF Tracked, Fresh, Answered, DaemonTyped, daemon, data, wire
    <2>8. Told' /\ Waiting'
      BY <1>3, <2>0, <2>1 DEF Told, Waiting, Connection, daemon, data, closing
    <2> QED
      BY <2>2, <2>5, <2>7, <2>8
  <1>4. ASSUME NEW c \in Calls, TimeOut(c) PROVE BridgeInv'
    BY <1>3, <1>4 DEF TimeOut
  <1>5. ASSUME NEW c \in Calls, ShowDashboard(c) PROVE BridgeInv'
    <2>1. PICK at \in {"shown", "stale"} : call' = Set(c, at)
      BY <1>5 DEF ShowDashboard
    <2> QED
      BY <1>3, <1>5, <2>1 DEF ShowDashboard
  <1> QED
    BY <1>1, <1>2, <1>4, <1>5 DEF CallSteps

-----------------------------------------------------------------------------
(* The supervisor.                                                         *)

(* A new connection asks for everything.                                   *)
LEMMA ConnectKeeps ==
  ASSUME BridgeInv, Connect
  PROVE  BridgeInv'
  <1> USE DEF BridgeInv, BridgeTyped
  <1>1. /\ inbox' = Questions /\ outbox' = <<>> /\ supervisor' = "live"
        /\ supervisor \in {"connect", "retry"} /\ cache' = [cache EXCEPT !.connected = TRUE]
        /\ UNCHANGED <<data, run, sampled, follow, pending, call, closing, process>>
    BY DEF Connect
  <1>2. /\ Questions \in Seq(CommandType) /\ \A i \in DOMAIN Questions : Questions[i].c = Untracked
        /\ 2 \in DOMAIN Questions /\ Questions[2].kind = "profiles"
    BY AskTyped DEF Questions, QuestionKinds, SomeProfile
  <1>3. WireTyped'
    BY <1>1, <1>2 DEF WireTyped
  <1>4. ShellTyped' /\ cache'.history = cache.history /\ cache'.selected = cache.selected
    BY <1>1 DEF ShellTyped, CacheType
  <1>5. DaemonTyped' /\ ProcessTyped' /\ Handles' /\ Told' /\ Waiting'
    BY <1>1 DEF DaemonTyped, ProcessTyped, Handles, Told, Waiting, Connection, data, process,
       closing
  <1>6. Tracked' /\ Answering'
    BY <1>1, <1>2 DEF Tracked, Answering, Fresh, data
  <1>7. Synchronized'
    BY <1>1, <1>2, <1>4 DEF Synchronized, Synchronizing
  <1> QED
    BY <1>3, <1>4, <1>5, <1>6, <1>7

(* Questions of the supervisor's, or of the shutdown's.                     *)
LEMMA QuestionKeeps ==
  ASSUME BridgeInv, NEW questions \in Seq(CommandType), Send(questions),
         \A j \in DOMAIN questions : questions[j].c = Untracked,
         UNCHANGED <<daemon, outbox, sender, pending, cache, call, process, counters>>,
         UNCHANGED follow \/ (follow' = <<>> /\ questions = follow),
         Connection' => Connection, Waiting', Handles'
  PROVE  BridgeInv'
  <1>1. DaemonTyped /\ WireTyped /\ ShellTyped /\ ProcessTyped /\ Told
    BY DEF BridgeInv, BridgeTyped
  <1>2. MovesOn
    BY DEF MovesOn
  <1>3. inbox' \in Seq(CommandType) /\ Tracked' /\ Answering'
    BY <1>2, AskingKeeps DEF daemon, data
  <1>4. Synchronized'
    BY AskingInforms DEF daemon, data, counters
  <1>5. DaemonTyped' /\ WireTyped' /\ ProcessTyped' /\ Told'
    BY <1>1, <1>3 DEF DaemonTyped, WireTyped, ProcessTyped, Told, daemon, data, process
  <1>6. follow' \in Seq(CommandType) /\ \A j \in DOMAIN follow' : follow'[j].c = Untracked
    <2>1. CASE UNCHANGED follow
      BY <1>1, <2>1 DEF ShellTyped
    <2>2. CASE follow' = <<>>
      BY <2>2
    <2> QED
      BY <2>1, <2>2
  <1>7. ShellTyped'
    BY <1>1, <1>6 DEF ShellTyped
  <1> QED
    BY <1>3, <1>4, <1>5, <1>7 DEF BridgeInv, BridgeTyped

(* What the supervisor waited to send is sent, or given up.                *)
LEMMA AskNowKeeps ==
  ASSUME BridgeInv, AskNow
  PROVE  BridgeInv'
  <1>1. Waiting /\ Handles /\ ShellTyped
    BY DEF BridgeInv, BridgeTyped
  <1>2. /\ supervisor \in {"asking", "refreshing"} /\ supervisor' \in {"teardown", "live"}
        /\ Send(follow) /\ follow' = <<>>
        /\ UNCHANGED <<daemon, outbox, sender, pending, cache, call, closing, process, counters>>
    BY DEF AskNow
  <1>3. Waiting' /\ Handles' /\ (Connection' => Connection)
    BY <1>1, <1>2 DEF Waiting, Handles, Connection, closing, process
  <1>4. follow \in Seq(CommandType) /\ \A j \in DOMAIN follow : follow[j].c = Untracked
    BY <1>1 DEF ShellTyped
  <1> QED
    BY <1>2, <1>3, <1>4, QuestionKeeps

(* What cannot be sent is held.                                            *)
LEMMA HoldingKeeps ==
  ASSUME BridgeInv, supervisor = "live", UNCHANGED inbox, follow' \in Seq(CommandType),
         \A j \in DOMAIN follow' : follow'[j].c = Untracked,
         UNCHANGED <<daemon, outbox, sender, pending, cache, call, process, counters>>,
         Waiting', Handles'
  PROVE  BridgeInv'
  <1> USE DEF BridgeInv, BridgeTyped
  <1>1. DaemonTyped' /\ WireTyped' /\ ShellTyped' /\ ProcessTyped' /\ Told'
    BY DEF DaemonTyped, WireTyped, ShellTyped, ProcessTyped, Told, daemon, data, process
  <1>2. Tracked' /\ Answering'
    BY DEF Tracked, Answering, Fresh, daemon, data
  <1>3. follow = <<>>
    BY DEF Waiting
  <1>4. Synchronized'
    BY <1>3 DEF Synchronized, Synchronizing, Connection, Lists, Current, daemon, data, counters
  <1> QED
    BY <1>1, <1>2, <1>4

(* The supervisor connects, gives up, starts a daemon, waits, sends what it *)
(* could not, and takes a lost connection down.                            *)
LEMMA SupervisorKeeps ==
  ASSUME BridgeInv, Supervisor
  PROVE  BridgeInv'
  <1> USE DEF BridgeInv, BridgeTyped
  <1>1. CASE Connect
    BY <1>1, ConnectKeeps
  <1>2. CASE TryConnectFails \/ RetryFails
    <2> USE <1>2 DEF TryConnectFails, RetryFails, daemon, closing, process, counters, link
    <2>1. ProcessTyped' /\ Handles' /\ Waiting'
      BY DEF ProcessTyped, Handles, Waiting, Connection
    <2> QED
      BY <2>1, AsideKeeps DEF Connection
  <1>3. CASE Delay
    <2> USE <1>3 DEF Delay, daemon, closing, process, counters, link
    <2>1. ProcessTyped' /\ Handles' /\ Waiting'
      BY DEF ProcessTyped, Handles, Waiting, Connection
    <2> QED
      BY <2>1, AsideKeeps DEF Connection
  <1>4. CASE EnsureOwnedDaemon
    <2> USE <1>4 DEF EnsureOwnedDaemon, daemon, closing, counters, link
    <2>1. ProcessTyped' /\ Handles' /\ Waiting'
      BY DEF ProcessTyped, Handles, Waiting, Connection, OwnedRuns, process
    <2> QED
      BY <2>1, AsideKeeps DEF Connection
  <1>5. CASE HandleEvent
    BY <1>5, HandleEventKeeps
  <1>6. CASE AskNow
    BY <1>6, AskNowKeeps
  <1>7. CASE ConnectionEnds
    BY <1>7, LeaveLoopKeeps DEF ConnectionEnds
  <1>8. CASE FailInterrupted
    <2>1. /\ FailPending /\ supervisor' = "delay" /\ supervisor = "failing"
          /\ cache' = [cache EXCEPT !.connected = FALSE]
          /\ UNCHANGED <<daemon, wire, closing, process, counters, follow, sender>>
      BY <1>8 DEF FailInterrupted, link
    <2>2. Tracked' /\ Answering' /\ Told'
      BY <2>1, FailingKeeps DEF daemon
    <2>3. /\ pending' = {} /\ call' \in [Calls -> CallType]
          /\ \A c \in Calls : call'[c].at # "waiting"
      BY <2>1, FailPendingMoves
    <2>4. ShellTyped' /\ cache'.history = cache.history /\ cache'.selected = cache.selected
      BY <2>1, <2>3 DEF ShellTyped, CacheType
    <2>5. DaemonTyped' /\ WireTyped' /\ ProcessTyped' /\ Handles'
      BY <2>1 DEF DaemonTyped, WireTyped, ProcessTyped, Handles, daemon, data, wire, process,
         closing
    <2>6. Waiting' /\ Synchronized'
      BY <2>1, <2>3, <2>4 DEF Waiting, Connection, Synchronized, closing
    <2> QED
      BY <2>2, <2>4, <2>5, <2>6
  <1> QED
    BY <1>1, <1>2, <1>3, <1>4, <1>5, <1>6, <1>7, <1>8 DEF Supervisor

-----------------------------------------------------------------------------
(* The daemon on its own, and what goes wrong.                             *)

(* A snapshot, or the end of a run, is emitted.                            *)
LEMMA ReportKeeps ==
  ASSUME BridgeInv, EmitSnapshot \/ RunSettles
  PROVE  BridgeInv'
  <1>1. /\ DaemonTyped /\ WireTyped /\ ShellTyped /\ ProcessTyped
        /\ Told /\ Waiting /\ Handles
    BY DEF BridgeInv, BridgeTyped
  <1>2. /\ run' \in {run, "Idle"} /\ sampled' \in {sampled, <<>>}
        /\ UNCHANGED <<data, open, inbox, supervisor, follow, sender, pending, cache, call, closing,
                       process, counters>>
    BY DEF EmitSnapshot, RunSettles, supervision, link
  <1>3. \E events \in Seq(Events) :
          /\ Emit(events)
          /\ \A k \in DOMAIN events : events[k].c = Untracked /\ events[k].kind # "profiles"
    <2>1. CASE EmitSnapshot
      <3>1. sampled \in Profiles \X Runs
        BY <1>1, <2>1 DEF EmitSnapshot, DaemonTyped
      <3>2. sampled[1] \in SomeProfile /\ sampled[2] \in Runs \cup {"none"}
        BY <3>1 DEF SomeProfile
      <3> DEFINE e == Event("snapshot", sampled[1], Untracked, sampled[2])
      <3>3. <<e>> \in Seq(Events) /\ e.kind = "snapshot" /\ e.c = Untracked
        BY <3>2, EventTyped DEF EventKinds
      <3>4. Emit(<<e>>)
        BY <2>1 DEF EmitSnapshot
      <3> HIDE DEF e
      <3>5. \A k \in DOMAIN <<e>> : <<e>>[k] = e
        OBVIOUS
      <3> QED
        BY <3>3, <3>4, <3>5
    <2>2. CASE RunSettles
      <3>1. Emit(StopEvents)
        BY <2>2 DEF RunSettles
      <3> QED
        BY <3>1, StopEventsTyped
    <2> QED
      BY <2>1, <2>2
  <1>4. outbox' \in Seq(Events) /\ Tracked' /\ Answering' /\ Synchronized'
    BY <1>2, <1>3, EmittingKeeps DEF counters
  <1>5. DaemonTyped' /\ ShellTyped' /\ ProcessTyped' /\ Told' /\ Waiting' /\ Handles'
    BY <1>1, <1>2 DEF DaemonTyped, Runs, ShellTyped, ProcessTyped, Told, Waiting, Connection,
       Handles, data, closing, process
  <1>6. WireTyped'
    BY <1>1, <1>2, <1>4 DEF WireTyped
  <1> QED
    BY <1>4, <1>5, <1>6 DEF BridgeInv, BridgeTyped

(* A lost event, a broken connection, a daemon that hangs or crashes.      *)
LEMMA FaultsKeep ==
  ASSUME BridgeInv, Faults
  PROVE  BridgeInv'
  <1> USE DEF BridgeInv, BridgeTyped
  <1>1. CASE LoseEvent
    <2> DEFINE none == <<>>
    <2>1. /\ outbox # <<>> /\ outbox' = Tail(outbox) /\ fresh' = FALSE
          /\ UNCHANGED <<daemon, inbox, supervisor, follow, sender, pending, cache, call, closing,
                         process>>
      BY <1>1 DEF LoseEvent, supervision, link
    <2>2. Tail(outbox) \in Seq(Events)
      BY <2>1, Popped DEF WireTyped
    <2>3. none \in Seq(CommandType) /\ DOMAIN none = {} /\ Send(none)
      BY <2>1 DEF Send, WireTyped
    <2> HIDE DEF none
    <2>4. MovesOn
      BY <2>1 DEF MovesOn
    <2>5. Tracked' /\ Answering'
      BY <2>1, <2>3, <2>4, AskingKeeps DEF daemon, data
    <2>6. DaemonTyped' /\ WireTyped' /\ ShellTyped' /\ ProcessTyped' /\ Told' /\ Waiting' /\ Handles'
      BY <2>1, <2>2 DEF DaemonTyped, WireTyped, ShellTyped, ProcessTyped, Told, Waiting,
         Connection, Handles, daemon, data, closing, process
    <2>7. Synchronized'
      BY <2>1 DEF Synchronized
    <2> QED
      BY <2>5, <2>6, <2>7
  <1>2. CASE DropClient
    <2> USE <1>2 DEF DropClient, Hangup, process, closing, supervision, link
    <2>1. ProcessTyped' /\ Handles' /\ Waiting'
      BY DEF ProcessTyped, Handles, Waiting, Connection
    <2>2. Told' /\ ShellTyped' /\ run' \in Runs
      BY DEF Told, ShellTyped, DaemonTyped, data
    <2> QED
      BY <2>1, <2>2, ClosingKeeps
  <1>3. CASE DaemonHangs
    <2> USE <1>3 DEF DaemonHangs, process, closing, supervision, link
    <2>1. ProcessTyped' /\ Handles' /\ Waiting'
      BY DEF ProcessTyped, Handles, Waiting, Connection
    <2> QED
      BY <2>1, AsideKeeps DEF Connection
  <1>4. CASE DaemonCrashes
    <2> USE <1>4 DEF DaemonCrashes, Hangup, closing, supervision, link
    <2>1. ProcessTyped' /\ Handles' /\ Waiting'
      BY DEF ProcessTyped, Handles, Waiting, Connection, Exits
    <2>2. Told' /\ ShellTyped' /\ run' \in Runs
      BY DEF Told, ShellTyped, Runs, data
    <2> QED
      BY <2>1, <2>2, ClosingKeeps
  <1> QED
    BY <1>1, <1>2, <1>3, <1>4 DEF Faults

(* A daemon binds the pipe, or exits.                                      *)
LEMMA BindPipeKeeps ==
  ASSUME BridgeInv, NEW k \in Kids, BindPipe(k)
  PROVE  BridgeInv'
  <1> USE DEF BridgeInv, BridgeTyped
  <1>1. ProcessTyped' /\ Handles' /\ Waiting'
    BY DEF BindPipe, Exits, closing, ProcessTyped, Handles, Waiting, Connection, supervision, link
  <1> QED
    BY <1>1, AsideKeeps DEF BindPipe, counters, Connection, supervision, link

-----------------------------------------------------------------------------
(* The end of the shell.                                                   *)

(* A write that has to wait keeps the lock, and nothing else.              *)
LEMMA WaitForRoomKeeps ==
  ASSUME BridgeInv, WaitForRoom
  PROVE  BridgeInv'
  <1> USE DEF BridgeInv, BridgeTyped, WaitForRoom, daemon, supervision, closing, process, counters
  <1>1. ProcessTyped' /\ Handles' /\ Waiting'
    BY DEF ProcessTyped, Handles, Waiting, Connection
  <1> QED
    BY <1>1, AsideKeeps DEF Connection

(* The refresh that comes round: it is sent, waits, or has nobody to ask.  *)
LEMMA RefreshTickKeeps ==
  ASSUME BridgeInv, RefreshTick
  PROVE  BridgeInv'
  <1>1. /\ Waiting /\ Handles /\ ProcessTyped /\ ShellTyped /\ supervisor = "live"
    BY DEF BridgeInv, BridgeTyped, RefreshTick
  <1>2. CASE LeaveLoop /\ UNCHANGED <<follow, pending, cache, call, closing>>
    BY <1>1, <1>2, LeaveLoopKeeps
  <1>3. CASE SendOrAsk(Refresh, "refreshing")
             /\ UNCHANGED <<daemon, outbox, link, pending, cache, call, closing, process, counters>>
    <2>1. Refresh \in Seq(CommandType) /\ \A j \in DOMAIN Refresh : Refresh[j].c = Untracked
      BY <1>1, AskTyped DEF Refresh, QuestionKinds, ShellTyped, CacheType
    <2>2. UNCHANGED <<supervisor, follow>> \/ (supervisor' = "refreshing" /\ follow' = Refresh)
      BY <1>3 DEF SendOrAsk
    <2>3. Waiting' /\ Handles' /\ (Connection' => Connection)
      BY <1>1, <1>3, <2>2 DEF Waiting, Handles, Connection, closing, process, link
    <2>4. CASE Send(Refresh) /\ UNCHANGED follow
      BY <1>3, <2>1, <2>3, <2>4, QuestionKeeps DEF link
    <2>5. CASE UNCHANGED inbox /\ follow' = Refresh
      BY <1>1, <1>3, <2>1, <2>3, <2>5, HoldingKeeps DEF link
    <2> QED
      BY <1>3, <2>4, <2>5 DEF SendOrAsk
  <1> QED
    BY <1>2, <1>3 DEF RefreshTick

(* The shutdown asks the daemon to stop ...                                *)
LEMMA RequestKeeps ==
  ASSUME BridgeInv, NEW ask, Request(ask), shutdown \in {"no", "graceful", "emergency"},
         UNCHANGED <<daemon, outbox, supervision, sender, pending, cache, call, process, counters>>
  PROVE  BridgeInv'
  <1>1. shutdown' \in {"await", "close"} /\ UNCHANGED <<supervisor, follow>>
    BY DEF Request, CancelSupervisor, supervision
  <1>2. PICK kind \in {"shutdown", "stop"} : Send(<<Ask(kind, NoProfile)>>)
    BY DEF Request
  <1> DEFINE asked == <<Ask(kind, NoProfile)>>
  <1>3. asked \in Seq(CommandType) /\ \A j \in DOMAIN asked : asked[j].c = Untracked
    BY AskTyped DEF SomeProfile, QuestionKinds
  <1> HIDE DEF asked
  <1>4. Waiting' /\ Handles' /\ (Connection' => Connection)
    BY <1>1 DEF BridgeInv, Waiting, Connection, Handles, process
  <1>5. Send(asked)
    BY <1>2 DEF asked
  <1> QED
    BY <1>1, <1>3, <1>4, <1>5, QuestionKeeps

(* ... at once, or when there is room.                                     *)
LEMMA RequestShutdownKeeps ==
  ASSUME BridgeInv, RequestShutdown
  PROVE  BridgeInv'
  <1>1. /\ shutdown = "no"
        /\ UNCHANGED <<daemon, outbox, supervision, link, pending, cache, call, process, counters>>
    BY DEF RequestShutdown
  <1>2. CASE \E ask \in {"graceful", "emergency"} : Request(ask)
    BY <1>1, <1>2, RequestKeeps DEF link
  <1>3. CASE shutdown' \in {"graceful", "emergency"} /\ UNCHANGED inbox
    <2> USE <1>1, <1>3 DEF BridgeInv, BridgeTyped, daemon, supervision, link, process, counters
    <2>1. ProcessTyped' /\ Handles' /\ Waiting'
      BY DEF ProcessTyped, Handles, Waiting, Connection
    <2> QED
      BY <2>1, AsideKeeps DEF wire, Connection
  <1> QED
    BY <1>2, <1>3 DEF RequestShutdown

(* The rest of the shutdown: a handle that is given up is of a daemon that *)
(* no longer runs.                                                         *)
LEMMA ClosingStepsKeep ==
  ASSUME BridgeInv, Closing
  PROVE  BridgeInv'
  <1> USE DEF BridgeInv, BridgeTyped
  <1>1. CASE ShutdownAwaited
    <2> USE <1>1 DEF ShutdownAwaited, CancelSupervisor, daemon, process, counters, supervision, link
    <2>1. ProcessTyped' /\ Handles' /\ Waiting'
      BY DEF ProcessTyped, Handles, Waiting, Connection
    <2> QED
      BY <2>1, AsideKeeps DEF Connection
  <1>2. CASE CloseConnection
    <2>1. /\ FailPending /\ shutdown' = "take" /\ shutdown = "close" /\ sender' = FALSE
          /\ UNCHANGED <<daemon, wire, supervisor, follow, cache, ready, process, counters>>
      BY <1>2 DEF CloseConnection, supervision
    <2>2. Tracked' /\ Answering' /\ Told'
      BY <2>1, FailingKeeps DEF daemon
    <2>3. /\ pending' = {} /\ call' \in [Calls -> CallType]
          /\ \A c \in Calls : call'[c].at # "waiting"
      BY <2>1, FailPendingMoves
    <2>4. DaemonTyped' /\ WireTyped' /\ ShellTyped' /\ ProcessTyped' /\ Handles'
      BY <2>1, <2>3 DEF DaemonTyped, WireTyped, ShellTyped, ProcessTyped, Handles, daemon, data,
         wire, process
    <2>5. Waiting' /\ Synchronized'
      BY <2>1, <2>3 DEF Waiting, Connection, Synchronized
    <2> QED
      BY <2>2, <2>4, <2>5
  <1>3. CASE TakeOwned
    <2> USE <1>3 DEF TakeOwned, daemon, counters, supervision, link
    <2>1. ProcessTyped' /\ Handles' /\ Waiting'
      BY DEF ProcessTyped, Handles, Waiting, Connection
    <2> QED
      BY <2>1, AsideKeeps DEF Connection
  <1>4. ASSUME NEW k \in Kids \cup {NoKid}, Kill(k), ProcessTyped', Handles', Waiting',
               UNCHANGED <<data, supervision, link, pending, cache, call, counters>>
        PROVE  BridgeInv'
    <2>1. CASE k # NoKid /\ k = server
      <3>1. /\ run' \in Runs /\ sampled' = <<>> /\ open' = FALSE /\ inbox' = <<>>
            /\ outbox' \in {outbox, <<>>}
        BY <1>4, <2>1 DEF Kill, Runs
      <3>2. Told' /\ ShellTyped'
        BY <1>4 DEF Told, ShellTyped, data, supervision
      <3> QED
        BY <1>4, <3>1, <3>2, ClosingKeeps
    <2>2. CASE ~(k # NoKid /\ k = server)
      <3>1. UNCHANGED <<open, wire, run, sampled>>
        BY <1>4, <2>2 DEF Kill
      <3> QED
        BY <1>4, <3>1, AsideKeeps DEF counters, supervision, link, Connection
    <2> QED
      BY <2>1, <2>2
  <1>5. CASE StopOwned
    <2>1. ProcessTyped' /\ Handles' /\ Waiting'
      BY <1>5 DEF StopOwned, StopGracefully, Kill, ProcessTyped, Handles, Waiting, Connection,
         supervision, link
    <2> QED
      BY <1>4, <1>5, <2>1 DEF StopOwned, StopGracefully, ProcessTyped
  <1>6. CASE Exit
    <2>1. ProcessTyped' /\ Handles' /\ Waiting'
      BY <1>6 DEF Exit, Kill, ProcessTyped, Handles, Waiting, Connection, supervision, link
    <2> QED
      BY <1>4, <1>6, <2>1 DEF Exit, ProcessTyped
  <1>7. CASE ShellEnds
    <2> USE <1>7 DEF ShellEnds, Hangup, process, wire
    <2>1. ProcessTyped' /\ Handles' /\ Waiting'
      BY DEF ProcessTyped, Handles, Waiting, Connection
    <2>2. Told' /\ ShellTyped' /\ run' \in Runs
      BY DEF Told, ShellTyped, DaemonTyped, data
    <2> QED
      BY <2>1, <2>2, ClosingKeeps
  <1>8. CASE SendRequest
    BY <1>8, RequestKeeps DEF SendRequest
  <1> QED
    BY <1>1, <1>2, <1>3, <1>5, <1>6, <1>7, <1>8 DEF Closing

-----------------------------------------------------------------------------
(* The invariant.                                                          *)

(* Nothing runs and nothing is asked at first.                             *)
LEMMA InitBridgeInv == BridgeInit => BridgeInv
  <1> SUFFICES ASSUME BridgeInit PROVE BridgeInv
    OBVIOUS
  <1> USE BridgeAssumption DEF BridgeAssumption, BridgeInit
  <1>1. DaemonTyped /\ ProcessTyped
    BY DEF DaemonTyped, ProcessTyped, Documents, Runs
  <1>2. WireTyped
    BY DEF WireTyped
  <1>3. NoCommand \in CommandType
    BY AskTyped DEF NoCommand, QuestionKinds, SomeProfile
  <1>4. \A c \in Calls : call[c] \in CallType /\ call[c].at = "unused"
    BY <1>3 DEF CallType, Unanswered
  <1>5. EmptyCache \in CacheType /\ EmptyCache.history = NoProfile
    BY DEF EmptyCache, CacheType, Documents, SomeProfile
  <1>6. ShellTyped
    BY <1>4, <1>5 DEF ShellTyped, CommandType
  <1>7. Tracked /\ Answering /\ Told /\ Waiting /\ Handles /\ Synchronized
    BY <1>4, <1>5 DEF Tracked, Answering, Told, Waiting, Connection, Handles,
       Synchronized, Fresh
  <1> QED
    BY <1>1, <1>2, <1>6, <1>7 DEF BridgeInv, BridgeTyped

(* Every step of the two processes keeps it.                               *)
LEMMA NextKeepsBridgeInv == BridgeInv /\ [BridgeNext]_bridgeVars => BridgeInv'
  <1> SUFFICES ASSUME BridgeInv, [BridgeNext]_bridgeVars PROVE BridgeInv'
    OBVIOUS
  <1>1. CASE Daemon
    BY <1>1, HandleCommandKeeps, ReportKeeps, BindPipeKeeps DEF Daemon
  <1>2. CASE Faults
    BY <1>2, FaultsKeep
  <1>3. CASE CallSteps
    BY <1>3, CallStepsKeep
  <1>4. CASE Supervisor
    BY <1>4, SupervisorKeeps
  <1>5. CASE RefreshTick
    BY <1>5, RefreshTickKeeps
  <1>6. CASE RequestShutdown
    BY <1>6, RequestShutdownKeeps
  <1>7. CASE Closing
    BY <1>7, ClosingStepsKeep
  <1>8. CASE WaitForRoom
    BY <1>8, WaitForRoomKeeps
  <1>9. CASE UNCHANGED bridgeVars
    <2>1. ProcessTyped' /\ Handles' /\ Waiting'
      BY <1>9 DEF BridgeInv, BridgeTyped, ProcessTyped, Handles, Waiting, Connection, bridgeVars,
         process, closing, supervision, link
    <2> QED
      BY <1>9, <2>1, AsideKeeps DEF bridgeVars, daemon, counters, supervision, link, Connection
  <1> QED
    BY <1>1, <1>2, <1>3, <1>4, <1>5, <1>6, <1>7, <1>8, <1>9 DEF BridgeNext

(* The bridge keeps its invariant, however the two processes, the faults   *)
(* and the shutdown interleave.                                            *)
THEOREM BridgeInvariant == BridgeSpec => []BridgeInv
  BY InitBridgeInv, NextKeepsBridgeInv, PTL DEF BridgeSpec

(* A caller is told the truth about its own command, and waits only for an *)
(* answer that can still come, or for the supervisor to fail it.           *)
THEOREM AnswersStayTrue == BridgeSpec => []AnswersAreTrue
  <1>1. BridgeInv => AnswersAreTrue
    BY DEF BridgeInv, Told, Waiting, AnswersAreTrue
  <1> QED
    BY <1>1, BridgeInvariant, PTL

(* When nothing is in flight and nothing was lost, the desktop's copy is   *)
(* the store.                                                              *)
THEOREM CacheConverges == BridgeSpec => []CacheIsStore
  <1>1. ASSUME BridgeInv PROVE CacheIsStore
    <2>1. Synchronized
      BY <1>1 DEF BridgeInv
    <2>2. supervisor = "live" => Connection /\ follow = <<>>
      BY <1>1 DEF BridgeInv, Waiting, Connection
    <2>3. ASSUME Synchronizing, supervisor = "live", inbox = <<>>, outbox = <<>>
          PROVE  Current(cache)
      BY <2>2, <2>3 DEF Synchronizing, Lists
    <2> QED
      BY <2>1, <2>2, <2>3 DEF Synchronized, CacheIsStore, Current
  <1> QED
    BY <1>1, BridgeInvariant, PTL

(* No daemon of the desktop's outlives the handle on it.                   *)
THEOREM OwnedAreStopped == BridgeSpec => []ExitStopsOwned
  <1>1. ASSUME BridgeInv PROVE ExitStopsOwned
    <2>1. Handles /\ NoKid \notin Kids
      BY <1>1 DEF BridgeInv, NoKid, Kids
    <2> QED
      BY <2>1 DEF Handles, ExitStopsOwned
  <1> QED
    BY <1>1, BridgeInvariant, PTL
================================================================================
