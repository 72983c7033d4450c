--------------------------- MODULE LegacyPortProofs ---------------------------
(***************************************************************************)
(* Which client a recovery may terminate and a script may run against, for *)
(* any number of processes that come, go and reuse each other's ids.       *)
(***************************************************************************)
EXTENDS LegacyPort, TLAPS

Adoptions == [identity : Processes, window : Processes]
Places ==
  {"idle", "list", "activated", "verify", "gates", "spawn", "poll", "status", "inspect",
   "disconnected", "terminate", "wait", "look", "adopt", "settle"}

Outcomes ==
  {"none", "Succeeded", "Failed", "NeedsAttention", "Cancelled", "NotDisconnected"}

PortTyped ==
  /\ procs \subseteq Processes /\ births \in 0..Births /\ seen \subseteq Processes
  /\ front \in Processes \cup {NoClient}
  /\ against \in Processes \cup {NoClient} /\ home \in Processes \cup {NoClient}
  /\ adopted \in Adoptions \cup {NoClient} /\ quarry \in Adoptions \cup {NoClient}
  /\ owned \subseteq Processes /\ killed \subseteq owned
  /\ callAt \in Places /\ duty \in {"preflight", "script", "recover"}
  /\ session \in BOOLEAN /\ stopped \in BOOLEAN /\ cut \in BOOLEAN /\ child \in BOOLEAN
  /\ callOutcome \in Outcomes

(* Between sessions nothing is adopted and no call is at work.             *)
Resting == ~session => adopted = NoClient /\ callAt = "idle"

(* The adoption is the client that the preflight, or a recovery, adopted.  *)
Own == adopted # NoClient /\ adopted.identity = home /\ home # NoClient

(* Where a session that is not stopped must have its own client: in and    *)
(* after every script, after a preflight, and in a recovery but from the   *)
(* moment it has terminated the client to the one it adopts another.       *)
Searching == callAt \in {"wait", "look", "adopt"}
NeedsOwn ==
  \/ duty = "script"
  \/ duty = "recover" /\ callAt # "idle" /\ ~Searching
  \/ callAt = "gates"
  \/ callAt = "idle" /\ callOutcome = "Succeeded"
KeepsOwn == session /\ ~stopped /\ NeedsOwn => Own

(* A preflight goes no further than the gates, and adopts once; only a     *)
(* recovery terminates and searches.                                       *)
Duties ==
  /\ duty = "preflight" =>
       /\ callAt \in {"idle", "list", "activated", "verify", "gates"}
       /\ callAt \in {"list", "activated", "verify"} => adopted = NoClient
  /\ callAt \in {"status", "inspect", "disconnected", "terminate", "settle"} \/ Searching =>
       duty = "recover"

(* What was adopted at any time was adopted by this session.               *)
OwnedAdoptions ==
  /\ adopted # NoClient => adopted.identity \in owned
  /\ callAt = "terminate" => quarry # NoClient /\ quarry.identity \in owned

(* Up to the spawn a call that is not stopped stands on the client that    *)
(* was approved; a child has been started on it.                           *)
Approved ==
  /\ callAt \in {"gates", "spawn"} /\ ~stopped => against = home /\ home # NoClient
  /\ child => callAt = "poll" /\ against = home /\ home # NoClient

PortInv == PortTyped /\ Resting /\ KeepsOwn /\ Duties /\ OwnedAdoptions /\ Approved

-----------------------------------------------------------------------------
(* No process is NoClient, and neither is an adoption.                     *)
LEMMA ClientsExist == NoClient \notin Processes /\ NoClient \notin Adoptions
  BY PortAssumption DEF Adoptions

(* Whoever has a process id exists, and so does every client.              *)
LEMMA Found ==
  ASSUME PortTyped
  PROVE  Clients \subseteq Processes /\ \A pid : WithPid(pid) \subseteq Processes
  BY DEF PortTyped, Clients, WithPid

(* No call is at work and nothing is adopted at the start.                 *)
LEMMA InitPortInv == PortInit => PortInv
  <1> SUFFICES ASSUME PortInit PROVE PortInv
    OBVIOUS
  <1>1. PortTyped
    <2>1. births \in 0..Births
      BY PortAssumption DEF PortAssumption, PortInit
    <2>2. callAt \in Places /\ callOutcome \in Outcomes /\ duty \in {"preflight", "script", "recover"}
      BY DEF PortInit, Places, Outcomes
    <2> QED
      BY <2>1, <2>2 DEF PortInit, PortTyped
  <1>2. Resting /\ KeepsOwn
    BY DEF PortInit, Resting, KeepsOwn
  <1>3. Duties
    BY DEF PortInit, Duties, Searching
  <1>4. OwnedAdoptions
    BY DEF PortInit, OwnedAdoptions
  <1>5. Approved
    BY DEF PortInit, Approved
  <1> QED
    BY <1>1, <1>2, <1>3, <1>4, <1>5 DEF PortInv

Returns(result) == Return(result) /\ UNCHANGED <<portWorld, portCaller, portGhosts, adopted>>

(* A call that returns leaves nothing behind; it reports a success only    *)
(* where its client has been verified.                                     *)
LEMMA ReturnKeeps ==
  ASSUME PortInv, NEW result \in Outcomes \ {"none"}, Returns(result), callAt # "idle",
         result = "Succeeded" => callAt \in {"gates", "poll"}
  PROVE  PortInv'
  <1> USE DEF Returns, Return, portWorld, portCaller, portGhosts, Places, Outcomes
  <1>1. PortTyped'
    BY ClientsExist DEF PortInv, PortTyped, OwnedAdoptions
  <1>2. Resting'
    BY ClientsExist DEF PortInv, PortTyped, Resting
  <1>3. KeepsOwn'
    BY ClientsExist DEF PortInv, PortTyped, KeepsOwn, NeedsOwn, Own, Searching, Duties, Resting,
        Approved, OwnedAdoptions
  <1>4. Duties'
    BY ClientsExist DEF PortInv, PortTyped, Searching, Duties, Resting, KeepsOwn, NeedsOwn, Own
  <1>5. OwnedAdoptions'
    BY ClientsExist DEF PortInv, PortTyped, OwnedAdoptions, Resting
  <1>6. Approved'
    BY ClientsExist DEF PortInv, PortTyped, Approved, Duties, KeepsOwn, NeedsOwn, Own, Searching,
        Resting
  <1> QED
    BY <1>1, <1>2, <1>3, <1>4, <1>5, <1>6 DEF PortInv

(* One step per action.                                                    *)
LEMMA NextPortInv == PortInv /\ [PortNext]_portVars => PortInv'
  <1> SUFFICES ASSUME PortInv, [PortNext]_portVars PROVE PortInv'
    OBVIOUS
  <1> USE ClientsExist DEF Places, Outcomes, portWorld, portCaller, portGhosts, portCall
  <1>1. CASE ProcessStarts
    BY <1>1, Found, PortAssumption
    DEF ProcessStarts, Processes, PortInv, PortTyped, Resting, KeepsOwn, Own, NeedsOwn,
        Searching, Duties, OwnedAdoptions, Approved
  <1>2. CASE ProcessEnds
    BY <1>2, Found, PortAssumption DEF ProcessEnds, Vanish, PortInv, PortTyped, Resting, KeepsOwn,
        Own, NeedsOwn,
        Searching, Duties, OwnedAdoptions, Approved
  <1>3. CASE FrontMoves
    BY <1>3, Found, PortAssumption DEF FrontMoves, PortInv, PortTyped, Resting, KeepsOwn, Own,
        NeedsOwn,
        Searching, Duties, OwnedAdoptions, Approved
  <1>4. CASE SessionBegins
    BY <1>4, Found, PortAssumption DEF SessionBegins, PortInv, PortTyped, Resting, KeepsOwn, Own,
        NeedsOwn,
        Searching, Duties, OwnedAdoptions, Approved
  <1>5. CASE ScriptBegins
    BY <1>5, Found, PortAssumption
    DEF ScriptBegins, CallBegins, PortInv, PortTyped, Resting, KeepsOwn, Own, NeedsOwn,
        Searching, Duties, OwnedAdoptions, Approved
  <1>6. CASE RecoveryBegins
    BY <1>6, Found, PortAssumption
    DEF RecoveryBegins, CallBegins, PortInv, PortTyped, Resting, KeepsOwn, Own, NeedsOwn,
        Searching, Duties, OwnedAdoptions, Approved
  <1>7. CASE PortSessionEnds
    <2> USE <1>7 DEF PortSessionEnds
    <2>1. PortTyped'
      BY ZenonT(30) DEF PortInv, PortTyped, OwnedAdoptions
    <2>2. Resting'
      BY DEF PortInv, PortTyped, Resting
    <2>3. KeepsOwn'
      BY DEF PortInv, PortTyped, KeepsOwn, NeedsOwn, Own, Searching, Duties, Resting, Approved,
          OwnedAdoptions
    <2>4. Duties'
      BY DEF PortInv, PortTyped, Searching, Duties, Resting, KeepsOwn, NeedsOwn, Own
    <2>5. OwnedAdoptions'
      BY DEF PortInv, PortTyped, OwnedAdoptions, Resting
    <2>6. Approved'
      BY DEF PortInv, PortTyped, Approved, Duties, KeepsOwn, NeedsOwn, Own, Searching, Resting
    <2> QED
      BY <2>1, <2>2, <2>3, <2>4, <2>5, <2>6 DEF PortInv
  <1>8. CASE List
    <2> USE <1>8 DEF List
    <2>1. CASE Returns("Failed")
      BY <2>1, ReturnKeeps
    <2>2. CASE ~Returns("Failed")
      <3>1. PortTyped'
        BY <2>2, Found DEF Returns, PortInv, PortTyped, OwnedAdoptions, Return, Goes
      <3>2. Resting'
        BY <2>2, Found DEF Returns, PortInv, PortTyped, Resting, Return, Goes
      <3>3. KeepsOwn'
        BY <2>2, Found DEF Returns, PortInv, PortTyped, KeepsOwn, NeedsOwn, Own, Searching, Duties,
            Resting, Approved, OwnedAdoptions, Return, Goes
      <3>4. Duties'
        BY <2>2, Found DEF Returns, PortInv, PortTyped, Searching, Duties, Resting, KeepsOwn,
            NeedsOwn,
            Own, Return, Goes
      <3>5. OwnedAdoptions'
        BY <2>2, Found DEF Returns, PortInv, PortTyped, OwnedAdoptions, Resting, Return, Goes
      <3>6. Approved'
        BY <2>2, Found DEF Returns, PortInv, PortTyped, Approved, Duties, KeepsOwn, NeedsOwn, Own,
            Searching, Resting, Return, Goes
      <3> QED
        BY <3>1, <3>2, <3>3, <3>4, <3>5, <3>6 DEF PortInv
    <2> QED
      BY <2>1, <2>2
  <1>9. CASE Verify
    <2> USE <1>9 DEF Verify
    <2>1. CASE Returns("Failed")
      BY <2>1, ReturnKeeps
    <2>2. CASE ~Returns("Failed")
      <3>1. PortTyped'
        BY <2>2, Found DEF Returns, PortInv, PortTyped, OwnedAdoptions, Return, MatchesAdoption,
            Adoption,
            Adoptions
      <3>2. Resting'
        BY <2>2, Found DEF Returns, PortInv, PortTyped, Resting, Return, MatchesAdoption,
            Adoption, Adoptions
      <3>3. KeepsOwn'
        BY <2>2, Found DEF Returns, PortInv, PortTyped, KeepsOwn, NeedsOwn, Own, Searching, Duties,
            Resting, Approved, OwnedAdoptions, Return, MatchesAdoption, Adoption, Adoptions
      <3>4. Duties'
        BY <2>2, Found DEF Returns, PortInv, PortTyped, Searching, Duties, Resting, KeepsOwn,
            NeedsOwn,
            Own, Return, MatchesAdoption, Adoption, Adoptions
      <3>5. OwnedAdoptions'
        BY <2>2, Found DEF Returns, PortInv, PortTyped, OwnedAdoptions, Resting, Return,
            MatchesAdoption,
            Adoption, Adoptions
      <3>6. Approved'
        BY <2>2, Found DEF Returns, PortInv, PortTyped, Approved, Duties, KeepsOwn, NeedsOwn, Own,
            Searching, Resting, Return, MatchesAdoption, Adoption, Adoptions
      <3> QED
        BY <3>1, <3>2, <3>3, <3>4, <3>5, <3>6 DEF PortInv
    <2> QED
      BY <2>1, <2>2
  <1>10. CASE Gates
    <2> USE <1>10 DEF Gates
    <2>1. CASE Returns("Failed")
      BY <2>1, ReturnKeeps
    <2>2. CASE Returns("Succeeded")
      BY <2>2, ReturnKeeps
    <2>3. CASE ~Returns("Failed") /\ ~Returns("Succeeded")
      <3>1. PortTyped'
        BY <2>3, Found DEF Returns, PortInv, PortTyped, OwnedAdoptions, Return, Goes
      <3>2. Resting'
        BY <2>3, Found DEF Returns, PortInv, PortTyped, Resting, Return, Goes
      <3>3. KeepsOwn'
        BY <2>3, Found DEF Returns, PortInv, PortTyped, KeepsOwn, NeedsOwn, Own, Searching, Duties,
            Resting, Approved, OwnedAdoptions, Return, Goes
      <3>4. Duties'
        BY <2>3, Found DEF Returns, PortInv, PortTyped, Searching, Duties, Resting, KeepsOwn,
            NeedsOwn,
            Own, Return, Goes
      <3>5. OwnedAdoptions'
        BY <2>3, Found DEF Returns, PortInv, PortTyped, OwnedAdoptions, Resting, Return, Goes
      <3>6. Approved'
        BY <2>3, Found DEF Returns, PortInv, PortTyped, Approved, Duties, KeepsOwn, NeedsOwn, Own,
            Searching, Resting, Return, Goes
      <3> QED
        BY <3>1, <3>2, <3>3, <3>4, <3>5, <3>6 DEF PortInv
    <2> QED
      BY <2>1, <2>2, <2>3
  <1>11. CASE Spawn
    BY <1>11, Found, PortAssumption
    DEF Spawn, Reported, SpawnCancelled, Cancelled, Return, PortInv, PortTyped, Resting, KeepsOwn, Own, NeedsOwn,
        Searching, Duties, OwnedAdoptions, Approved
  <1>12. CASE PollChild
    BY <1>12, Found, PortAssumption
    DEF PollChild, Return, Reported, PortInv, PortTyped, Resting, KeepsOwn, Own, NeedsOwn,
        Searching, Duties, OwnedAdoptions, Approved
  <1>13. CASE Status
    BY ZenonT(30), <1>13, Found, PortAssumption
    DEF Status, Return, Goes, PortInv, PortTyped, Resting, KeepsOwn, Own, NeedsOwn,
        Searching, Duties, OwnedAdoptions, Approved
  <1>14. CASE Inspect
    <2> USE <1>14 DEF Inspect
    <2>1. CASE Returns("NeedsAttention")
      BY <2>1, ReturnKeeps
    <2>2. CASE Returns("NotDisconnected")
      BY <2>2, ReturnKeeps
    <2>3. CASE ~Returns("NeedsAttention") /\ ~Returns("NotDisconnected")
      <3>1. PortTyped'
        BY <2>3, Found DEF Returns, PortInv, PortTyped, OwnedAdoptions, Return, Goes
      <3>2. Resting'
        BY <2>3, Found DEF Returns, PortInv, PortTyped, Resting, Return, Goes
      <3>3. KeepsOwn'
        BY <2>3, Found DEF Returns, PortInv, PortTyped, KeepsOwn, NeedsOwn, Own, Searching, Duties,
            Resting, Approved, OwnedAdoptions, Return, Goes
      <3>4. Duties'
        BY <2>3, Found DEF Returns, PortInv, PortTyped, Searching, Duties, Resting, KeepsOwn,
            NeedsOwn,
            Own, Return, Goes
      <3>5. OwnedAdoptions'
        BY <2>3, Found DEF Returns, PortInv, PortTyped, OwnedAdoptions, Resting, Return, Goes
      <3>6. Approved'
        BY <2>3, Found DEF Returns, PortInv, PortTyped, Approved, Duties, KeepsOwn, NeedsOwn, Own,
            Searching, Resting, Return, Goes
      <3> QED
        BY <3>1, <3>2, <3>3, <3>4, <3>5, <3>6 DEF PortInv
    <2> QED
      BY <2>1, <2>2, <2>3
  <1>15. CASE Disconnected
    <2> USE <1>15 DEF Disconnected
    <2>1. CASE Returns("NeedsAttention")
      BY <2>1, ReturnKeeps
    <2>2. CASE Returns("Failed")
      BY <2>2, ReturnKeeps
    <2>3. CASE ~Returns("NeedsAttention") /\ ~Returns("Failed")
      <3>1. PortTyped'
        BY <2>3, Found DEF Returns, PortInv, PortTyped, OwnedAdoptions, Return, Adoptions
      <3>2. Resting'
        BY <2>3, Found DEF Returns, PortInv, PortTyped, Resting, Return, Adoptions
      <3>3. KeepsOwn'
        BY <2>3, Found DEF Returns, PortInv, PortTyped, KeepsOwn, NeedsOwn, Own, Searching, Duties,
            Resting, Approved, OwnedAdoptions, Return, Adoptions
      <3>4. Duties'
        BY <2>3, Found DEF Returns, PortInv, PortTyped, Searching, Duties, Resting, KeepsOwn,
            NeedsOwn,
            Own, Return, Adoptions
      <3>5. OwnedAdoptions'
        BY <2>3, Found DEF Returns, PortInv, PortTyped, OwnedAdoptions, Resting, Return, Adoptions
      <3>6. Approved'
        BY <2>3, Found DEF Returns, PortInv, PortTyped, Approved, Duties, KeepsOwn, NeedsOwn, Own,
            Searching, Resting, Return, Adoptions
      <3> QED
        BY <3>1, <3>2, <3>3, <3>4, <3>5, <3>6 DEF PortInv
    <2> QED
      BY <2>1, <2>2, <2>3
  <1>16. CASE Terminate
    <2> USE <1>16 DEF Terminate
    <2>1. CASE Returns("Failed")
      BY <2>1, ReturnKeeps
    <2>2. CASE ~Returns("Failed")
      <3>1. PortTyped'
        BY <2>2, Found DEF Returns, PortInv, PortTyped, OwnedAdoptions, Return, Goes, Vanish,
            ExactlyQuarry
      <3>2. Resting'
        BY <2>2, Found DEF Returns, PortInv, PortTyped, Resting, Return, Goes, Vanish, ExactlyQuarry
      <3>3. KeepsOwn'
        BY <2>2, Found DEF Returns, PortInv, PortTyped, KeepsOwn, NeedsOwn, Own, Searching, Duties,
            Resting, Approved, OwnedAdoptions, Return, Goes, Vanish, ExactlyQuarry
      <3>4. Duties'
        BY <2>2, Found DEF Returns, PortInv, PortTyped, Searching, Duties, Resting, KeepsOwn,
            NeedsOwn,
            Own, Return, Goes, Vanish, ExactlyQuarry
      <3>5. OwnedAdoptions'
        BY <2>2, Found DEF Returns, PortInv, PortTyped, OwnedAdoptions, Resting, Return, Goes,
            Vanish,
            ExactlyQuarry
      <3>6. Approved'
        BY <2>2, Found DEF Returns, PortInv, PortTyped, Approved, Duties, KeepsOwn, NeedsOwn, Own,
            Searching, Resting, Return, Goes, Vanish, ExactlyQuarry
      <3> QED
        BY <3>1, <3>2, <3>3, <3>4, <3>5, <3>6 DEF PortInv
    <2> QED
      BY <2>1, <2>2
  <1>17. CASE AwaitClient
    BY ZenonT(30), <1>17, Found, PortAssumption
    DEF AwaitClient, Return, Goes, PortInv, PortTyped, Resting, KeepsOwn, Own, NeedsOwn,
        Searching, Duties, OwnedAdoptions, Approved
  <1>18. CASE LookForClient
    <2> USE <1>18 DEF LookForClient
    <2>1. CASE Returns("Failed")
      BY <2>1, ReturnKeeps
    <2>2. CASE ~Returns("Failed")
      <3>1. PortTyped'
        BY <2>2, Found DEF Returns, PortInv, PortTyped, OwnedAdoptions, Return, Goes
      <3>2. Resting'
        BY <2>2, Found DEF Returns, PortInv, PortTyped, Resting, Return, Goes
      <3>3. KeepsOwn'
        BY <2>2, Found DEF Returns, PortInv, PortTyped, KeepsOwn, NeedsOwn, Own, Searching, Duties,
            Resting, Approved, OwnedAdoptions, Return, Goes
      <3>4. Duties'
        BY <2>2, Found DEF Returns, PortInv, PortTyped, Searching, Duties, Resting, KeepsOwn,
            NeedsOwn,
            Own, Return, Goes
      <3>5. OwnedAdoptions'
        BY <2>2, Found DEF Returns, PortInv, PortTyped, OwnedAdoptions, Resting, Return, Goes
      <3>6. Approved'
        BY <2>2, Found DEF Returns, PortInv, PortTyped, Approved, Duties, KeepsOwn, NeedsOwn, Own,
            Searching, Resting, Return, Goes
      <3> QED
        BY <3>1, <3>2, <3>3, <3>4, <3>5, <3>6 DEF PortInv
    <2> QED
      BY <2>1, <2>2
  <1>19. CASE Adopt
    <2> USE <1>19 DEF Adopt
    <2>1. CASE Returns("Failed")
      BY <2>1, ReturnKeeps
    <2>2. CASE ~Returns("Failed")
      <3>1. PortTyped'
        BY <2>2, Found DEF Returns, PortInv, PortTyped, OwnedAdoptions, Return, Goes, Adoption,
            Adoptions
      <3>2. Resting'
        BY <2>2, Found DEF Returns, PortInv, PortTyped, Resting, Return, Goes, Adoption, Adoptions
      <3>3. KeepsOwn'
        BY <2>2, Found DEF Returns, PortInv, PortTyped, KeepsOwn, NeedsOwn, Own, Searching, Duties,
            Resting, Approved, OwnedAdoptions, Return, Goes, Adoption, Adoptions
      <3>4. Duties'
        BY <2>2, Found DEF Returns, PortInv, PortTyped, Searching, Duties, Resting, KeepsOwn,
            NeedsOwn,
            Own, Return, Goes, Adoption, Adoptions
      <3>5. OwnedAdoptions'
        BY <2>2, Found DEF Returns, PortInv, PortTyped, OwnedAdoptions, Resting, Return, Goes,
            Adoption,
            Adoptions
      <3>6. Approved'
        BY <2>2, Found DEF Returns, PortInv, PortTyped, Approved, Duties, KeepsOwn, NeedsOwn, Own,
            Searching, Resting, Return, Goes, Adoption, Adoptions
      <3> QED
        BY <3>1, <3>2, <3>3, <3>4, <3>5, <3>6 DEF PortInv
    <2> QED
      BY <2>1, <2>2
  <1>20. CASE Settle
    <2> USE <1>20 DEF Settle
    <2>1. CASE Returns("Failed")
      BY <2>1, ReturnKeeps
    <2>2. CASE ~Returns("Failed")
      <3>1. PortTyped'
        BY <2>2, Found DEF Returns, PortInv, PortTyped, OwnedAdoptions, Return, Goes
      <3>2. Resting'
        BY <2>2, Found DEF Returns, PortInv, PortTyped, Resting, Return, Goes
      <3>3. KeepsOwn'
        BY <2>2, Found DEF Returns, PortInv, PortTyped, KeepsOwn, NeedsOwn, Own, Searching, Duties,
            Resting, Approved, OwnedAdoptions, Return, Goes
      <3>4. Duties'
        BY <2>2, Found DEF Returns, PortInv, PortTyped, Searching, Duties, Resting, KeepsOwn,
            NeedsOwn,
            Own, Return, Goes
      <3>5. OwnedAdoptions'
        BY <2>2, Found DEF Returns, PortInv, PortTyped, OwnedAdoptions, Resting, Return, Goes
      <3>6. Approved'
        BY <2>2, Found DEF Returns, PortInv, PortTyped, Approved, Duties, KeepsOwn, NeedsOwn, Own,
            Searching, Resting, Return, Goes
      <3> QED
        BY <3>1, <3>2, <3>3, <3>4, <3>5, <3>6 DEF PortInv
    <2> QED
      BY <2>1, <2>2
  <1>21. CASE DropCall
    BY <1>21, Found, PortAssumption
    DEF DropCall, DropsChild, PortInv, PortTyped, Resting, KeepsOwn, Own, NeedsOwn,
        Searching, Duties, OwnedAdoptions, Approved
  <1>22. CASE Stop
    BY <1>22, Found, PortAssumption DEF Stop, PortInv, PortTyped, Resting, KeepsOwn, Own, NeedsOwn,
        Searching, Duties, OwnedAdoptions, Approved
  <1>23. CASE PortCancel
    BY <1>23, Found, PortAssumption DEF PortCancel, PortInv, PortTyped, Resting, KeepsOwn, Own,
        NeedsOwn,
        Searching, Duties, OwnedAdoptions, Approved
  <1>24. CASE Deadline
    BY <1>24, Found, PortAssumption DEF Deadline, PortInv, PortTyped, Resting, KeepsOwn, Own,
        NeedsOwn,
        Searching, Duties, OwnedAdoptions, Approved
  <1>25. CASE UNCHANGED portVars
    BY <1>25 DEF portVars, PortInv, PortTyped, Resting, KeepsOwn, Own, NeedsOwn,
        Searching, Duties, OwnedAdoptions, Approved
  <1> QED
    BY <1>1, <1>2, <1>3, <1>4, <1>5, <1>6, <1>7, <1>8, <1>9, <1>10, <1>11, <1>12, <1>13, <1>14,
        <1>15, <1>16, <1>17, <1>18, <1>19, <1>20, <1>21, <1>22, <1>23, <1>24, <1>25 DEF PortNext,
        PortCallStep

(* Where the session's own client stands at every step of every call.      *)
THEOREM PortInvariant == PortSpec => []PortInv
  BY InitPortInv, NextPortInv, PTL DEF PortSpec

(* Only what the session adopted is terminated, and a script runs only     *)
(* against the client that the preflight or a recovery adopted.            *)
THEOREM OnlyAdopted == PortSpec => []OnlyTheAdoptedClient
  <1>1. PortInv => OnlyTheAdoptedClient
    BY DEF PortInv, PortTyped, Approved, OnlyTheAdoptedClient
  <1> QED
    BY PortInvariant, <1>1, PTL
=============================================================================
