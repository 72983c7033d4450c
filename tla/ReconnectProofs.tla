--------------------------- MODULE ReconnectProofs ---------------------------
(***************************************************************************)
(* Two results about connections.  The bounds of a reconnect, for every    *)
(* policy: any request for attempts, any delays and any deadline; its      *)
(* strengthening says what the clock and the counters are at every stage.  *)
(* And the order of the frames on the pipe of the daemon, for frames of    *)
(* any sizes, a pipe and a ring of any capacity, and any number of         *)
(* connections; its strengthening says what the pieces on their way are:   *)
(* the rest of the frame that is read, whole frames, and a beginning.      *)
(***************************************************************************)
EXTENDS Reconnect, PipeLink, SequenceTheorems, FiniteSetTheorems, TLAPS

-----------------------------------------------------------------------------
(* The reconnect of the session.                                           *)

Stages == {"begin", "delay", "ready", "attempt"} \cup Results
BeforeAttempt == {"begin", "delay", "ready"}

ReconnectTyped ==
  /\ stage \in Stages
  /\ elapsed \in Nat /\ number \in 1..MaximumAttempts /\ completed \in Nat
  /\ remaining \in Int /\ due \in Nat /\ cutoff \in Int
  /\ given \in BOOLEAN /\ begun \in Nat /\ late \in 0..1

Timed == stage \in {"delay", "attempt"} => cutoff = Deadline /\ elapsed <= Deadline
Counted ==
  /\ stage \in BeforeAttempt => begun = number - 1 /\ completed = number - 1
  /\ stage = "attempt" => begun = number /\ completed = number - 1
  /\ begun \in {number - 1, number}
LateIsGiven ==
  /\ late = 1 => given
  /\ stage \in {"delay", "ready"} => late = 0
ReconnectInv == ReconnectTyped /\ Timed /\ Counted /\ LateIsGiven /\ CountsTrue

(* The clamp of ReconnectPolicy::new.                                      *)
LEMMA MaximumClamped == MaximumAttempts \in 1..5
BY ReconnectAssumption DEF MaximumAttempts, Ceiling

(* Whatever the delays are, there is one for each attempt.                 *)
LEMMA DelayTyped == \A k \in Nat \ {0} : Delay(k) \in Nat
BY ReconnectAssumption DEF Delay

(* The first attempt has not begun at the start.                           *)
LEMMA ReconnectInitInv == ReconnectInit => ReconnectInv
<1> SUFFICES ASSUME ReconnectInit PROVE ReconnectInv
  OBVIOUS
<1>1. ReconnectTyped
  <2>1. given \in BOOLEAN
    BY DEF ReconnectInit
  <2>2. stage \in Stages
    BY DEF ReconnectInit, Stages, Results
  <2>3. number \in 1..MaximumAttempts
    BY MaximumClamped DEF ReconnectInit
  <2>4. /\ elapsed \in Nat /\ completed \in Nat /\ remaining \in Int
        /\ due \in Nat /\ cutoff \in Int /\ begun \in Nat /\ late \in 0..1
    BY DEF ReconnectInit
  <2> QED
    BY <2>1, <2>2, <2>3, <2>4 DEF ReconnectTyped
<1>2. Timed /\ LateIsGiven
  BY DEF ReconnectInit, Timed, LateIsGiven
<1>3. Counted /\ CountsTrue
  BY DEF ReconnectInit, Counted, CountsTrue, BeforeAttempt
<1> QED
  BY <1>1, <1>2, <1>3 DEF ReconnectInv

(* Every step keeps the strengthening.                                     *)
LEMMA ReconnectStep == ReconnectInv /\ [ReconnectNext]_reconnectVars => ReconnectInv'
<1> SUFFICES ASSUME ReconnectInv, [ReconnectNext]_reconnectVars PROVE ReconnectInv'
  OBVIOUS
<1> USE MaximumClamped, ReconnectAssumption
        DEF ReconnectInv, ReconnectTyped, Timed, Counted, LateIsGiven, CountsTrue,
            Stages, BeforeAttempt, Results
<1>1. CASE BeginRound
  <2>1. Delay(number) \in Nat
    BY DelayTyped
  <2>2. CASE given \/ elapsed > Deadline
    BY <1>1, <2>2 DEF BeginRound, Returns
  <2>3. CASE ~given /\ ~(elapsed > Deadline)
    BY <1>1, <2>1, <2>3 DEF BeginRound
  <2> QED
    BY <2>2, <2>3
<1>2. CASE DelayEnds
  BY <1>2 DEF DelayEnds, Returns
<1>3. CASE BeginAttempt
  BY <1>3 DEF BeginAttempt, Returns, NewRemaining
<1>4. CASE AttemptEnds
  BY SMTT(20), <1>4 DEF AttemptEnds, Returns
<1>5. CASE CancelReconnect
  BY <1>5 DEF CancelReconnect
<1>6. CASE ClockTicks
  BY <1>6 DEF ClockTicks
<1>7. CASE UNCHANGED reconnectVars
  BY <1>7 DEF reconnectVars
<1> QED
  BY <1>1, <1>2, <1>3, <1>4, <1>5, <1>6, <1>7 DEF ReconnectNext

(* For every policy: no wait and no attempt is under way past the deadline,*)
(* at most five attempts begin, at most one of them after the cancellation,*)
(* and the attempts that are reported are those that came to an end.       *)
THEOREM ReconnectBounded == ReconnectSpec => []ReconnectIsBounded
<1>1. ReconnectInv => ReconnectIsBounded
  BY MaximumClamped
  DEF ReconnectInv, ReconnectTyped, Timed, Counted, LateIsGiven,
      ReconnectIsBounded, WithinDeadline, AtMostFive, OneLateAttempt, Ceiling
<1> QED
  BY ReconnectInitInv, ReconnectStep, <1>1, PTL DEF ReconnectSpec

-----------------------------------------------------------------------------
(* The pipe.                                                               *)

Pieces == [id : Nat, last : BOOLEAN, first : BOOLEAN]

LinkTyped ==
  /\ wire \in [Links -> [Ways -> Seq(Pieces)]]
  /\ clientEnd \subseteq Links /\ serverEnd \subseteq Links /\ listening \in Links
  /\ daemonAt \in {"accept", "select", "sending", "farewell", "drain", "ended"}
  /\ serving \in 0..MaxLinks /\ half \in Seq(Pieces) /\ outgoing \in Seq(Pieces)
  /\ events \in Seq(Nat \ {0}) /\ cursor \in 0..Len(events)
  /\ shellAt \in {"apart", "greet", "select", "queued", "writing", "leaving"}
  /\ joined \in 0..MaxLinks /\ halfEvent \in Seq(Pieces)
  /\ caller \in {"idle", "queued", "writing"} /\ holder \in {"none", "shell", "caller"}
  /\ pieces \in Seq(Pieces) /\ commands \in Nat
  /\ sent \in [Links -> [Ways -> Seq(Nat)]] /\ got \in [Links -> [Ways -> Seq(Nat)]]

(* Where the two ends are.                                                 *)
EndsMatch ==
  /\ daemonAt \in {"select", "sending", "farewell", "drain"} <=> serving # 0
  /\ serving # 0 => serving \in serverEnd /\ serving < listening
  /\ daemonAt \notin {"sending", "farewell"} => outgoing = <<>>
  /\ shellAt = "apart" <=> joined = 0
  /\ joined <= listening
  /\ shellAt = "apart" => holder = "none"
  /\ holder = "shell" <=> shellAt = "writing"
  /\ holder = "none" => pieces = <<>>
  /\ \A l \in serverEnd : l <= listening
  /\ daemonAt # "ended" => listening \in serverEnd

(* Nothing was sent on a link that was not served, or not there.           *)
Pending ==
  /\ \A l \in Links : l >= listening =>
       sent[l]["down"] = <<>> /\ got[l]["down"] = <<>> /\ wire[l]["down"] = <<>>
  /\ \A l \in Links : l > listening =>
       sent[l]["up"] = <<>> /\ got[l]["up"] = <<>> /\ wire[l]["up"] = <<>>

(* The identifiers on one way of a link are new ones.                      *)
Distinct(ids) == \A i, j \in DOMAIN ids : ids[i] = ids[j] => i = j
NewIds ==
  /\ \A l \in Links, way \in Ways : Distinct(sent[l][way])
  /\ \A l \in Links : \A k \in DOMAIN sent[l]["up"] : sent[l]["up"][k] <= commands
  /\ serving # 0 => \A k \in DOMAIN sent[serving]["down"] : sent[serving]["down"][k] <= cursor

(* What a read under way holds has no newline yet.                         *)
NoNewline(h) == \A k \in DOMAIN h : ~h[k].last

(* In a stream the pieces of a frame are together, the frames are those    *)
(* sent next, in their order, and nothing follows the last.                *)
Follows(ids, x, y) == \E j \in 1..(Len(ids) - 1) : ids[j] = x /\ ids[j + 1] = y
Flows(s, ids, read) ==
  /\ s # <<>> => Len(read) < Len(ids) /\ s[1].id = ids[Len(read) + 1]
  /\ \A k \in 1..(Len(s) - 1) :
       IF s[k].last THEN Follows(ids, s[k].id, s[k + 1].id) ELSE s[k + 1].id = s[k].id
Closes(s, ids, read) ==
  IF s = <<>> THEN Len(read) = Len(ids)
  ELSE s[Len(s)].last /\ ids # <<>> /\ s[Len(s)].id = ids[Len(ids)]

(* A stream: what the reader has of a frame, the pipe, and what the writer *)
(* has left of one.                                                        *)
Stream(h, w, r) == (h \o w) \o r

UpStream(l) ==
  Stream(IF l = serving THEN half ELSE <<>>, wire[l]["up"], IF l = joined THEN pieces ELSE <<>>)
DownStream(l) ==
  Stream(halfEvent, wire[l]["down"], IF l = serving THEN outgoing ELSE <<>>)

(* Every command that was begun is on its way, or read, while the daemon   *)
(* serves or awaits the link; every event is, while the desktop reads it.  *)
UpFlows ==
  /\ NoNewline(half)
  /\ \A l \in serverEnd : /\ Flows(UpStream(l), sent[l]["up"], got[l]["up"])
                          /\ Closes(UpStream(l), sent[l]["up"], got[l]["up"])
DownFlows ==
  joined # 0 /\ shellAt # "leaving" =>
    /\ NoNewline(halfEvent)
    /\ Flows(DownStream(joined), sent[joined]["down"], got[joined]["down"])
    /\ joined = serving => Closes(DownStream(joined), sent[joined]["down"], got[joined]["down"])

(* The strengthening of the order of the frames.                           *)
LinkInv ==
  LinkTyped /\ EndsMatch /\ Pending /\ NewIds /\ UpFlows /\ DownFlows /\ FramesArriveInOrder

(* A set of naturals has a least element.                                  *)
LEMMA LeastOf ==
  ASSUME NEW T \in SUBSET Nat, T # {}
  PROVE  \E n \in T : \A m \in T : n <= m
  <1> DEFINE below(n) == 1..n
             intervals == {below(n) : n \in T}
  <1>1. IsWellFoundedOn(StrictSubsetOrdering(Nat), FiniteSubsetsOf(Nat))
    BY FS_StrictSubsetOrderingWellFounded
  <1>2. intervals \subseteq FiniteSubsetsOf(Nat)
    <2> SUFFICES ASSUME NEW n \in T PROVE below(n) \in FiniteSubsetsOf(Nat)
      OBVIOUS
    <2>1. IsFiniteSet(1..n) /\ 1..n \in SUBSET Nat
      BY FS_Interval
    <2> QED
      BY <2>1 DEF FiniteSubsetsOf
  <1>3. intervals # {}
    OBVIOUS
  <1>4. PICK x \in intervals : \A y \in intervals : <<y, x>> \notin StrictSubsetOrdering(Nat)
    <2> HIDE DEF intervals
    <2> QED
      BY <1>1, <1>2, <1>3, WFMin
  <1>5. PICK n \in T : x = below(n)
    OBVIOUS
  <1>6. ASSUME NEW m \in T, m < n PROVE FALSE
    <2>1. below(m) \subseteq below(n) /\ n \in below(n) /\ n \notin below(m)
      BY <1>6
    <2>2. <<below(m), below(n)>> \in StrictSubsetOrdering(Nat)
      <3>1. below(m) \in SUBSET Nat /\ below(n) \in SUBSET Nat
        OBVIOUS
      <3> HIDE DEF below
      <3> QED
        BY <2>1, <3>1 DEF StrictSubsetOrdering
    <2> QED
      BY <1>4, <1>5, <2>2
  <1> QED
    BY <1>6

(* A function that does not change from one index to the next is constant. *)
LEMMA ConstantRun ==
  ASSUME NEW m \in Nat \ {0}, NEW f, \A k \in 1..(m - 1) : f[k + 1] = f[k]
  PROVE  f[m] = f[1]
  <1> DEFINE T == {k \in 1..m : f[k] # f[1]}
  <1> SUFFICES ASSUME m \in T PROVE FALSE
    OBVIOUS
  <1>1. T \in SUBSET Nat /\ T # {}
    OBVIOUS
  <1>2. PICK n \in T : \A j \in T : n <= j
    <2> HIDE DEF T
    <2> QED
      BY <1>1, LeastOf
  <1>3. n \in 2..m /\ n - 1 \in 1..(m - 1) /\ (n - 1) + 1 = n
    OBVIOUS
  <1>4. f[n] = f[n - 1]
    BY <1>3
  <1>5. n - 1 \notin T
    BY <1>2, <1>3
  <1> QED
    BY <1>3, <1>4, <1>5

(* A prefix, index by index.                                               *)
LEMMA PrefixIs ==
  ASSUME NEW read \in Seq(Nat), NEW ids \in Seq(Nat)
  PROVE  IsPrefix(read, ids) <=>
           Len(read) <= Len(ids) /\ \A k \in 1..Len(read) : read[k] = ids[k]
  <1>1. CASE Len(read) <= Len(ids)
    <2> DEFINE a == SubSeq(read, 1, Len(read))
               b == SubSeq(ids, 1, Len(read))
    <2>1. \A i \in 1..Len(read) : read[i] \in Nat /\ ids[i] \in Nat
      BY <1>1
    <2>2. a = read
      BY SubSeqFull
    <2>3. b \in Seq(Nat) /\ Len(b) = Len(read) /\ \A i \in 1..Len(read) : b[i] = ids[i]
      BY <1>1
    <2> HIDE DEF b
    <2>4. read = b <=> \A i \in 1..Len(read) : read[i] = b[i]
      BY <2>3, SeqEqual
    <2>5. IsPrefix(read, ids) <=> read = b
      BY <1>1, <2>2 DEF IsPrefix, b
    <2> QED
      BY <1>1, <2>3, <2>4, <2>5
  <1>2. CASE ~(Len(read) <= Len(ids))
    BY <1>2 DEF IsPrefix
  <1> QED
    BY <1>1, <1>2

(* What was read stays a prefix when another frame is begun.               *)
LEMMA LongerPrefix ==
  ASSUME NEW read \in Seq(Nat), NEW ids \in Seq(Nat), NEW id \in Nat, IsPrefix(read, ids)
  PROVE  IsPrefix(read, Append(ids, id))
  <1>1. Len(read) <= Len(ids) /\ \A k \in 1..Len(read) : read[k] = ids[k]
    BY PrefixIs
  <1>2. /\ Append(ids, id) \in Seq(Nat) /\ Len(Append(ids, id)) = Len(ids) + 1
        /\ \A k \in 1..Len(ids) : Append(ids, id)[k] = ids[k]
    BY AppendProperties
  <1> DEFINE ids2 == Append(ids, id)
  <1> HIDE DEF ids2
  <1>3. Len(read) <= Len(ids2) /\ \A k \in 1..Len(read) : read[k] = ids2[k]
    BY <1>1, <1>2 DEF ids2
  <1>4. ids2 \in Seq(Nat)
    BY <1>2 DEF ids2
  <1>5. IsPrefix(read, ids2)
    BY <1>3, <1>4, PrefixIs
  <1> QED
    BY <1>5 DEF ids2

(* What was read stays a prefix when the next frame is read.               *)
LEMMA ReadPrefix ==
  ASSUME NEW read \in Seq(Nat), NEW ids \in Seq(Nat), IsPrefix(read, ids), Len(read) < Len(ids)
  PROVE  IsPrefix(Append(read, ids[Len(read) + 1]), ids)
  <1>1. Len(read) <= Len(ids) /\ \A k \in 1..Len(read) : read[k] = ids[k]
    BY PrefixIs
  <1> DEFINE x == ids[Len(read) + 1]
  <1>2. x \in Nat
    OBVIOUS
  <1>3. /\ Append(read, x) \in Seq(Nat) /\ Len(Append(read, x)) = Len(read) + 1
        /\ \A k \in 1..Len(read) : Append(read, x)[k] = read[k]
        /\ Append(read, x)[Len(read) + 1] = x
    BY <1>2, AppendProperties
  <1> DEFINE read2 == Append(read, x)
  <1> HIDE DEF read2
  <1>4. /\ read2 \in Seq(Nat) /\ Len(read2) <= Len(ids)
        /\ \A k \in 1..Len(read2) : k \in 1..Len(read) \/ k = Len(read) + 1
    BY <1>3 DEF read2
  <1>5. \A k \in 1..Len(read2) : read2[k] = ids[k]
    BY <1>1, <1>3, <1>4 DEF read2
  <1>6. IsPrefix(read2, ids)
    BY <1>4, <1>5, PrefixIs
  <1> QED
    BY <1>6 DEF read2

-----------------------------------------------------------------------------
(* t is what is left of s after its first m pieces.                        *)
After(t, s, m) ==
  m \in 0..Len(s) /\ Len(t) = Len(s) - m /\ \A k \in 1..Len(t) : t[k] = s[m + k]

(* The pieces before the first newline are of one frame.                   *)
LEMMA SameFrame ==
  ASSUME NEW s \in Seq(Pieces), NEW ids, NEW read, Flows(s, ids, read),
         NEW m \in 1..Len(s), \A k \in 1..(m - 1) : ~s[k].last
  PROVE  s[m].id = s[1].id
  <1> DEFINE f == [k \in 1..m |-> s[k].id]
  <1>1. ASSUME NEW k \in 1..(m - 1) PROVE f[k + 1] = f[k]
    BY DEF Flows
  <1>2. f[m] = f[1]
    <2> HIDE DEF f
    <2> QED
      BY <1>1, ConstantRun
  <1> QED
    BY <1>2

(* Pieces without a newline, taken from the front, leave a stream that     *)
(* flows: the frame that lost its beginning is still the next one.         *)
LEMMA DropFlows ==
  ASSUME NEW s \in Seq(Pieces), NEW t \in Seq(Pieces), NEW m, After(t, s, m),
         NEW ids \in Seq(Nat), NEW read \in Seq(Nat), Flows(s, ids, read),
         \A k \in 1..m : ~s[k].last
  PROVE  Flows(t, ids, read) /\ (Closes(s, ids, read) => Closes(t, ids, read))
  <1>1. m \in 0..Len(s) /\ Len(t) = Len(s) - m /\ \A k \in 1..Len(t) : t[k] = s[m + k]
    BY DEF After
  <1>2. /\ Len(s) \in Nat /\ Len(t) \in Nat /\ (s # <<>> <=> Len(s) > 0)
        /\ (t # <<>> <=> Len(t) > 0)
    OBVIOUS
  <1>3. ASSUME t # <<>>
        PROVE  Len(read) < Len(ids) /\ t[1].id = ids[Len(read) + 1]
    <2>1. m + 1 \in 1..Len(s) /\ s # <<>> /\ (m + 1) - 1 = m /\ 1 \in 1..Len(t)
      BY <1>1, <1>2, <1>3
    <2>2. s[m + 1].id = s[1].id
      BY ONLY <2>1, SameFrame, s \in Seq(Pieces), Flows(s, ids, read), \A k \in 1..m : ~s[k].last
    <2>3. t[1] = s[m + 1]
      BY <1>1, <2>1
    <2> QED
      BY <2>1, <2>2, <2>3 DEF Flows
  <1>4. ASSUME NEW k \in 1..(Len(t) - 1)
        PROVE  IF t[k].last THEN Follows(ids, t[k].id, t[k + 1].id) ELSE t[k + 1].id = t[k].id
    <2>1. /\ m + k \in 1..(Len(s) - 1) /\ m + (k + 1) = (m + k) + 1
          /\ k \in 1..Len(t) /\ k + 1 \in 1..Len(t)
      BY <1>1, <1>2
    <2>2. t[k] = s[m + k] /\ t[k + 1] = s[(m + k) + 1]
      BY <1>1, <2>1
    <2> QED
      BY <2>1, <2>2 DEF Flows
  <1>5. Closes(s, ids, read) => Closes(t, ids, read)
    <2>1. CASE t # <<>>
      <3>1. m + Len(t) = Len(s) /\ Len(t) \in 1..Len(t) /\ s # <<>>
        BY <1>1, <1>2, <2>1
      <3>2. t[Len(t)] = s[Len(s)]
        BY <1>1, <3>1
      <3> QED
        BY <2>1, <3>1, <3>2 DEF Closes
    <2>2. CASE t = <<>> /\ s # <<>>
      <3>1. m = Len(s) /\ ~s[Len(s)].last
        BY <1>1, <1>2, <2>2
      <3> QED
        BY <2>2, <3>1 DEF Closes
    <2>3. CASE t = <<>> /\ s = <<>>
      BY <2>3
    <2> QED
      BY <2>1, <2>2, <2>3
  <1> QED
    BY <1>3, <1>4, <1>5 DEF Flows

(* A frame taken from the front of a stream, up to its newline, is the     *)
(* next one, and the stream behind it flows.                               *)
LEMMA ReadFlows ==
  ASSUME NEW s \in Seq(Pieces), NEW t \in Seq(Pieces), NEW m, After(t, s, m), m # 0,
         NEW ids \in Seq(Nat), NEW read \in Seq(Nat), Flows(s, ids, read), Distinct(ids),
         \A k \in 1..(m - 1) : ~s[k].last, s[m].last
  PROVE  /\ Flows(t, ids, Append(read, s[1].id))
         /\ Closes(s, ids, read) => Closes(t, ids, Append(read, s[1].id))
         /\ IsPrefix(read, ids) => IsPrefix(Append(read, s[1].id), ids)
  <1> DEFINE read2 == Append(read, s[1].id)
  <1>1. m \in 0..Len(s) /\ Len(t) = Len(s) - m /\ \A k \in 1..Len(t) : t[k] = s[m + k]
    BY DEF After
  <1>2. /\ Len(s) \in Nat /\ Len(t) \in Nat /\ (s # <<>> <=> Len(s) > 0)
        /\ (t # <<>> <=> Len(t) > 0) /\ m \in 1..Len(s)
    BY <1>1
  <1>3. s[m].id = s[1].id
    BY <1>2, SameFrame
  <1>4. Len(read) < Len(ids) /\ s[1].id = ids[Len(read) + 1]
    BY <1>2 DEF Flows
  <1>5. Len(read) \in Nat /\ Len(ids) \in Nat /\ DOMAIN ids = 1..Len(ids)
    OBVIOUS
  <1>6. s[1].id \in Nat
    BY <1>4, <1>5
  <1>7. Len(read2) = Len(read) + 1
    BY <1>6, AppendProperties
  <1>8. ASSUME t # <<>>
        PROVE  Len(read2) < Len(ids) /\ t[1].id = ids[Len(read2) + 1]
    <2>1. m \in 1..(Len(s) - 1) /\ t[1] = s[m + 1]
      BY <1>1, <1>2, <1>8
    <2>2. PICK j \in 1..(Len(ids) - 1) : ids[j] = s[m].id /\ ids[j + 1] = s[m + 1].id
      BY <2>1 DEF Flows, Follows
    <2>3. Len(read) + 1 \in DOMAIN ids /\ j \in DOMAIN ids /\ ids[j] = ids[Len(read) + 1]
      BY SMTT(20), <1>3, <1>4, <1>5, <2>2
    <2>4. j = Len(read) + 1
      BY <2>3 DEF Distinct
    <2> QED
      BY <1>5, <1>7, <2>1, <2>2, <2>4
  <1>9. ASSUME NEW k \in 1..(Len(t) - 1)
        PROVE  IF t[k].last THEN Follows(ids, t[k].id, t[k + 1].id) ELSE t[k + 1].id = t[k].id
    <2>1. /\ m + k \in 1..(Len(s) - 1) /\ m + (k + 1) = (m + k) + 1
          /\ k \in 1..Len(t) /\ k + 1 \in 1..Len(t)
      BY <1>1, <1>2
    <2>2. t[k] = s[m + k] /\ t[k + 1] = s[(m + k) + 1]
      BY <1>1, <2>1
    <2> QED
      BY <2>1, <2>2 DEF Flows
  <1>10. ASSUME Closes(s, ids, read) PROVE Closes(t, ids, read2)
    <2>1. s # <<>> /\ s[Len(s)].last /\ ids # <<>> /\ s[Len(s)].id = ids[Len(ids)]
      BY <1>2, <1>10 DEF Closes
    <2>2. CASE t # <<>>
      <3>1. m + Len(t) = Len(s) /\ Len(t) \in 1..Len(t)
        BY <1>1, <1>2, <2>2
      <3>2. t[Len(t)] = s[Len(s)]
        BY <1>1, <3>1
      <3> QED
        BY <2>1, <2>2, <3>2 DEF Closes
    <2>3. CASE t = <<>>
      <3>1. m = Len(s)
        BY <1>1, <1>2, <2>3
      <3>2. ids[Len(read) + 1] = ids[Len(ids)]
        BY <1>3, <1>4, <2>1, <3>1
      <3>3. Len(read) + 1 \in DOMAIN ids /\ Len(ids) \in DOMAIN ids
        BY <1>4, <1>5
      <3>4. Len(read) + 1 = Len(ids)
        BY <3>2, <3>3 DEF Distinct
      <3> QED
        BY <1>7, <2>3, <3>4 DEF Closes
    <2> QED
      BY <2>2, <2>3
  <1>11. IsPrefix(read, ids) => IsPrefix(read2, ids)
    BY <1>4, ReadPrefix
  <1> QED
    BY <1>8, <1>9, <1>10, <1>11 DEF Flows

(* A frame is its pieces, and the last has the newline.                    *)
LEMMA FrameTyped ==
  ASSUME NEW id \in Nat, NEW size \in Nat \ {0}
  PROVE  /\ Frame(id, size) \in Seq(Pieces) /\ Len(Frame(id, size)) = size
         /\ Frame(id, size) # <<>>
         /\ \A k \in 1..size : Frame(id, size)[k].id = id /\ (Frame(id, size)[k].last <=> k = size)
  <1>1. ASSUME NEW k \in 1..size
        PROVE  [id |-> id, last |-> k = size, first |-> k = 1] \in Pieces
    BY DEF Pieces
  <1> DEFINE f == [k \in 1..size |-> [id |-> id, last |-> k = size, first |-> k = 1]]
  <1>2. f \in Seq(Pieces) /\ DOMAIN f = 1..size
    BY <1>1
  <1>3. \A k \in 1..size : f[k].id = id /\ (f[k].last <=> k = size)
    OBVIOUS
  <1> HIDE DEF f
  <1>4. Len(f) = size /\ f # <<>>
    BY <1>2
  <1>5. f = Frame(id, size)
    BY DEF f, Frame
  <1> QED
    BY <1>2, <1>3, <1>4, <1>5

(* A frame may be begun behind a stream that ends at a newline.            *)
LEMMA BeginFlows ==
  ASSUME NEW s \in Seq(Pieces), NEW id \in Nat, NEW size \in Nat \ {0},
         NEW ids \in Seq(Nat), NEW read \in Seq(Nat), Flows(s, ids, read), Closes(s, ids, read)
  PROVE  /\ Flows(s \o Frame(id, size), Append(ids, id), read)
         /\ Closes(s \o Frame(id, size), Append(ids, id), read)
  <1> DEFINE f == Frame(id, size)
             u == s \o f
             ids2 == Append(ids, id)
  <1>1. /\ f \in Seq(Pieces) /\ Len(f) = size
        /\ \A k \in 1..size : f[k].id = id /\ (f[k].last <=> k = size)
    BY FrameTyped
  <1> HIDE DEF f
  <1>2. /\ u \in Seq(Pieces) /\ Len(u) = Len(s) + size
        /\ \A i \in 1..(Len(s) + size) : u[i] = IF i <= Len(s) THEN s[i] ELSE f[i - Len(s)]
    <2>1. f \in Seq(Pieces) /\ s \in Seq(Pieces)
      BY <1>1
    <2>2. /\ s \o f \in Seq(Pieces) /\ Len(s \o f) = Len(s) + Len(f)
          /\ \A i \in 1..(Len(s) + Len(f)) : (s \o f)[i] = IF i <= Len(s) THEN s[i] ELSE f[i - Len(s)]
      BY ONLY <2>1, ConcatProperties
    <2> QED
      BY <1>1, <2>2
  <1>3. /\ ids2 \in Seq(Nat) /\ Len(ids2) = Len(ids) + 1
        /\ \A k \in 1..Len(ids) : ids2[k] = ids[k]
        /\ ids2[Len(ids) + 1] = id
    BY AppendProperties
  <1> HIDE DEF u, ids2
  <1>4. Len(s) \in Nat /\ Len(ids) \in Nat /\ Len(read) \in Nat /\ (s # <<>> <=> Len(s) > 0)
    OBVIOUS
  <1>5. u # <<>>
    BY <1>2, <1>4
  <1>6. Len(read) < Len(ids2) /\ u[1].id = ids2[Len(read) + 1]
    <2>1. CASE s = <<>>
      <3>1. Len(read) = Len(ids) /\ u[1] = f[1]
        BY <1>2, <1>4, <2>1 DEF Closes
      <3> QED
        BY <1>1, <1>3, <1>4, <3>1
    <2>2. CASE s # <<>>
      <3>1. Len(read) < Len(ids) /\ s[1].id = ids[Len(read) + 1]
        BY <2>2 DEF Flows
      <3>2. 1 \in 1..(Len(s) + size) /\ 1 <= Len(s)
        BY <1>4, <2>2
      <3>3. u[1] = s[1]
        BY <1>2, <3>2
      <3>4. Len(read) + 1 \in 1..Len(ids)
        BY <1>4, <3>1
      <3> QED
        BY SMTT(20), <1>3, <1>4, <3>1, <3>3, <3>4
    <2> QED
      BY <2>1, <2>2
  <1>7. ASSUME NEW k \in 1..(Len(u) - 1)
        PROVE  IF u[k].last THEN Follows(ids2, u[k].id, u[k + 1].id) ELSE u[k + 1].id = u[k].id
    <2>1. CASE k < Len(s)
      <3>1. k \in 1..(Len(s) - 1) /\ u[k] = s[k] /\ u[k + 1] = s[k + 1]
        BY <1>2, <1>4, <2>1
      <3>2. IF s[k].last THEN Follows(ids, s[k].id, s[k + 1].id) ELSE s[k + 1].id = s[k].id
        BY <3>1 DEF Flows
      <3>3. ASSUME Follows(ids, s[k].id, s[k + 1].id) PROVE Follows(ids2, s[k].id, s[k + 1].id)
        <4>1. PICK j \in 1..(Len(ids) - 1) : ids[j] = s[k].id /\ ids[j + 1] = s[k + 1].id
          BY <3>3 DEF Follows
        <4>2. j \in 1..Len(ids) /\ j + 1 \in 1..Len(ids) /\ j \in 1..(Len(ids2) - 1)
          BY <1>3, <1>4
        <4>3. ids2[j] = s[k].id /\ ids2[j + 1] = s[k + 1].id
          BY <1>3, <4>1, <4>2
        <4> QED
          BY <4>2, <4>3 DEF Follows
      <3> QED
        BY <3>1, <3>2, <3>3
    <2>2. CASE k = Len(s)
      <3>0. k \in 1..(Len(s) + size) /\ k + 1 \in 1..(Len(s) + size) /\ (k + 1) - Len(s) = 1
            /\ ~(k + 1 <= Len(s)) /\ k <= Len(s) /\ s # <<>>
        BY <1>2, <1>4, <2>2
      <3>1. u[k] = s[Len(s)] /\ u[k + 1] = f[1]
        BY <1>2, <2>2, <3>0
      <3>2. s[Len(s)].last /\ Len(ids) > 0 /\ s[Len(s)].id = ids[Len(ids)]
        BY <1>4, <3>0 DEF Closes
      <3>a. Len(ids) \in 1..Len(ids) /\ 1 \in 1..size
        BY <1>4, <3>2
      <3>3. u[k].last /\ u[k].id = ids2[Len(ids)] /\ u[k + 1].id = ids2[Len(ids) + 1]
        BY <1>1, <1>3, <3>1, <3>2, <3>a
      <3>b. Len(ids) \in 1..(Len(ids2) - 1)
        BY <1>3, <1>4, <3>2
      <3>4. Follows(ids2, u[k].id, u[k + 1].id)
        BY <3>3, <3>b DEF Follows
      <3> QED
        BY <3>3, <3>4
    <2>3. CASE k > Len(s)
      <3>1. /\ k - Len(s) \in 1..(size - 1) /\ (k - Len(s)) + 1 \in 1..size
            /\ u[k] = f[k - Len(s)] /\ u[k + 1] = f[(k - Len(s)) + 1]
        BY <1>2, <1>4, <2>3
      <3> QED
        BY <1>1, <3>1
    <2> QED
      BY <1>2, <1>4, <2>1, <2>2, <2>3
  <1>8. Closes(u, ids2, read)
    <2>1. u[Len(u)] = f[size]
      BY <1>2, <1>4
    <2>2. u[Len(u)].last /\ u[Len(u)].id = id
      BY <1>1, <2>1
    <2>3. ids2 # <<>> /\ ids2[Len(ids2)] = id
      BY <1>3, <1>4
    <2> QED
      BY <1>5, <2>2, <2>3 DEF Closes
  <1> QED
    BY <1>6, <1>7, <1>8 DEF Flows, u, ids2, f

(* A stream may be cut anywhere.                                           *)
LEMMA CutFlows ==
  ASSUME NEW s \in Seq(Pieces), NEW r \in Seq(Pieces), NEW ids, NEW read,
         Flows(s \o r, ids, read)
  PROVE  Flows(s, ids, read)
  <1> DEFINE u == s \o r
  <1>1. /\ u \in Seq(Pieces) /\ Len(u) = Len(s) + Len(r)
        /\ \A i \in 1..(Len(s) + Len(r)) : u[i] = IF i <= Len(s) THEN s[i] ELSE r[i - Len(s)]
    BY ConcatProperties
  <1> HIDE DEF u
  <1>2. Len(s) \in Nat /\ Len(r) \in Nat /\ (s # <<>> <=> Len(s) > 0)
    OBVIOUS
  <1>3. Flows(u, ids, read)
    BY DEF u
  <1>4. s # <<>> => u # <<>> /\ u[1] = s[1]
    BY <1>1, <1>2
  <1>5. \A k \in 1..(Len(s) - 1) : k \in 1..(Len(u) - 1) /\ u[k] = s[k] /\ u[k + 1] = s[k + 1]
    BY <1>1, <1>2
  <1> QED
    BY <1>3, <1>4, <1>5 DEF Flows

-----------------------------------------------------------------------------
(* The second part of a sequence is what is left after the first.          *)
LEMMA ConcatAfter ==
  ASSUME NEW S, NEW a \in Seq(S), NEW b \in Seq(S)
  PROVE  /\ After(b, a \o b, Len(a)) /\ a \o b \in Seq(S)
         /\ \A k \in 1..Len(a) : (a \o b)[k] = a[k]
  <1>1. /\ a \o b \in Seq(S) /\ Len(a \o b) = Len(a) + Len(b)
        /\ \A i \in 1..(Len(a) + Len(b)) : (a \o b)[i] = IF i <= Len(a) THEN a[i] ELSE b[i - Len(a)]
    BY ConcatProperties
  <1>2. Len(a) \in Nat /\ Len(b) \in Nat
    OBVIOUS
  <1>3. ASSUME NEW k \in 1..Len(b) PROVE b[k] = (a \o b)[Len(a) + k]
    <2>1. /\ Len(a) + k \in 1..(Len(a) + Len(b)) /\ ~(Len(a) + k <= Len(a))
          /\ (Len(a) + k) - Len(a) = k
      BY <1>2
    <2> QED
      BY <1>1, <2>1
  <1>4. ASSUME NEW k \in 1..Len(a) PROVE (a \o b)[k] = a[k]
    <2>1. k \in 1..(Len(a) + Len(b)) /\ k <= Len(a)
      BY <1>2
    <2> QED
      BY <1>1, <2>1
  <1>5. Len(a) \in 0..Len(a \o b) /\ Len(b) = Len(a \o b) - Len(a)
    BY <1>1, <1>2
  <1> QED
    BY <1>1, <1>3, <1>4, <1>5 DEF After

(* Where a sequence is cut does not matter.                                *)
LEMMA ConcatMoves ==
  \A s, t, u \in Seq(Pieces) : (s \o t) \o u = s \o (t \o u)
  BY ConcatAssociative

(* A stream is a sequence of pieces.                                       *)
LEMMA StreamTyped ==
  ASSUME NEW h \in Seq(Pieces), NEW w \in Seq(Pieces), NEW r \in Seq(Pieces)
  PROVE  Stream(h, w, r) \in Seq(Pieces)
  <1>1. h \o w \in Seq(Pieces)
    BY ConcatProperties
  <1> QED
    BY <1>1, ConcatProperties DEF Stream

(* A stream, and what the reader has of it.                                *)
LEMMA StreamFront ==
  ASSUME NEW h \in Seq(Pieces), NEW w \in Seq(Pieces), NEW r \in Seq(Pieces)
  PROVE  Stream(h, w, r) = h \o Stream(<<>>, w, r)
  <1>1. <<>> \o w = w
    BY ConcatEmptySeq
  <1>2. (h \o w) \o r = h \o (w \o r)
    BY ConcatAssociative
  <1> QED
    BY <1>1, <1>2 DEF Stream

(* A stream, and what the writer has left.                                 *)
LEMMA StreamBack ==
  ASSUME NEW h \in Seq(Pieces), NEW w \in Seq(Pieces), NEW r \in Seq(Pieces)
  PROVE  Stream(h, w, r) = Stream(h, w, <<>>) \o r
  <1>1. h \o w \in Seq(Pieces)
    BY ConcatProperties
  <1>2. (h \o w) \o <<>> = h \o w
    BY <1>1, ConcatEmptySeq
  <1> QED
    BY <1>2 DEF Stream

(* A piece that is written moves along its stream.                         *)
LEMMA WriteMoves ==
  ASSUME NEW h \in Seq(Pieces), NEW w \in Seq(Pieces), NEW r \in Seq(Pieces), r # <<>>
  PROVE  /\ Stream(h, Append(w, Head(r)), Tail(r)) = Stream(h, w, r)
         /\ Head(r) \in Pieces /\ Tail(r) \in Seq(Pieces)
         /\ Append(w, Head(r)) \in Seq(Pieces)
         /\ (Tail(r) = <<>> <=> Len(r) = 1)
  <1> DEFINE x == Head(r)
             z == Tail(r)
  <1>1. /\ x \in Pieces /\ z \in Seq(Pieces) /\ Len(z) = Len(r) - 1
        /\ \A i \in 1..Len(z) : z[i] = r[i + 1]
        /\ x = r[1]
    BY HeadTailProperties
  <1>2. Append(w, x) = w \o <<x>> /\ Append(w, x) \in Seq(Pieces) /\ <<x>> \in Seq(Pieces)
    BY <1>1, AppendIsConcat, AppendProperties
  <1>3. <<x>> \o z = r
    <2> HIDE DEF x, z
    <2>1. /\ <<x>> \o z \in Seq(Pieces) /\ Len(<<x>> \o z) = Len(<<x>>) + Len(z)
          /\ \A i \in 1..(Len(<<x>>) + Len(z)) :
               (<<x>> \o z)[i] = IF i <= Len(<<x>>) THEN <<x>>[i] ELSE z[i - Len(<<x>>)]
      BY <1>1, <1>2, ConcatProperties
    <2>2. Len(<<x>>) = 1 /\ <<x>>[1] = x /\ Len(r) \in Nat /\ Len(r) >= 1
      OBVIOUS
    <2>3. Len(<<x>> \o z) = Len(r)
      BY <1>1, <2>1, <2>2
    <2>4. ASSUME NEW i \in 1..Len(r) PROVE (<<x>> \o z)[i] = r[i]
      <3>1. CASE i = 1
        BY <1>1, <2>1, <2>2, <3>1
      <3>2. CASE i # 1
        <4>1. i - 1 \in 1..Len(z) /\ (i - 1) + 1 = i /\ ~(i <= 1) /\ i \in 1..(1 + Len(z))
          BY <1>1, <2>2, <3>2
        <4> QED
          BY <1>1, <2>1, <2>2, <4>1
      <3> QED
        BY <3>1, <3>2
    <2> QED
      BY <2>1, <2>3, <2>4, SeqEqual
  <1> HIDE DEF x, z
  <1>a. Len(r) \in Nat /\ (z = <<>> <=> Len(z) = 0) /\ Len(z) \in Nat
    BY <1>1
  <1>4. z = <<>> <=> Len(r) = 1
    BY <1>1, <1>a
  <1>5. h \o w \in Seq(Pieces)
    BY ConcatProperties
  <1>6. (h \o (w \o <<x>>)) = (h \o w) \o <<x>>
    BY <1>2, ConcatAssociative
  <1>7. ((h \o w) \o <<x>>) \o z = (h \o w) \o (<<x>> \o z)
    <2>1. h \o w \in Seq(Pieces) /\ <<x>> \in Seq(Pieces) /\ z \in Seq(Pieces)
      BY <1>1, <1>2, <1>5
    <2>2. \A s \in Seq(Pieces) : (s \o <<x>>) \o z = s \o (<<x>> \o z)
      BY <2>1, ConcatMoves
    <2> QED
      BY <2>1, <2>2, Zenon
  <1> QED
    BY <1>1, <1>2, <1>3, <1>4, <1>6, <1>7 DEF Stream, x, z

(* What is at hand in a pipe, and what is left in it.                      *)
LEMMA SplitPipe ==
  ASSUME NEW w \in Seq(Pieces), NEW n \in 1..Len(w)
  PROVE  /\ SubSeq(w, 1, n) \o SubSeq(w, n + 1, Len(w)) = w
         /\ SubSeq(w, 1, n) \in Seq(Pieces) /\ SubSeq(w, n + 1, Len(w)) \in Seq(Pieces)
         /\ Len(SubSeq(w, 1, n)) = n /\ \A k \in 1..n : SubSeq(w, 1, n)[k] = w[k]
  <1>1. Len(w) \in Nat /\ n \in Nat /\ n >= 1 /\ n <= Len(w)
    OBVIOUS
  <1>2. SubSeq(w, 1, n) \o SubSeq(w, n + 1, Len(w)) = SubSeq(w, 1, Len(w))
    <2>1. 1 \in 1..(Len(w) + 1) /\ n \in (1 - 1)..Len(w) /\ Len(w) \in n..Len(w)
      BY <1>1
    <2> QED
      BY <2>1, ConcatAdjacentSubSeq
  <1>3. SubSeq(w, 1, Len(w)) = w
    BY SubSeqFull
  <1>4. ASSUME NEW i \in Int, NEW j \in Int, \A k \in i..j : w[k] \in Pieces
        PROVE  /\ SubSeq(w, i, j) \in Seq(Pieces)
               /\ Len(SubSeq(w, i, j)) = IF i <= j THEN j - i + 1 ELSE 0
               /\ \A k \in 1..(j - i + 1) : SubSeq(w, i, j)[k] = w[i + k - 1]
    BY <1>4, SubSeqProperties
  <1>5. \A k \in 1..Len(w) : w[k] \in Pieces
    OBVIOUS
  <1>6. SubSeq(w, n + 1, Len(w)) \in Seq(Pieces)
    BY <1>1, <1>4, <1>5
  <1>7. /\ SubSeq(w, 1, n) \in Seq(Pieces) /\ Len(SubSeq(w, 1, n)) = n - 1 + 1
        /\ \A k \in 1..(n - 1 + 1) : SubSeq(w, 1, n)[k] = w[1 + k - 1]
    BY <1>1, <1>4, <1>5
  <1>8. n - 1 + 1 = n /\ \A k \in 1..n : 1 + k - 1 = k
    BY <1>1
  <1> QED
    BY <1>2, <1>3, <1>6, <1>7, <1>8

(* Pieces that are read without a newline move along their stream.         *)
LEMMA TakeMoves ==
  ASSUME NEW h \in Seq(Pieces), NEW w \in Seq(Pieces), NEW r \in Seq(Pieces),
         NEW n \in 1..Len(w)
  PROVE  /\ h \o SubSeq(w, 1, n) \in Seq(Pieces)
         /\ SubSeq(w, n + 1, Len(w)) \in Seq(Pieces)
         /\ Stream(h \o SubSeq(w, 1, n), SubSeq(w, n + 1, Len(w)), r) = Stream(h, w, r)
  <1> DEFINE a == SubSeq(w, 1, n)
             b == SubSeq(w, n + 1, Len(w))
  <1>1. a \o b = w /\ a \in Seq(Pieces) /\ b \in Seq(Pieces)
    BY SplitPipe
  <1> HIDE DEF a, b
  <1>2. (h \o a) \o b = h \o (a \o b) /\ h \o a \in Seq(Pieces)
    <2>1. (h \o a) \o b = h \o (a \o b)
      <3>1. h \in Seq(Pieces) /\ a \in Seq(Pieces) /\ b \in Seq(Pieces)
        BY <1>1
      <3> QED
        BY ONLY SMTT(20), <3>1, ConcatMoves
    <2>2. h \o a \in Seq(Pieces)
      BY <1>1, ConcatProperties
    <2> QED
      BY <2>1, <2>2
  <1> QED
    BY <1>1, <1>2 DEF Stream, a, b

(* What is taken holds at most one newline, at its end.                    *)
LEMMA TakenNewlines ==
  ASSUME NEW h \in Seq(Pieces), NEW w \in Seq(Pieces), NEW n \in TakeSizes(w), NoNewline(h)
  PROVE  LET seen == h \o SubSeq(w, 1, n) IN
         /\ n \in 1..Len(w) /\ seen \in Seq(Pieces) /\ seen # <<>>
         /\ Len(seen) \in Nat \ {0}
         /\ \A k \in 1..(Len(seen) - 1) : ~seen[k].last
         /\ Newline(seen) => seen[Len(seen)].last
         /\ ~Newline(seen) => NoNewline(seen)
  <1> DEFINE a == SubSeq(w, 1, n)
             seen == h \o a
  <1>1. n \in 1..Len(w) /\ \A k \in 1..(n - 1) : ~w[k].last
    BY DEF TakeSizes
  <1>2. a \in Seq(Pieces) /\ Len(a) = n /\ \A k \in 1..n : a[k] = w[k]
    BY <1>1, SplitPipe
  <1> HIDE DEF a
  <1>3. /\ seen \in Seq(Pieces) /\ Len(seen) = Len(h) + Len(a)
        /\ \A i \in 1..(Len(h) + Len(a)) : seen[i] = IF i <= Len(h) THEN h[i] ELSE a[i - Len(h)]
    BY <1>2, ConcatProperties
  <1>4. Len(h) \in Nat /\ Len(w) \in Nat /\ DOMAIN h = 1..Len(h)
    OBVIOUS
  <1> HIDE DEF seen
  <1>5. ASSUME NEW k \in 1..(Len(seen) - 1) PROVE ~seen[k].last
    <2>1. CASE k <= Len(h)
      <3>1. k \in 1..Len(h) /\ k \in 1..(Len(h) + Len(a))
        BY <1>2, <1>3, <1>4, <2>1
      <3> QED
        BY <1>3, <1>4, <2>1, <3>1 DEF NoNewline
    <2>2. CASE ~(k <= Len(h))
      <3>1. k - Len(h) \in 1..(n - 1) /\ k - Len(h) \in 1..n /\ k \in 1..(Len(h) + Len(a))
        BY <1>1, <1>2, <1>3, <1>4, <2>2
      <3> QED
        BY <1>1, <1>2, <1>3, <2>2, <3>1
    <2> QED
      BY <2>1, <2>2
  <1>6. Len(seen) \in Nat \ {0} /\ seen # <<>> /\ DOMAIN seen = 1..Len(seen)
    BY <1>1, <1>2, <1>3, <1>4
  <1>7. Last(seen) = seen[Len(seen)]
    BY DEF Last
  <1>8. ~Newline(seen) => NoNewline(seen)
    <2> SUFFICES ASSUME ~Newline(seen), NEW k \in 1..Len(seen) PROVE ~seen[k].last
      BY <1>6 DEF NoNewline
    <2> DEFINE m == Len(seen)
    <2>1. k \in 1..(m - 1) \/ k = m
      <3>1. m \in Nat \ {0} /\ k \in 1..m
        BY <1>6
      <3> HIDE DEF m
      <3> QED
        BY <3>1
    <2> QED
      BY <1>5, <1>6, <1>7, <2>1 DEF Newline
  <1> QED
    BY <1>1, <1>3, <1>5, <1>6, <1>7, <1>8 DEF Newline, seen, a

(* One pipe of one link is written to.                                     *)
LEMMA PutPipe ==
  ASSUME NEW S, NEW f \in [Links -> [Ways -> S]], NEW l \in Links, NEW way \in Ways,
         NEW x \in S, NEW g, g = [f EXCEPT ![l][way] = x]
  PROVE  /\ g \in [Links -> [Ways -> S]] /\ g[l][way] = x
         /\ \A m \in Links, v \in Ways : (m # l \/ v # way) => g[m][v] = f[m][v]
  OBVIOUS

-----------------------------------------------------------------------------
(* What the steps of the two ends do to a stream.                          *)
LEMMA HalfDropped ==
  ASSUME NEW h \in Seq(Pieces), NEW w \in Seq(Pieces), NEW r \in Seq(Pieces), NoNewline(h),
         NEW ids \in Seq(Nat), NEW read \in Seq(Nat), Flows(Stream(h, w, r), ids, read)
  PROVE  /\ Flows(Stream(<<>>, w, r), ids, read)
         /\ Closes(Stream(h, w, r), ids, read) => Closes(Stream(<<>>, w, r), ids, read)
  <1> DEFINE t == Stream(<<>>, w, r)
             s == Stream(h, w, r)
  <1>1. s \in Seq(Pieces) /\ s = h \o t
    BY StreamTyped, StreamFront
  <1>2. t \in Seq(Pieces)
    <2>1. <<>> \in Seq(Pieces)
      OBVIOUS
    <2> QED
      BY <2>1, StreamTyped
  <1>3. Flows(s, ids, read)
    OBVIOUS
  <1> HIDE DEF s, t
  <1>4. After(t, s, Len(h)) /\ \A k \in 1..Len(h) : s[k] = h[k]
    BY <1>1, <1>2, ConcatAfter
  <1>5. \A k \in 1..Len(h) : ~s[k].last
    <2>1. DOMAIN h = 1..Len(h)
      OBVIOUS
    <2>2. \A k \in 1..Len(h) : ~h[k].last
      BY <2>1, Zenon DEF NoNewline
    <2> QED
      BY ONLY <1>4, <2>2, Zenon
  <1>6. Flows(t, ids, read) /\ (Closes(s, ids, read) => Closes(t, ids, read))
    BY <1>1, <1>2, <1>3, <1>4, <1>5, DropFlows
  <1> QED
    BY <1>6 DEF s, t

(* The writer gives up what is left of its frame.                          *)
LEMMA RestDropped ==
  ASSUME NEW h \in Seq(Pieces), NEW w \in Seq(Pieces), NEW r \in Seq(Pieces),
         NEW ids, NEW read, Flows(Stream(h, w, r), ids, read)
  PROVE  Flows(Stream(h, w, <<>>), ids, read)
  <1>1. <<>> \in Seq(Pieces)
    OBVIOUS
  <1>2. Stream(h, w, <<>>) \in Seq(Pieces)
    BY <1>1, StreamTyped
  <1>3. Stream(h, w, r) = Stream(h, w, <<>>) \o r
    BY StreamBack
  <1> QED
    BY <1>2, <1>3, CutFlows

(* The writer begins a frame.                                              *)
LEMMA FrameBegun ==
  ASSUME NEW h \in Seq(Pieces), NEW w \in Seq(Pieces), NEW id \in Nat, NEW size \in Nat \ {0},
         NEW ids \in Seq(Nat), NEW read \in Seq(Nat),
         Flows(Stream(h, w, <<>>), ids, read), Closes(Stream(h, w, <<>>), ids, read)
  PROVE  /\ Flows(Stream(h, w, Frame(id, size)), Append(ids, id), read)
         /\ Closes(Stream(h, w, Frame(id, size)), Append(ids, id), read)
  <1>1. Frame(id, size) \in Seq(Pieces)
    BY FrameTyped
  <1>2. <<>> \in Seq(Pieces)
    OBVIOUS
  <1>3. Stream(h, w, <<>>) \in Seq(Pieces)
    BY <1>2, StreamTyped
  <1>4. Stream(h, w, Frame(id, size)) = Stream(h, w, <<>>) \o Frame(id, size)
    BY <1>1, StreamBack
  <1> QED
    BY <1>3, <1>4, BeginFlows

(* The reader takes the end of a frame.                                    *)
LEMMA FrameRead ==
  ASSUME NEW h \in Seq(Pieces), NEW w \in Seq(Pieces), NEW r \in Seq(Pieces), NoNewline(h),
         NEW n \in TakeSizes(w), Newline(h \o SubSeq(w, 1, n)),
         NEW ids \in Seq(Nat), NEW read \in Seq(Nat), Flows(Stream(h, w, r), ids, read),
         Distinct(ids)
  PROVE  LET t == Stream(<<>>, SubSeq(w, n + 1, Len(w)), r)
             read2 == Append(read, (h \o SubSeq(w, 1, n))[1].id) IN
         /\ read2 \in Seq(Nat)
         /\ Flows(t, ids, read2)
         /\ Closes(Stream(h, w, r), ids, read) => Closes(t, ids, read2)
         /\ IsPrefix(read, ids) => IsPrefix(read2, ids)
  <1> DEFINE seen == h \o SubSeq(w, 1, n)
             b == SubSeq(w, n + 1, Len(w))
             t == Stream(<<>>, b, r)
             s == Stream(h, w, r)
             m == Len(seen)
  <1>1. /\ n \in 1..Len(w) /\ seen \in Seq(Pieces) /\ m \in Nat \ {0}
        /\ \A k \in 1..(m - 1) : ~seen[k].last
        /\ seen[m].last
    BY TakenNewlines
  <1>2. b \in Seq(Pieces) /\ Stream(seen, b, r) = s
    BY <1>1, TakeMoves
  <1> HIDE DEF seen, b, m
  <1>3. s \in Seq(Pieces) /\ t \in Seq(Pieces) /\ s = seen \o t
    <2>1. <<>> \in Seq(Pieces)
      OBVIOUS
    <2>2. s \in Seq(Pieces)
      BY StreamTyped
    <2>3. t \in Seq(Pieces)
      BY <1>2, <2>1, StreamTyped
    <2>4. Stream(seen, b, r) = seen \o t
      BY <1>1, <1>2, StreamFront
    <2> QED
      BY <1>2, <2>2, <2>3, <2>4
  <1>4. Flows(s, ids, read)
    OBVIOUS
  <1> HIDE DEF s, t
  <1>5. After(t, s, m) /\ \A k \in 1..m : s[k] = seen[k]
    BY <1>1, <1>3, ConcatAfter DEF m
  <1>6. (\A k \in 1..(m - 1) : ~s[k].last) /\ s[m].last /\ s[1] = seen[1] /\ m # 0
    <2>1. m \in 1..m /\ 1 \in 1..m /\ \A k \in 1..(m - 1) : k \in 1..m
      BY <1>1
    <2> QED
      BY <1>1, <1>5, <2>1
  <1>7. /\ Flows(t, ids, Append(read, s[1].id))
        /\ Closes(s, ids, read) => Closes(t, ids, Append(read, s[1].id))
        /\ IsPrefix(read, ids) => IsPrefix(Append(read, s[1].id), ids)
    BY <1>3, <1>4, <1>5, <1>6, ReadFlows
  <1>8. s[1].id \in Nat
    <2>1. seen[1] \in Pieces
      BY <1>1 DEF m
    <2> QED
      BY <1>6, <2>1 DEF Pieces
  <1>9. Append(read, s[1].id) \in Seq(Nat)
    BY <1>8, AppendProperties
  <1> QED
    BY <1>6, <1>7, <1>9 DEF seen, b, t, s, m

-----------------------------------------------------------------------------
(* What the parts of the invariant say of a link.                          *)
LEMMA LinkFacts ==
  ASSUME LinkTyped
  PROVE  /\ joined # 0 => joined \in Links
         /\ serving # 0 => serving \in Links
         /\ \A l \in Links, way \in {"up", "down"} :
              /\ wire[l][way] \in Seq(Pieces) /\ sent[l][way] \in Seq(Nat)
              /\ got[l][way] \in Seq(Nat)
         /\ <<>> \in Seq(Pieces) /\ half \in Seq(Pieces) /\ outgoing \in Seq(Pieces)
         /\ halfEvent \in Seq(Pieces) /\ pieces \in Seq(Pieces)
  <1>1. MaxLinks \in Nat
    BY LinkAssumption DEF LinkAssumption
  <1>2. \A l \in Links, way \in {"up", "down"} :
          /\ wire[l][way] \in Seq(Pieces) /\ sent[l][way] \in Seq(Nat)
          /\ got[l][way] \in Seq(Nat)
    BY SMTT(20) DEF LinkTyped, Ways
  <1> QED
    BY <1>1, <1>2 DEF LinkTyped, Links

(* Nothing was sent at the start.                                          *)
LEMMA LinkInitially == LinkInit => LinkInv
  <1> SUFFICES ASSUME LinkInit PROVE LinkInv
    OBVIOUS
  <1>1. <<>> \in Seq(Pieces) /\ <<>> \in Seq(Nat) /\ <<>> \in Seq(Nat \ {0}) /\ Len(<<>>) = 0
    OBVIOUS
  <1>2. 1 \in Links /\ MaxLinks \in Nat
    BY LinkAssumption DEF LinkAssumption, Links
  <1>3. LinkTyped
    BY <1>1, <1>2 DEF LinkInit, LinkTyped, Links
  <1>4. EndsMatch
    BY <1>2 DEF LinkInit, EndsMatch, Links
  <1>5. \A l \in Links, way \in Ways :
          sent[l][way] = <<>> /\ got[l][way] = <<>> /\ wire[l][way] = <<>>
    BY DEF LinkInit
  <1>6. Pending
    BY <1>5 DEF Pending, Ways
  <1>7. NewIds
    BY <1>5 DEF NewIds, Ways, Distinct, LinkInit
  <1>8. \A l \in Links : UpStream(l) = <<>>
    <2>1. <<>> \o <<>> = <<>>
      BY <1>1, ConcatEmptySeq
    <2> QED
      BY <1>5, <2>1 DEF LinkInit, UpStream, Stream, Ways
  <1>9. Flows(<<>>, <<>>, <<>>) /\ Closes(<<>>, <<>>, <<>>)
    BY <1>1 DEF Flows, Closes
  <1>10. UpFlows
    BY <1>3, <1>5, <1>8, <1>9 DEF UpFlows, LinkTyped, LinkInit, NoNewline, Ways
  <1>11. DownFlows
    BY DEF DownFlows, LinkInit
  <1>12. FramesArriveInOrder
    <2>1. IsPrefix(<<>>, <<>>)
      BY <1>1 DEF IsPrefix
    <2> QED
      BY <1>5, <2>1 DEF FramesArriveInOrder
  <1> QED
    BY <1>3, <1>4, <1>6, <1>7, <1>10, <1>11, <1>12 DEF LinkInv

(* A step that touches no stream.                                          *)
LEMMA QuietStep ==
  ASSUME LinkInv, LinkTyped', EndsMatch',
         UNCHANGED <<wire, sent, got, half, serving, outgoing, serverEnd, listening, joined,
                     halfEvent, pieces, cursor, commands>>,
         shellAt' = "leaving" \/ shellAt # "leaving"
  PROVE  LinkInv'
  <1>1. Pending' /\ NewIds'
    BY DEF LinkInv, Pending, NewIds
  <1>2. UpFlows'
    BY DEF LinkInv, UpFlows, UpStream
  <1>3. DownFlows'
    BY DEF LinkInv, DownFlows, DownStream
  <1>4. FramesArriveInOrder'
    BY DEF LinkInv, FramesArriveInOrder
  <1> QED
    BY <1>1, <1>2, <1>3, <1>4 DEF LinkInv

(* The steps that touch no stream.                                         *)
LEMMA QuietActions ==
  ASSUME LinkInv, \/ UNCHANGED linkVars \/ Broadcast \/ SkipGreeting \/ Dispatch \/ CallerFails \/ ReadClosed
  PROVE  LinkInv'
  <1> USE DEF pipes, serverSide, shellSide, senderSide, linkHistory
  <1>1. CASE UNCHANGED linkVars
    <2>1. LinkTyped' /\ EndsMatch'
      BY <1>1 DEF LinkInv, LinkTyped, EndsMatch, linkVars
    <2> QED
      BY <1>1, <2>1, QuietStep DEF linkVars
  <1>2. CASE Broadcast
    <2>1. PICK size \in EventSizes : events' = events \o <<size>>
      BY <1>2 DEF Broadcast, Answers
    <2>2. <<size>> \in Seq(Nat \ {0}) /\ events \in Seq(Nat \ {0})
      BY LinkAssumption DEF LinkAssumption, LinkInv, LinkTyped
    <2>3. events' \in Seq(Nat \ {0}) /\ Len(events') = Len(events) + Len(<<size>>) /\ Len(<<size>>) = 1
      BY <2>1, <2>2, ConcatProperties
    <2>4. cursor \in 0..Len(events')
      BY <2>2, <2>3 DEF LinkInv, LinkTyped
    <2>5. LinkTyped' /\ EndsMatch'
      BY <1>2, <2>3, <2>4 DEF Broadcast, LinkInv, LinkTyped, EndsMatch
    <2> QED
      BY <1>2, <2>5, QuietStep DEF Broadcast
  <1>3. CASE SkipGreeting
    <2>1. LinkTyped' /\ EndsMatch'
      BY <1>3 DEF LinkInv, LinkTyped, EndsMatch, SkipGreeting
    <2> QED
      BY <1>3, <2>1, QuietStep DEF SkipGreeting
  <1>4. CASE Dispatch
    <2>1. LinkTyped' /\ EndsMatch'
      BY <1>4 DEF LinkInv, LinkTyped, EndsMatch, Dispatch
    <2> QED
      BY <1>4, <2>1, QuietStep DEF Dispatch
  <1>5. CASE CallerFails
    <2>1. LinkTyped' /\ EndsMatch'
      BY <1>5 DEF LinkInv, LinkTyped, EndsMatch, CallerFails
    <2> QED
      BY <1>5, <2>1, QuietStep DEF CallerFails
  <1>6. CASE ReadClosed
    <2>1. LinkTyped' /\ EndsMatch'
      BY <1>6 DEF LinkInv, LinkTyped, EndsMatch, ReadClosed
    <2> QED
      BY <1>6, <2>1, QuietStep DEF ReadClosed
  <1> QED
    BY <1>1, <1>2, <1>3, <1>4, <1>5, <1>6

(* The supervisor asks for the lock, and its read of an event is dropped.  *)
LEMMA AskKeeps == ASSUME LinkInv, Ask PROVE LinkInv'
  <1> USE DEF pipes, serverSide, shellSide, senderSide, linkHistory
  <1>1. <<>> \in Seq(Pieces)
    OBVIOUS
  <1>2. LinkTyped' /\ EndsMatch'
    BY <1>1 DEF LinkInv, LinkTyped, EndsMatch, Ask
  <1>3. Pending' /\ NewIds' /\ UpFlows' /\ FramesArriveInOrder'
    BY DEF LinkInv, Pending, NewIds, UpFlows, UpStream, FramesArriveInOrder, Ask
  <1>4. DownFlows'
    <2> DEFINE r == IF joined = serving THEN outgoing ELSE <<>>
               w == wire[joined]["down"]
    <2>1. /\ joined # 0 /\ shellAt # "leaving" /\ joined \in Links
          /\ halfEvent \in Seq(Pieces) /\ w \in Seq(Pieces) /\ r \in Seq(Pieces)
          /\ sent[joined]["down"] \in Seq(Nat) /\ got[joined]["down"] \in Seq(Nat)
      <3>1. joined # 0 /\ shellAt # "leaving"
        BY DEF LinkInv, EndsMatch, Ask
      <3> QED
        BY <3>1, LinkFacts DEF LinkInv
    <2>2. /\ NoNewline(halfEvent)
          /\ Flows(Stream(halfEvent, w, r), sent[joined]["down"], got[joined]["down"])
          /\ joined = serving =>
               Closes(Stream(halfEvent, w, r), sent[joined]["down"], got[joined]["down"])
      BY <2>1 DEF LinkInv, DownFlows, DownStream
    <2>3. /\ Flows(Stream(<<>>, w, r), sent[joined]["down"], got[joined]["down"])
          /\ joined = serving =>
               Closes(Stream(<<>>, w, r), sent[joined]["down"], got[joined]["down"])
      BY ONLY <2>1, <2>2, HalfDropped
    <2>4. NoNewline(<<>>)
      BY DEF NoNewline
    <2> QED
      BY <2>3, <2>4 DEF DownFlows, DownStream, Ask
  <1> QED
    BY <1>2, <1>3, <1>4 DEF LinkInv

(* The daemon gives up the link that it serves.                            *)
LEMMA HangStep ==
  ASSUME LinkInv, Alive, AcceptsNext \/ Ends,
         UNCHANGED <<clientEnd, listening, events, shellSide, senderSide, sent, got>>,
         cursor' \in 0..Len(events), wire' \in [Links -> [Ways -> Seq(Pieces)]],
         \A l \in Links, way \in Ways :
           (l # serving \/ way # "up") => wire'[l][way] = wire[l][way]
  PROVE  LinkInv'
  <1> USE DEF shellSide, senderSide
  <1>a. /\ serving' = 0 /\ half' = <<>> /\ outgoing' = <<>>
        /\ serverEnd' \subseteq serverEnd \ {serving} /\ daemonAt' \in {"accept", "ended"}
        /\ daemonAt' = "accept" => serverEnd' = serverEnd \ {serving}
    BY DEF AcceptsNext, Hangs, Ends
  <1>b. <<>> \in Seq(Pieces) /\ MaxLinks \in Nat
    BY LinkAssumption DEF LinkAssumption
  <1>c. LinkTyped'
    BY <1>a, <1>b DEF LinkInv, LinkTyped
  <1>d. EndsMatch'
    <2>1. listening # serving /\ listening' = listening
      BY <1>b DEF LinkInv, LinkTyped, EndsMatch, Links
    <2>2. daemonAt' # "ended" => listening \in serverEnd'
      BY <1>a, <2>1 DEF Alive, LinkInv, EndsMatch
    <2>3. \A l \in serverEnd' : l <= listening
      BY <1>a DEF LinkInv, EndsMatch
    <2> QED
      BY <1>a, <2>2, <2>3 DEF LinkInv, EndsMatch
  <1>1. 0 \notin Links /\ Ways = {"up", "down"} /\ serverEnd \subseteq Links
    BY DEF Links, Ways, LinkInv, LinkTyped
  <1>2. Pending'
    <2>1. \A l \in Links : l > listening => l # serving
      BY <1>1 DEF LinkInv, LinkTyped, EndsMatch, Links
    <2> QED
      BY <1>1, <2>1 DEF LinkInv, Pending
  <1>3. NewIds'
    BY <1>a DEF LinkInv, NewIds
  <1>4. UpFlows'
    <2>1. ASSUME NEW l \in serverEnd'
          PROVE  UpStream(l)' = UpStream(l) /\ l \in serverEnd
      <3>1. l \in serverEnd /\ l # serving /\ l # 0 /\ l \in Links
        BY <1>a, <1>1
      <3>2. wire'[l]["up"] = wire[l]["up"]
        BY <1>1, <3>1
      <3> QED
        BY <1>a, <3>1, <3>2 DEF UpStream
    <2>2. NoNewline(half')
      BY <1>a DEF NoNewline
    <2> QED
      BY <2>1, <2>2 DEF LinkInv, UpFlows
  <1>5. DownFlows'
    <2> SUFFICES ASSUME joined # 0, shellAt # "leaving" PROVE DownFlows'
      BY DEF DownFlows
    <2> DEFINE r == IF joined = serving THEN outgoing ELSE <<>>
               w == wire[joined]["down"]
               ids == sent[joined]["down"]
               read == got[joined]["down"]
    <2>1. /\ joined \in Links /\ halfEvent \in Seq(Pieces) /\ w \in Seq(Pieces)
          /\ r \in Seq(Pieces)
      BY LinkFacts DEF LinkInv
    <2>2. NoNewline(halfEvent) /\ Flows(Stream(halfEvent, w, r), ids, read)
      BY DEF LinkInv, DownFlows, DownStream
    <2>3. Flows(Stream(halfEvent, w, <<>>), ids, read)
      BY ONLY <2>1, <2>2, RestDropped
    <2>4. wire'[joined]["down"] = w
      BY <1>1, <2>1
    <2> QED
      BY <1>a, <2>2, <2>3, <2>4 DEF DownFlows, DownStream
  <1>6. FramesArriveInOrder'
    BY DEF LinkInv, FramesArriveInOrder
  <1> QED
    BY <1>c, <1>d, <1>2, <1>3, <1>4, <1>5, <1>6 DEF LinkInv

(* The daemon ends, or the client has left it.                             *)
LEMMA EndingActions == ASSUME LinkInv, ReadEnd \/ DaemonStops PROVE LinkInv'
  <1> USE DEF pipes, serverSide, linkHistory
  <1>1. /\ cursor \in 0..Len(events) /\ wire \in [Links -> [Ways -> Seq(Pieces)]]
        /\ cursor' = cursor /\ wire' = wire
    BY DEF LinkInv, LinkTyped, ReadEnd, DaemonStops
  <1>2. Alive /\ (AcceptsNext \/ Ends)
    BY DEF ReadEnd, DaemonStops, Alive
  <1>3. UNCHANGED <<clientEnd, listening, events, shellSide, senderSide, sent, got>>
    BY DEF ReadEnd, DaemonStops
  <1> QED
    BY ONLY LinkInv, <1>1, <1>2, <1>3, HangStep

(* The supervisor gives up its link.                                       *)
LEMMA LeaveKeeps == ASSUME LinkInv, Leave PROVE LinkInv'
  <1> USE DEF pipes, serverSide, shellSide, senderSide, linkHistory
  <1>1. <<>> \in Seq(Pieces) /\ MaxLinks \in Nat
    BY LinkAssumption DEF LinkAssumption
  <1>2. LinkTyped'
    BY <1>1 DEF LinkInv, LinkTyped, Leave
  <1>3. EndsMatch'
    BY <1>1 DEF LinkInv, LinkTyped, EndsMatch, Leave, Links
  <1>4. Pending' /\ NewIds' /\ FramesArriveInOrder'
    BY DEF LinkInv, Pending, NewIds, FramesArriveInOrder, Leave
  <1>5. UpFlows'
    <2>1. pieces = <<>> /\ pieces' = pieces
      BY DEF LinkInv, EndsMatch, Leave
    <2>2. \A l : UpStream(l)' = UpStream(l)
      BY <2>1 DEF UpStream, Leave
    <2> QED
      BY <2>2 DEF LinkInv, UpFlows, Leave
  <1>6. DownFlows'
    BY DEF DownFlows, Leave
  <1> QED
    BY <1>2, <1>3, <1>4, <1>5, <1>6 DEF LinkInv

(* Nothing was ever sent on the link that the next client joins.           *)
LEMMA NothingFlows ==
  /\ Stream(<<>>, <<>>, <<>>) = <<>>
  /\ Flows(<<>>, <<>>, <<>>) /\ Closes(<<>>, <<>>, <<>>)
  <1>1. <<>> \in Seq(Pieces) /\ Len(<<>>) = 0
    OBVIOUS
  <1>2. <<>> \o <<>> = <<>>
    BY <1>1, ConcatEmptySeq
  <1> QED
    BY <1>1, <1>2 DEF Stream, Flows, Closes

(* The supervisor joins the pending link.                                  *)
LEMMA JoinKeeps == ASSUME LinkInv, Join PROVE LinkInv'
  <1> USE DEF pipes, serverSide, shellSide, senderSide, linkHistory
  <1>1. <<>> \in Seq(Pieces) /\ MaxLinks \in Nat
    BY LinkAssumption DEF LinkAssumption
  <1>2. LinkTyped'
    BY <1>1 DEF LinkInv, LinkTyped, Join, Links
  <1>3. EndsMatch'
    BY <1>1 DEF LinkInv, LinkTyped, EndsMatch, Join, Links
  <1>4. Pending' /\ NewIds' /\ FramesArriveInOrder'
    BY DEF LinkInv, Pending, NewIds, FramesArriveInOrder, Join
  <1>5. UpFlows'
    <2>1. pieces = <<>> /\ pieces' = pieces
      BY DEF LinkInv, EndsMatch, Join
    <2>2. \A l : UpStream(l)' = UpStream(l)
      BY <2>1 DEF UpStream, Join
    <2> QED
      BY <2>2 DEF LinkInv, UpFlows, Join
  <1>6. DownFlows'
    <2>1. listening \in Links /\ joined' = listening /\ halfEvent' = <<>> /\ listening # serving
      BY DEF LinkInv, LinkTyped, EndsMatch, Join, Links
    <2>2. /\ sent[listening]["down"] = <<>> /\ got[listening]["down"] = <<>>
          /\ wire[listening]["down"] = <<>>
      BY <2>1 DEF LinkInv, LinkTyped, Pending, Links
    <2>3. /\ DownStream(joined)' = <<>>
          /\ sent'[joined']["down"] = <<>> /\ got'[joined']["down"] = <<>>
      BY <2>1, <2>2, NothingFlows DEF DownStream, Join
    <2> QED
      BY <2>1, <2>3, NothingFlows DEF DownFlows, NoNewline
  <1> QED
    BY <1>2, <1>3, <1>4, <1>5, <1>6 DEF LinkInv

(* The daemon serves the link that was pending; no client has joined the   *)
(* next.                                                                   *)
LEMMA AcceptKeeps == ASSUME LinkInv, Accept PROVE LinkInv'
  <1> USE DEF pipes, serverSide, shellSide, senderSide, linkHistory
  <1>1. <<>> \in Seq(Pieces) /\ MaxLinks \in Nat
    BY LinkAssumption DEF LinkAssumption
  <1>2. /\ serving = 0 /\ listening \in Links /\ listening + 1 \in Links /\ listening # 0
        /\ serving' = listening /\ listening' = listening + 1
        /\ serverEnd' = serverEnd \cup {listening + 1} /\ half' = <<>> /\ outgoing' = <<>>
        /\ cursor' = Len(events) /\ Len(events) \in Nat
    BY <1>1 DEF LinkInv, LinkTyped, EndsMatch, Accept, Links
  <1>3. LinkTyped'
    <2>1. /\ cursor' \in 0..Len(events') /\ serving' \in 0..MaxLinks /\ listening' \in Links
          /\ serverEnd' \subseteq Links /\ half' \in Seq(Pieces) /\ outgoing' \in Seq(Pieces)
          /\ daemonAt' = "select" /\ events' = events
      BY <1>1, <1>2 DEF LinkInv, LinkTyped, Accept, Links
    <2> QED
      BY <2>1 DEF LinkInv, LinkTyped, Accept
  <1>4. EndsMatch'
    <2>1. listening \in serverEnd'
      <3>1. listening \in serverEnd
        BY DEF LinkInv, EndsMatch, LinkTyped, Accept
      <3> QED
        BY <1>2, <3>1
    <2> QED
      BY <1>1, <1>2, <2>1 DEF LinkInv, LinkTyped, EndsMatch, Accept, Links
  <1>5. Pending'
    BY <1>2 DEF LinkInv, Pending, Accept, Links
  <1>6. NewIds'
    <2>1. sent[listening]["down"] = <<>>
      BY <1>2 DEF LinkInv, Pending, Links
    <2> QED
      BY <1>2, <2>1 DEF LinkInv, NewIds, Accept
  <1>7. UpFlows'
    <2>1. ASSUME NEW l \in serverEnd PROVE UpStream(l)' = UpStream(l)
      <3>1. l # serving
        BY <1>2 DEF LinkInv, LinkTyped, Links
      <3> QED
        BY <1>2, <3>1 DEF UpStream, Accept
    <2>2. PICK next \in Links : next = listening + 1
      BY <1>2
    <2>3. /\ sent[next]["up"] = <<>> /\ got[next]["up"] = <<>> /\ UpStream(next)' = <<>>
      <3>1. /\ sent[next]["up"] = <<>> /\ got[next]["up"] = <<>> /\ wire[next]["up"] = <<>>
            /\ joined # next /\ next # listening
        BY <1>2, <2>2 DEF LinkInv, LinkTyped, Pending, EndsMatch, Links
      <3>2. UpStream(next)' = Stream(<<>>, <<>>, <<>>)
        BY <1>2, <3>1 DEF UpStream, Accept
      <3> QED
        BY <3>1, <3>2, NothingFlows
    <2>4. NoNewline(half')
      BY <1>2 DEF NoNewline
    <2>5. sent' = sent /\ got' = got
      BY DEF Accept
    <2>6. ASSUME NEW l \in serverEnd'
          PROVE  /\ Flows(UpStream(l)', sent'[l]["up"], got'[l]["up"])
                 /\ Closes(UpStream(l)', sent'[l]["up"], got'[l]["up"])
      <3>1. CASE l \in serverEnd
        BY <2>1, <2>5, <3>1 DEF LinkInv, UpFlows
      <3>2. CASE l = next
        BY <2>3, <2>5, <3>2, NothingFlows
      <3> QED
        BY <1>2, <2>2, <3>1, <3>2
    <2> QED
      BY <2>4, <2>6 DEF UpFlows
  <1>8. DownFlows'
    <2> SUFFICES ASSUME joined # 0, shellAt # "leaving" PROVE DownFlows'
      BY DEF DownFlows, Accept
    <2>1. DownStream(joined)' = DownStream(joined)
      BY <1>2 DEF DownStream, Accept
    <2>2. NoNewline(halfEvent) /\ Flows(DownStream(joined), sent[joined]["down"], got[joined]["down"])
      BY DEF LinkInv, DownFlows
    <2>3. ASSUME joined = listening
          PROVE  Closes(DownStream(joined), sent[joined]["down"], got[joined]["down"])
      <3>1. sent[joined]["down"] = <<>> /\ got[joined]["down"] = <<>> /\ Len(<<>>) = 0
        BY <1>2, <2>3 DEF LinkInv, Pending, Links
      <3>2. DownStream(joined) = <<>>
        BY <2>2, <3>1 DEF Flows
      <3> QED
        BY <3>1, <3>2 DEF Closes
    <2> QED
      BY <1>2, <2>1, <2>2, <2>3 DEF DownFlows, Accept
  <1>9. FramesArriveInOrder'
    BY DEF LinkInv, FramesArriveInOrder, Accept
  <1> QED
    BY <1>3, <1>4, <1>5, <1>6, <1>7, <1>8, <1>9 DEF LinkInv

(* A new identifier is greater than those before it.                       *)
LEMMA FreshId ==
  ASSUME NEW ids \in Seq(Nat), NEW n \in Nat, NEW id \in Nat, n < id, Distinct(ids),
         \A k \in DOMAIN ids : ids[k] <= n
  PROVE  /\ Append(ids, id) \in Seq(Nat) /\ Distinct(Append(ids, id))
         /\ \A k \in DOMAIN Append(ids, id) : Append(ids, id)[k] <= id
  <1> DEFINE ids2 == Append(ids, id)
  <1>1. /\ ids2 \in Seq(Nat) /\ Len(ids2) = Len(ids) + 1
        /\ \A k \in 1..Len(ids) : ids2[k] = ids[k]
        /\ ids2[Len(ids) + 1] = id
    BY AppendProperties
  <1> HIDE DEF ids2
  <1>2. DOMAIN ids = 1..Len(ids) /\ DOMAIN ids2 = 1..(Len(ids) + 1) /\ Len(ids) \in Nat
    BY <1>1
  <1>3. ASSUME NEW k \in 1..Len(ids) PROVE ids2[k] < id
    <2>1. ids[k] \in Nat
      OBVIOUS
    <2>2. ids[k] <= n
      BY <1>2
    <2>3. ids2[k] = ids[k]
      BY <1>1
    <2> QED
      BY <2>1, <2>2, <2>3
  <1>4. \A k \in DOMAIN ids2 : k \in 1..Len(ids) \/ k = Len(ids) + 1
    BY <1>2
  <1>5. Distinct(ids2)
    <2> SUFFICES ASSUME NEW i \in DOMAIN ids2, NEW j \in DOMAIN ids2, ids2[i] = ids2[j]
                 PROVE  i = j
      BY DEF Distinct
    <2>1. CASE i \in 1..Len(ids) /\ j \in 1..Len(ids)
      BY <1>1, <1>2, <2>1 DEF Distinct
    <2>2. CASE i \in 1..Len(ids) /\ j = Len(ids) + 1
      BY <1>1, <1>3, <2>2
    <2>3. CASE i = Len(ids) + 1 /\ j \in 1..Len(ids)
      BY <1>1, <1>3, <2>3
    <2> QED
      BY <1>4, <2>1, <2>2, <2>3
  <1>6. \A k \in DOMAIN ids2 : ids2[k] <= id
    BY SMTT(20), <1>1, <1>3, <1>4
  <1> QED
    BY <1>1, <1>5, <1>6 DEF ids2

(* A command is begun under the lock.                                      *)
LEMMA BeginStep ==
  ASSUME LinkInv, NEW who, NEW size \in Nat \ {0}, Begin(who, size), joined # 0,
         UNCHANGED <<pipes, serverSide, events, joined, halfEvent, got>>,
         LinkTyped', EndsMatch', shellAt # "leaving"
  PROVE  LinkInv'
  <1> USE DEF pipes, serverSide
  <1> DEFINE ids == sent[joined]["up"]
             read == got[joined]["up"]
             h == IF joined = serving THEN half ELSE <<>>
             w == wire[joined]["up"]
  <1>1. /\ pieces = <<>> /\ pieces' = Frame(commands + 1, size) /\ commands' = commands + 1
        /\ commands \in Nat /\ commands + 1 \in Nat /\ commands < commands + 1
        /\ sent' = [sent EXCEPT ![joined]["up"] = Append(ids, commands + 1)]
    BY DEF LinkInv, LinkTyped, EndsMatch, Begin, Began
  <1>2. /\ joined \in Links /\ "up" \in Ways /\ "down" \in Ways /\ "down" # "up"
        /\ ids \in Seq(Nat) /\ read \in Seq(Nat) /\ h \in Seq(Pieces) /\ w \in Seq(Pieces)
        /\ Ways = {"up", "down"}
    BY LinkFacts DEF LinkInv, Ways
  <1>3. /\ Append(ids, commands + 1) \in Seq(Nat) /\ Distinct(Append(ids, commands + 1))
        /\ \A k \in DOMAIN Append(ids, commands + 1) : Append(ids, commands + 1)[k] <= commands + 1
    <2>1. Distinct(ids) /\ \A k \in DOMAIN ids : ids[k] <= commands
      BY <1>2 DEF LinkInv, NewIds
    <2> QED
      BY ONLY <1>1, <1>2, <2>1, FreshId
  <1>4. /\ sent'[joined]["up"] = Append(ids, commands + 1)
        /\ \A l \in Links, way \in Ways : (l # joined \/ way # "up") => sent'[l][way] = sent[l][way]
    <2>1. sent \in [Links -> [Ways -> Seq(Nat)]]
      BY DEF LinkInv, LinkTyped
    <2> QED
      BY ONLY <1>1, <1>2, <1>3, <2>1, PutPipe
  <1>5. Pending'
    <2>1. \A l \in Links : l > listening => l # joined
      BY <1>2 DEF LinkInv, LinkTyped, EndsMatch, Links
    <2> QED
      BY <1>2, <1>4, <2>1 DEF LinkInv, Pending
  <1>6. NewIds'
    <2>1. ASSUME NEW l \in Links, NEW way \in Ways PROVE Distinct(sent'[l][way])
      BY <1>2, <1>3, <1>4, <2>1 DEF LinkInv, NewIds
    <2>2. ASSUME NEW l \in Links, NEW k \in DOMAIN sent'[l]["up"]
          PROVE  sent'[l]["up"][k] <= commands'
      <3>1. CASE l = joined
        BY <1>1, <1>3, <1>4, <3>1
      <3>2. CASE l # joined
        <4>1. sent'[l]["up"] = sent[l]["up"] /\ sent[l]["up"] \in Seq(Nat)
          BY <1>2, <1>4, <3>2, LinkFacts DEF LinkInv
        <4>2. sent[l]["up"][k] \in Nat /\ sent[l]["up"][k] <= commands
          BY <4>1 DEF LinkInv, NewIds
        <4> QED
          BY <1>1, <4>1, <4>2
      <3> QED
        BY <3>1, <3>2
    <2>3. ASSUME serving' # 0, NEW k \in DOMAIN sent'[serving']["down"]
          PROVE  sent'[serving']["down"][k] <= cursor'
      <3>1. serving \in Links /\ serving' = serving /\ cursor' = cursor
        BY <2>3, LinkFacts DEF LinkInv
      <3>2. sent'[serving]["down"] = sent[serving]["down"]
        BY <1>2, <1>4, <3>1
      <3> QED
        BY <2>3, <3>1, <3>2 DEF LinkInv, NewIds
    <2> QED
      BY <2>1, <2>2, <2>3 DEF NewIds
  <1>7. UpFlows'
    <2>1. ASSUME NEW l \in serverEnd
          PROVE  /\ Flows(UpStream(l)', sent'[l]["up"], got'[l]["up"])
                 /\ Closes(UpStream(l)', sent'[l]["up"], got'[l]["up"])
      <3>1. l \in Links
        BY DEF LinkInv, LinkTyped
      <3>2. CASE l # joined
        <4>1. UpStream(l)' = UpStream(l) /\ sent'[l]["up"] = sent[l]["up"] /\ got' = got
          BY <1>2, <1>4, <3>1, <3>2 DEF UpStream
        <4> QED
          BY <4>1 DEF LinkInv, UpFlows
      <3>3. CASE l = joined
        <4>1. UpStream(l) = Stream(h, w, <<>>) /\ UpStream(l)' = Stream(h, w, Frame(commands + 1, size))
          BY <1>1, <3>3 DEF UpStream
        <4>2. Flows(Stream(h, w, <<>>), ids, read) /\ Closes(Stream(h, w, <<>>), ids, read)
          BY <3>3, <4>1 DEF LinkInv, UpFlows
        <4>3. /\ Flows(Stream(h, w, Frame(commands + 1, size)), Append(ids, commands + 1), read)
              /\ Closes(Stream(h, w, Frame(commands + 1, size)), Append(ids, commands + 1), read)
          BY ONLY <1>1, <1>2, <4>2, FrameBegun, size \in Nat \ {0}
        <4> QED
          BY <1>4, <3>3, <4>1, <4>3
      <3> QED
        BY <3>2, <3>3
    <2> QED
      BY <2>1 DEF LinkInv, UpFlows
  <1>8. DownFlows'
    <2>1. /\ DownStream(joined)' = DownStream(joined)
          /\ sent'[joined]["down"] = sent[joined]["down"]
      BY <1>2, <1>4 DEF DownStream
    <2> QED
      BY <2>1 DEF LinkInv, DownFlows
  <1>9. FramesArriveInOrder'
    <2>1. ASSUME NEW l \in Links, NEW way \in Ways PROVE IsPrefix(got'[l][way], sent'[l][way])
      <3>1. IsPrefix(got[l][way], sent[l][way])
        BY DEF LinkInv, FramesArriveInOrder
      <3>2. CASE l = joined /\ way = "up"
        BY <1>1, <1>2, <1>4, <3>1, <3>2, LongerPrefix
      <3>3. CASE l # joined \/ way # "up"
        BY <1>4, <3>1, <3>3
      <3> QED
        BY <3>2, <3>3
    <2> QED
      BY <2>1 DEF FramesArriveInOrder
  <1> QED
    BY <1>5, <1>6, <1>7, <1>8, <1>9 DEF LinkInv

(* The supervisor, or a dispatch, begins a command.                        *)
LEMMA BeginKeeps == ASSUME LinkInv, ShellBegins \/ CallerBegins PROVE LinkInv'
  <1> USE DEF pipes, serverSide, shellSide, linkHistory
  <1>1. PICK who \in {"shell", "caller"}, size \in Nat \ {0} :
          /\ Begin(who, size)
          /\ \/ who = "shell" /\ ShellBegins
             \/ who = "caller" /\ CallerBegins
    <2>1. CASE ShellBegins
      BY <2>1 DEF ShellBegins
    <2>2. CASE CallerBegins
      BY <2>2, LinkAssumption DEF CallerBegins, LinkAssumption
    <2> QED
      BY <2>1, <2>2
  <1>2. /\ UNCHANGED <<pipes, serverSide, events, joined, halfEvent, got>>
        /\ shellAt \notin {"apart", "leaving"}
    BY <1>1 DEF ShellBegins, CallerBegins
  <1>3. joined # 0 /\ joined \in Links
    BY <1>2, LinkFacts DEF LinkInv, EndsMatch
  <1>4. /\ commands + 1 \in Nat /\ commands' = commands + 1 /\ holder' = who
        /\ pieces' = Frame(commands + 1, size) /\ Frame(commands + 1, size) \in Seq(Pieces)
        /\ sent' = [sent EXCEPT ![joined]["up"] = Append(sent[joined]["up"], commands + 1)]
    <2>1. commands + 1 \in Nat
      BY DEF LinkInv, LinkTyped
    <2> QED
      BY <1>1, <2>1, FrameTyped DEF Begin, Began
  <1>5. LinkTyped'
    <2>1. sent' \in [Links -> [Ways -> Seq(Nat)]]
      <3>1. sent \in [Links -> [Ways -> Seq(Nat)]] /\ "up" \in Ways
        BY DEF LinkInv, LinkTyped, Ways
      <3>2. sent[joined]["up"] \in Seq(Nat)
        BY <1>3, <3>1
      <3>3. Append(sent[joined]["up"], commands + 1) \in Seq(Nat)
        BY <1>4, <3>2, AppendProperties
      <3> QED
        BY <1>3, <1>4, <3>1, <3>3, PutPipe
    <2>2. /\ shellAt' \in {"apart", "greet", "select", "queued", "writing", "leaving"}
          /\ caller' \in {"idle", "queued", "writing"}
      BY <1>1 DEF ShellBegins, CallerBegins, LinkInv, LinkTyped
    <2> QED
      BY <1>2, <1>4, <2>1, <2>2 DEF LinkInv, LinkTyped
  <1>6. EndsMatch'
    BY <1>1, <1>2, <1>3, <1>4 DEF ShellBegins, CallerBegins, Begin, LinkInv, EndsMatch
  <1> QED
    BY <1>1, <1>2, <1>3, <1>5, <1>6, BeginStep

(* A piece of a command goes into the pipe, or the lock is given back.     *)
LEMMA SendCommandKeeps == ASSUME LinkInv, SendCommand PROVE LinkInv'
  <1> USE DEF pipes, serverSide, shellSide, senderSide, linkHistory
  <1>1. /\ holder # "none" /\ joined # 0 /\ joined \in Links /\ shellAt # "apart"
        /\ "up" \in Ways /\ "down" \in Ways /\ Ways = {"up", "down"} /\ "up" # "down"
        /\ UNCHANGED <<clientEnd, serverEnd, listening, daemonAt, serving, half, outgoing, cursor,
                       events, joined, halfEvent, commands, sent, got>>
    BY LinkFacts DEF LinkInv, EndsMatch, SendCommand, Ways
  <1>2. /\ caller' \in {"idle", "queued", "writing"} /\ holder' \in {"none", "shell", "caller"}
        /\ shellAt' \in {"apart", "greet", "select", "queued", "writing", "leaving"}
        /\ shellAt' # "apart" /\ (shellAt' = "leaving" \/ shellAt # "leaving")
        /\ holder' = "shell" <=> shellAt' = "writing"
        /\ holder' = "none" => pieces' = <<>>
    <2>1. CASE holder' = holder
      BY <1>1, <2>1 DEF SendCommand, LinkInv, LinkTyped, EndsMatch, Released, Back
    <2>2. CASE holder' # holder
      <3>1. Released /\ (Back(TRUE) \/ Back(FALSE))
        BY <2>2 DEF SendCommand
      <3>2. CASE holder = "caller"
        BY <1>1, <3>1, <3>2 DEF LinkInv, LinkTyped, EndsMatch, Released, Back
      <3>3. CASE holder = "shell"
        BY <1>1, <3>1, <3>3 DEF LinkInv, LinkTyped, EndsMatch, Released, Back
      <3> QED
        BY <1>1, <3>2, <3>3 DEF LinkInv, LinkTyped
    <2> QED
      BY <2>1, <2>2
  <1> DEFINE h == IF joined = serving THEN half ELSE <<>>
             w == wire[joined]["up"]
  <1>3. h \in Seq(Pieces) /\ w \in Seq(Pieces) /\ pieces \in Seq(Pieces) /\ <<>> \in Seq(Pieces)
    BY <1>1, LinkFacts DEF LinkInv
  <1>4. EndsMatch'
    BY <1>1, <1>2 DEF LinkInv, EndsMatch
  <1>5. NewIds' /\ FramesArriveInOrder'
    BY <1>1 DEF LinkInv, NewIds, FramesArriveInOrder
  <1>6. CASE joined \in serverEnd
    <2>1. Written(joined, "up", pieces) /\ pieces # <<>>
      BY <1>6 DEF SendCommand, Written
    <2>2. /\ Stream(h, Append(w, Head(pieces)), Tail(pieces)) = Stream(h, w, pieces)
          /\ Tail(pieces) \in Seq(Pieces) /\ Append(w, Head(pieces)) \in Seq(Pieces)
          /\ Tail(pieces) = <<>> <=> Len(pieces) = 1
      BY ONLY <1>3, <2>1, WriteMoves
    <2>3. pieces' = Tail(pieces)
      BY <1>6, <2>2 DEF SendCommand, Released
    <2>4. /\ wire' \in [Links -> [Ways -> Seq(Pieces)]] /\ wire'[joined]["up"] = Append(w, Head(pieces))
          /\ \A l \in Links, way \in Ways : (l # joined \/ way # "up") => wire'[l][way] = wire[l][way]
      <3>1. wire \in [Links -> [Ways -> Seq(Pieces)]] /\ joined \in Links /\ "up" \in Ways
        BY <1>1 DEF LinkInv, LinkTyped
      <3>2. wire' = [wire EXCEPT ![joined]["up"] = Append(w, Head(pieces))]
        BY <2>1 DEF Written
      <3> QED
        BY ONLY <2>2, <3>1, <3>2, PutPipe
    <2>5. LinkTyped'
      BY <1>1, <1>2, <2>2, <2>3, <2>4 DEF LinkInv, LinkTyped
    <2>6. Pending'
      <3>1. \A l \in Links : l > listening => l # joined
        BY <1>1 DEF LinkInv, LinkTyped, EndsMatch, Links
      <3> QED
        BY <1>1, <2>4, <3>1 DEF LinkInv, Pending
    <2>7. UpFlows'
      <3>1. ASSUME NEW l \in serverEnd PROVE UpStream(l)' = UpStream(l)
        <4>1. l \in Links
          BY DEF LinkInv, LinkTyped
        <4>2. CASE l = joined
          BY <1>1, <2>2, <2>3, <2>4, <4>2 DEF UpStream
        <4>3. CASE l # joined
          BY <1>1, <2>4, <4>1, <4>3 DEF UpStream
        <4> QED
          BY <4>2, <4>3
      <3> QED
        BY <1>1, <3>1 DEF LinkInv, UpFlows
    <2>8. DownFlows'
      <3>1. DownStream(joined)' = DownStream(joined)
        BY <1>1, <2>4 DEF DownStream
      <3> QED
        BY <1>1, <1>2, <3>1 DEF LinkInv, DownFlows
    <2> QED
      BY <1>4, <1>5, <2>5, <2>6, <2>7, <2>8 DEF LinkInv
  <1>7. CASE joined \notin serverEnd
    <2>1. wire' = wire /\ pieces' = <<>>
      BY <1>7 DEF SendCommand, Released
    <2>2. LinkTyped'
      BY <1>1, <1>2, <1>3, <2>1 DEF LinkInv, LinkTyped
    <2>3. Pending'
      BY <1>1, <2>1 DEF LinkInv, Pending
    <2>4. UpFlows'
      <3>1. ASSUME NEW l \in serverEnd PROVE UpStream(l)' = UpStream(l)
        BY <1>1, <1>7, <2>1 DEF UpStream
      <3> QED
        BY <1>1, <3>1 DEF LinkInv, UpFlows
    <2>5. DownFlows'
      <3>1. DownStream(joined)' = DownStream(joined)
        BY <1>1, <2>1 DEF DownStream
      <3> QED
        BY <1>1, <1>2, <3>1 DEF LinkInv, DownFlows
    <2> QED
      BY <1>4, <1>5, <2>2, <2>3, <2>4, <2>5 DEF LinkInv
  <1> QED
    BY <1>6, <1>7

(* A piece of an event goes into the pipe; or the client is gone.          *)
LEMMA SendEventKeeps == ASSUME LinkInv, SendEvent PROVE LinkInv'
  <1> USE DEF pipes, shellSide, senderSide, linkHistory
  <1>1. /\ serving # 0 /\ serving \in Links /\ daemonAt \in {"sending", "farewell"}
        /\ "up" \in Ways /\ "down" \in Ways /\ Ways = {"up", "down"} /\ "up" # "down"
        /\ UNCHANGED <<clientEnd, listening, cursor, events, shellAt, joined, halfEvent, caller,
                       holder, pieces, commands, sent, got>>
    BY LinkFacts DEF LinkInv, EndsMatch, SendEvent, Ways
  <1>2. CASE serving \notin clientEnd
    <2>1. /\ cursor' \in 0..Len(events) /\ wire' \in [Links -> [Ways -> Seq(Pieces)]]
          /\ wire' = wire
      BY <1>1, <1>2 DEF LinkInv, LinkTyped, SendEvent
    <2>2. Alive /\ (AcceptsNext \/ Ends)
      BY <1>2 DEF SendEvent, Alive
    <2>3. UNCHANGED <<clientEnd, listening, events, shellSide, senderSide, sent, got>>
      BY <1>1
    <2> QED
      BY ONLY LinkInv, <2>1, <2>2, <2>3, HangStep
  <1>3. CASE serving \in clientEnd
    <2>1. /\ Written(serving, "down", outgoing) /\ outgoing # <<>> /\ outgoing' = Tail(outgoing)
          /\ daemonAt' = IF outgoing' # <<>> THEN daemonAt
                         ELSE IF daemonAt = "sending" THEN "select" ELSE "drain"
          /\ UNCHANGED <<serverEnd, serving, half>>
      BY <1>3 DEF SendEvent, Written
    <2> DEFINE w == wire[serving]["down"]
    <2>2. w \in Seq(Pieces) /\ halfEvent \in Seq(Pieces) /\ outgoing \in Seq(Pieces)
      BY <1>1, LinkFacts DEF LinkInv
    <2>3. /\ Stream(halfEvent, Append(w, Head(outgoing)), Tail(outgoing)) = Stream(halfEvent, w, outgoing)
          /\ Tail(outgoing) \in Seq(Pieces) /\ Append(w, Head(outgoing)) \in Seq(Pieces)
      BY ONLY <2>1, <2>2, WriteMoves
    <2>4. /\ wire' \in [Links -> [Ways -> Seq(Pieces)]]
          /\ wire'[serving]["down"] = Append(w, Head(outgoing))
          /\ \A l \in Links, way \in Ways : (l # serving \/ way # "down") => wire'[l][way] = wire[l][way]
      <3>1. wire \in [Links -> [Ways -> Seq(Pieces)]] /\ serving \in Links /\ "down" \in Ways
        BY <1>1 DEF LinkInv, LinkTyped
      <3>2. wire' = [wire EXCEPT ![serving]["down"] = Append(w, Head(outgoing))]
        BY <2>1 DEF Written
      <3> QED
        BY ONLY <2>3, <3>1, <3>2, PutPipe
    <2>5. LinkTyped'
      BY <1>1, <2>1, <2>3, <2>4 DEF LinkInv, LinkTyped
    <2>6. EndsMatch'
      BY <1>1, <2>1 DEF LinkInv, EndsMatch
    <2>7. Pending'
      <3>1. \A l \in Links : l >= listening => l # serving
        BY <1>1 DEF LinkInv, LinkTyped, EndsMatch, Links
      <3> QED
        BY <1>1, <2>4, <3>1 DEF LinkInv, Pending
    <2>8. NewIds' /\ FramesArriveInOrder'
      BY <1>1, <2>1 DEF LinkInv, NewIds, FramesArriveInOrder
    <2>9. UpFlows'
      <3>1. ASSUME NEW l \in serverEnd PROVE UpStream(l)' = UpStream(l)
        <4>1. l \in Links
          BY DEF LinkInv, LinkTyped
        <4> QED
          BY <1>1, <2>1, <2>4, <4>1 DEF UpStream
      <3> QED
        BY <1>1, <2>1, <3>1 DEF LinkInv, UpFlows
    <2>10. DownFlows'
      <3> SUFFICES ASSUME joined # 0 PROVE DownFlows'
        BY <1>1 DEF DownFlows
      <3>1. joined \in Links
        BY LinkFacts DEF LinkInv
      <3>2. DownStream(joined)' = DownStream(joined)
        <4>1. CASE joined = serving
          BY <1>1, <2>1, <2>3, <2>4, <4>1 DEF DownStream
        <4>2. CASE joined # serving
          BY <1>1, <2>1, <2>4, <3>1, <4>2 DEF DownStream
        <4> QED
          BY <4>1, <4>2
      <3> QED
        BY <1>1, <2>1, <3>2 DEF LinkInv, DownFlows
    <2> QED
      BY <2>5, <2>6, <2>7, <2>8, <2>9, <2>10 DEF LinkInv
  <1> QED
    BY <1>2, <1>3

(* The daemon receives an event, and its read of a command is dropped.     *)
LEMMA DropsHalfStep ==
  ASSUME LinkInv, serving \in Links, half' = <<>>,
         UNCHANGED <<serving, serverEnd, joined, pieces, wire, got>>,
         \A l \in Links : sent'[l]["up"] = sent[l]["up"]
  PROVE  UpFlows'
  <1>1. ASSUME NEW l \in serverEnd
        PROVE  /\ Flows(UpStream(l)', sent'[l]["up"], got'[l]["up"])
               /\ Closes(UpStream(l)', sent'[l]["up"], got'[l]["up"])
    <2>1. l \in Links /\ sent'[l]["up"] = sent[l]["up"] /\ got' = got
      BY DEF LinkInv, LinkTyped
    <2>2. CASE l # serving
      <3>1. UpStream(l)' = UpStream(l)
        BY <2>2 DEF UpStream
      <3> QED
        BY <2>1, <3>1 DEF LinkInv, UpFlows
    <2>3. CASE l = serving
      <3> DEFINE w == wire[l]["up"]
                 r == IF l = joined THEN pieces ELSE <<>>
                 ids == sent[l]["up"]
                 read == got[l]["up"]
      <3>1. /\ half \in Seq(Pieces) /\ w \in Seq(Pieces) /\ r \in Seq(Pieces)
            /\ ids \in Seq(Nat) /\ read \in Seq(Nat)
        BY <2>1, LinkFacts DEF LinkInv
      <3>2. /\ NoNewline(half) /\ Flows(Stream(half, w, r), ids, read)
            /\ Closes(Stream(half, w, r), ids, read)
        BY <2>3 DEF LinkInv, UpFlows, UpStream
      <3>3. Flows(Stream(<<>>, w, r), ids, read) /\ Closes(Stream(<<>>, w, r), ids, read)
        BY ONLY <3>1, <3>2, HalfDropped
      <3> QED
        BY <2>1, <2>3, <3>3 DEF UpStream
    <2> QED
      BY <2>2, <2>3
  <1> QED
    BY <1>1 DEF UpFlows, NoNewline

(* The daemon receives an event: it lost some, or hangs up, or begins a    *)
(* frame.                                                                  *)
LEMMA TakeEventKeeps == ASSUME LinkInv, TakeEvent PROVE LinkInv'
  <1> USE DEF pipes, shellSide, senderSide, linkHistory
  <1>1. /\ serving # 0 /\ serving \in Links /\ daemonAt \in {"select", "drain"}
        /\ outgoing = <<>> /\ cursor \in Nat /\ Len(events) \in Nat /\ cursor < Len(events)
        /\ events \in Seq(Nat \ {0}) /\ Ring \in Nat \ {0} /\ <<>> \in Seq(Pieces)
        /\ "up" \in Ways /\ "down" \in Ways /\ Ways = {"up", "down"} /\ "up" # "down"
        /\ UNCHANGED <<wire, clientEnd, listening, events, shellAt, joined, halfEvent, caller,
                       holder, pieces, commands, got>>
    <2>1. /\ cursor \in Nat /\ Len(events) \in Nat /\ events \in Seq(Nat \ {0})
          /\ Ring \in Nat \ {0} /\ <<>> \in Seq(Pieces)
      BY LinkAssumption DEF LinkAssumption, LinkInv, LinkTyped
    <2>2. daemonAt \in {"select", "drain"} /\ cursor < Len(events)
      BY DEF TakeEvent
    <2>3. serving # 0 /\ outgoing = <<>>
      BY <2>2 DEF LinkInv, EndsMatch
    <2>4. serving \in Links
      BY <2>3, LinkFacts DEF LinkInv
    <2> QED
      BY <2>1, <2>2, <2>3, <2>4 DEF TakeEvent, Ways
  <1>2. CASE Len(events) - cursor > Ring /\ daemonAt = "select"
    <2>1. /\ cursor' = Len(events) - Ring /\ half' = <<>>
          /\ UNCHANGED <<daemonAt, serverEnd, serving, outgoing, sent>>
      BY <1>2 DEF TakeEvent, DropsHalf
    <2>2. cursor' \in 0..Len(events) /\ cursor <= cursor' /\ cursor' \in Nat
      BY <1>1, <1>2, <2>1
    <2>3. LinkTyped' /\ EndsMatch'
      BY <1>1, <2>1, <2>2 DEF LinkInv, LinkTyped, EndsMatch
    <2>4. NewIds'
      <3>1. ASSUME NEW k \in DOMAIN sent[serving]["down"]
            PROVE  sent[serving]["down"][k] <= cursor'
        <4>1. sent[serving]["down"] \in Seq(Nat)
          BY <1>1, LinkFacts DEF LinkInv
        <4>2. sent[serving]["down"][k] \in Nat /\ sent[serving]["down"][k] <= cursor
          BY <1>1, <4>1 DEF LinkInv, NewIds
        <4> QED
          BY <1>1, <2>2, <4>2
      <3> QED
        BY <1>1, <2>1, <3>1 DEF LinkInv, NewIds
    <2>5. UpFlows'
      BY <1>1, <2>1, DropsHalfStep
    <2>6. Pending' /\ FramesArriveInOrder'
      BY <1>1, <2>1 DEF LinkInv, Pending, FramesArriveInOrder
    <2>7. DownFlows'
      <3>1. DownStream(joined)' = DownStream(joined)
        BY <1>1, <2>1 DEF DownStream
      <3> QED
        BY <1>1, <2>1, <3>1 DEF LinkInv, DownFlows
    <2> QED
      BY <2>3, <2>4, <2>5, <2>6, <2>7 DEF LinkInv
  <1>3. CASE (Len(events) - cursor > Ring /\ daemonAt # "select")
             \/ (~(Len(events) - cursor > Ring) /\ events[cursor'] > Limit)
    <2>1. \/ cursor' = Len(events) - Ring /\ Len(events) - cursor > Ring
          \/ cursor' = cursor + 1
      BY <1>3 DEF TakeEvent
    <2>2. cursor' \in 0..Len(events)
      BY <1>1, <2>1
    <2>3. Alive /\ (AcceptsNext \/ Ends) /\ sent' = sent
      BY <1>1, <1>3 DEF TakeEvent, Alive
    <2>4. UNCHANGED <<clientEnd, listening, events, shellSide, senderSide, sent, got>>
      BY <1>1, <2>3
    <2>5. wire' \in [Links -> [Ways -> Seq(Pieces)]] /\ wire' = wire
      BY <1>1 DEF LinkInv, LinkTyped
    <2> QED
      BY ONLY LinkInv, <2>2, <2>3, <2>4, <2>5, HangStep
  <1>4. CASE ~(Len(events) - cursor > Ring) /\ ~(events[cursor'] > Limit)
    <2> DEFINE ids == sent[serving]["down"]
               read == got[serving]["down"]
               w == wire[serving]["down"]
    <2>1. /\ cursor' = cursor + 1 /\ half' = <<>> /\ UNCHANGED <<serverEnd, serving>>
          /\ outgoing' = Frame(cursor', events[cursor'])
          /\ daemonAt' \in {"sending", "farewell"}
          /\ sent' = [sent EXCEPT ![serving]["down"] = Append(ids, cursor')]
      BY <1>4 DEF TakeEvent, DropsHalf, Began
    <2>2. PICK id \in Nat, size \in Nat \ {0} :
            id = cursor' /\ size = events[cursor'] /\ cursor < id /\ id \in 0..Len(events)
      <3>1. cursor' \in 1..Len(events) /\ cursor' \in Nat /\ cursor < cursor'
        BY <1>1, <2>1
      <3>2. events[cursor'] \in Nat \ {0}
        BY <1>1, <3>1
      <3> QED
        BY <3>1, <3>2
    <2>3. /\ outgoing' = Frame(id, size) /\ Frame(id, size) \in Seq(Pieces)
          /\ sent' = [sent EXCEPT ![serving]["down"] = Append(ids, id)]
      BY <2>1, <2>2, FrameTyped
    <2>4. ids \in Seq(Nat) /\ read \in Seq(Nat) /\ w \in Seq(Pieces) /\ halfEvent \in Seq(Pieces)
      BY <1>1, LinkFacts DEF LinkInv
    <2>5. /\ Append(ids, id) \in Seq(Nat) /\ Distinct(Append(ids, id))
          /\ \A k \in DOMAIN Append(ids, id) : Append(ids, id)[k] <= id
      <3>1. Distinct(ids) /\ \A k \in DOMAIN ids : ids[k] <= cursor
        BY <1>1 DEF LinkInv, NewIds
      <3> QED
        BY ONLY <1>1, <2>2, <2>4, <3>1, FreshId
    <2>6. /\ sent' \in [Links -> [Ways -> Seq(Nat)]] /\ sent'[serving]["down"] = Append(ids, id)
          /\ \A l \in Links, way \in Ways : (l # serving \/ way # "down") => sent'[l][way] = sent[l][way]
      <3>1. sent \in [Links -> [Ways -> Seq(Nat)]]
        BY DEF LinkInv, LinkTyped
      <3> QED
        BY ONLY SMTT(20), <1>1, <2>3, <2>5, <3>1, PutPipe
    <2>7. LinkTyped'
      BY <1>1, <2>1, <2>2, <2>3, <2>6 DEF LinkInv, LinkTyped
    <2>8. EndsMatch'
      BY <1>1, <2>1 DEF LinkInv, EndsMatch
    <2>9. Pending'
      <3>1. \A l \in Links : l >= listening => l # serving
        BY <1>1 DEF LinkInv, LinkTyped, EndsMatch, Links
      <3> QED
        BY <1>1, <2>6, <3>1 DEF LinkInv, Pending
    <2>10. NewIds'
      <3>1. ASSUME NEW l \in Links, NEW way \in Ways PROVE Distinct(sent'[l][way])
        BY <1>1, <2>5, <2>6 DEF LinkInv, NewIds
      <3>2. \A l \in Links : sent'[l]["up"] = sent[l]["up"]
        BY <1>1, <2>6
      <3>3. \A k \in DOMAIN sent'[serving']["down"] : sent'[serving']["down"][k] <= cursor'
        BY <2>1, <2>2, <2>5, <2>6
      <3> QED
        BY <1>1, <3>1, <3>2, <3>3 DEF LinkInv, NewIds
    <2>11. UpFlows'
      BY <1>1, <2>1, <2>6, DropsHalfStep
    <2>12. DownFlows'
      <3> SUFFICES ASSUME joined # 0, shellAt # "leaving" PROVE DownFlows'
        BY <1>1 DEF DownFlows
      <3>1. joined \in Links /\ NoNewline(halfEvent)
        BY LinkFacts DEF LinkInv, DownFlows
      <3>2. CASE joined # serving
        <4>1. DownStream(joined)' = DownStream(joined) /\ sent'[joined]["down"] = sent[joined]["down"]
          BY <1>1, <2>1, <2>6, <3>1, <3>2 DEF DownStream
        <4> QED
          BY <1>1, <2>1, <3>2, <4>1 DEF LinkInv, DownFlows
      <3>3. CASE joined = serving
        <4>1. DownStream(joined) = Stream(halfEvent, w, <<>>)
          BY <1>1, <3>3 DEF DownStream
        <4>2. DownStream(joined)' = Stream(halfEvent, w, Frame(id, size))
          BY <1>1, <2>1, <2>3, <3>3 DEF DownStream
        <4>3. Flows(Stream(halfEvent, w, <<>>), ids, read) /\ Closes(Stream(halfEvent, w, <<>>), ids, read)
          BY <3>3, <4>1 DEF LinkInv, DownFlows
        <4>4. /\ Flows(Stream(halfEvent, w, Frame(id, size)), Append(ids, id), read)
              /\ Closes(Stream(halfEvent, w, Frame(id, size)), Append(ids, id), read)
          BY ONLY <2>2, <2>4, <4>3, FrameBegun
        <4> QED
          BY <1>1, <2>6, <3>1, <3>3, <4>2, <4>4 DEF DownFlows
      <3> QED
        BY <3>2, <3>3
    <2>13. FramesArriveInOrder'
      <3>1. ASSUME NEW l \in Links, NEW way \in Ways PROVE IsPrefix(got'[l][way], sent'[l][way])
        <4>1. IsPrefix(got[l][way], sent[l][way]) /\ got' = got
          BY <1>1 DEF LinkInv, FramesArriveInOrder
        <4>2. CASE l = serving /\ way = "down"
          BY <2>2, <2>4, <2>6, <4>1, <4>2, LongerPrefix
        <4>3. CASE l # serving \/ way # "down"
          BY <2>6, <4>1, <4>3
        <4> QED
          BY <4>2, <4>3
      <3> QED
        BY <3>1 DEF FramesArriveInOrder
    <2> QED
      BY <2>7, <2>8, <2>9, <2>10, <2>11, <2>12, <2>13 DEF LinkInv
  <1> QED
    BY <1>2, <1>3, <1>4

(* What is at hand of a command is read.                                   *)
LEMMA ReadCommandKeeps == ASSUME LinkInv, ReadCommand PROVE LinkInv'
  <1> USE DEF shellSide, senderSide
  <1>1. PICK n \in TakeSizes(wire[serving]["up"]) :
          LET seen == half \o SubSeq(wire[serving]["up"], 1, n) IN
          /\ wire' = [wire EXCEPT ![serving]["up"] = SubSeq(@, n + 1, Len(@))]
          /\ \/ /\ TooLarge(seen) \/ (Newline(seen) /\ ~Whole(seen))
                /\ invalid' = invalid \cup {serving} /\ AfterInvalid
                /\ UNCHANGED <<events, got>>
             \/ /\ ~TooLarge(seen) /\ Whole(seen) /\ Decoded(serving, "up", seen[1].id)
                /\ half' = <<>> /\ daemonAt' \in {"select", "drain"}
                /\ \E reply \in {<<>>} \cup {<<size>> : size \in EventSizes} : Answers(<<1>> \o reply)
                /\ UNCHANGED <<serverEnd, serving, outgoing, invalid>>
             \/ /\ ~TooLarge(seen) /\ ~Newline(seen) /\ half' = seen
                /\ UNCHANGED <<serverEnd, serving, outgoing, daemonAt, events, got, invalid>>
    BY DEF ReadCommand
  <1> DEFINE w == wire[serving]["up"]
             seen == half \o SubSeq(w, 1, n)
             rest == SubSeq(w, n + 1, Len(w))
             r == IF serving = joined THEN pieces ELSE <<>>
             ids == sent[serving]["up"]
             read == got[serving]["up"]
  <1>2. /\ daemonAt = "select" /\ serving # 0 /\ serving \in serverEnd /\ outgoing = <<>>
        /\ serving \in Links /\ cursor \in 0..Len(events)
        /\ UNCHANGED <<clientEnd, listening, cursor, shellAt, joined, halfEvent, caller, holder,
                       pieces, commands, sent>>
    <2>1. daemonAt = "select"
      BY DEF ReadCommand
    <2>2. serving # 0 /\ serving \in serverEnd /\ outgoing = <<>>
      BY <2>1 DEF LinkInv, EndsMatch
    <2> QED
      BY <2>1, <2>2, LinkFacts DEF LinkInv, LinkTyped, ReadCommand
  <1>3. /\ w \in Seq(Pieces) /\ half \in Seq(Pieces) /\ r \in Seq(Pieces) /\ <<>> \in Seq(Pieces)
        /\ ids \in Seq(Nat) /\ read \in Seq(Nat) /\ NoNewline(half) /\ n \in TakeSizes(w)
    BY <1>2, LinkFacts DEF LinkInv, UpFlows
  <1>4. /\ n \in 1..Len(w) /\ seen \in Seq(Pieces) /\ (~Newline(seen) => NoNewline(seen))
    BY ONLY <1>3, TakenNewlines
  <1>5. /\ rest \in Seq(Pieces) /\ Stream(seen, rest, r) = Stream(half, w, r)
    BY ONLY ZenonT(30), <1>3, <1>4, TakeMoves
  <1>6. /\ Ways = {"up", "down"} /\ "up" \in Ways /\ "down" \in Ways /\ "up" # "down"
    BY DEF Ways
  <1>7. /\ wire' \in [Links -> [Ways -> Seq(Pieces)]] /\ wire'[serving]["up"] = rest
        /\ \A l \in Links, way \in Ways : (l # serving \/ way # "up") => wire'[l][way] = wire[l][way]
    <2>1. wire \in [Links -> [Ways -> Seq(Pieces)]]
      BY DEF LinkInv, LinkTyped
    <2>2. wire' = [wire EXCEPT ![serving]["up"] = rest]
      BY <1>1
    <2>3. serving \in Links /\ rest \in Seq(Pieces) /\ "up" \in Ways
      BY <1>2, <1>5, <1>6
    <2> HIDE DEF rest
    <2> QED
      BY ONLY <2>1, <2>2, <2>3, PutPipe
  <1>8. /\ Flows(Stream(half, w, r), ids, read) /\ Closes(Stream(half, w, r), ids, read)
    BY <1>2 DEF LinkInv, UpFlows, UpStream
  <1>9. Distinct(ids) /\ IsPrefix(read, ids)
    BY <1>2, <1>6 DEF LinkInv, NewIds, FramesArriveInOrder
  <1>10. Pending' \/ got' # got
    <2>1. \A l \in Links : l > listening => l # serving
      BY <1>2 DEF LinkInv, LinkTyped, EndsMatch, Links
    <2> QED
      BY <1>2, <1>6, <1>7, <2>1 DEF LinkInv, Pending
  <1>11. CASE AfterInvalid /\ UNCHANGED <<events, got>>
    <2>1. Alive /\ (AcceptsNext \/ Ends)
      BY <1>2, <1>11 DEF Alive, AfterInvalid
    <2>2. UNCHANGED <<clientEnd, listening, events, shellSide, senderSide, sent, got>>
      BY <1>2, <1>11
    <2>3. cursor' \in 0..Len(events)
      BY <1>2
    <2> QED
      BY ONLY LinkInv, <1>7, <2>1, <2>2, <2>3, HangStep
  <1>12. CASE ~Newline(seen) /\ half' = seen
              /\ UNCHANGED <<serverEnd, serving, outgoing, daemonAt, events, got>>
    <2>1. LinkTyped' /\ EndsMatch'
      BY <1>2, <1>4, <1>7, <1>12 DEF LinkInv, LinkTyped, EndsMatch
    <2>2. Pending' /\ NewIds' /\ FramesArriveInOrder'
      BY <1>2, <1>10, <1>12 DEF LinkInv, NewIds, FramesArriveInOrder
    <2>3. UpFlows'
      <3>1. ASSUME NEW l \in serverEnd PROVE UpStream(l)' = UpStream(l)
        <4>1. l \in Links
          BY DEF LinkInv, LinkTyped
        <4>2. CASE l = serving
          BY <1>2, <1>5, <1>7, <1>12, <4>2 DEF UpStream
        <4>3. CASE l # serving
          BY <1>2, <1>6, <1>7, <1>12, <4>1, <4>3 DEF UpStream
        <4> QED
          BY <4>2, <4>3
      <3> QED
        BY <1>2, <1>4, <1>12, <3>1 DEF LinkInv, UpFlows
    <2>4. DownFlows'
      <3> SUFFICES ASSUME joined # 0 PROVE DownFlows'
        BY <1>2 DEF DownFlows
      <3>1. joined \in Links
        BY LinkFacts DEF LinkInv
      <3>2. DownStream(joined)' = DownStream(joined)
        BY <1>2, <1>6, <1>7, <1>12, <3>1 DEF DownStream
      <3> QED
        BY <1>2, <1>12, <3>2 DEF LinkInv, DownFlows
    <2> QED
      BY <2>1, <2>2, <2>3, <2>4 DEF LinkInv
  <1>13. CASE /\ Whole(seen) /\ Decoded(serving, "up", seen[1].id)
              /\ half' = <<>> /\ daemonAt' \in {"select", "drain"}
              /\ \E reply \in {<<>>} \cup {<<size>> : size \in EventSizes} : Answers(<<1>> \o reply)
              /\ UNCHANGED <<serverEnd, serving, outgoing>>
    <2> DEFINE read2 == Append(read, seen[1].id)
    <2>1. /\ read2 \in Seq(Nat) /\ Flows(Stream(<<>>, rest, r), ids, read2)
          /\ Closes(Stream(<<>>, rest, r), ids, read2) /\ IsPrefix(read2, ids)
      <3>1. Newline(seen)
        BY <1>13 DEF Whole
      <3> QED
        BY ONLY <1>3, <1>8, <1>9, <3>1, FrameRead
    <2>2. /\ got' \in [Links -> [Ways -> Seq(Nat)]] /\ got'[serving]["up"] = read2
          /\ \A l \in Links, way \in Ways : (l # serving \/ way # "up") => got'[l][way] = got[l][way]
      <3>1. got \in [Links -> [Ways -> Seq(Nat)]]
        BY DEF LinkInv, LinkTyped
      <3>2. got' = [got EXCEPT ![serving]["up"] = read2]
        BY <1>13 DEF Decoded
      <3>3. serving \in Links /\ read2 \in Seq(Nat) /\ "up" \in Ways
        BY <1>2, <1>6, <2>1
      <3> HIDE DEF read2
      <3> QED
        BY ONLY <3>1, <3>2, <3>3, PutPipe
    <2>3. events' \in Seq(Nat \ {0}) /\ cursor \in 0..Len(events')
      <3>1. PICK reply \in {<<>>} \cup {<<size>> : size \in EventSizes} : events' = events \o (<<1>> \o reply)
        BY <1>13 DEF Answers
      <3>2. reply \in Seq(Nat \ {0}) /\ <<1>> \in Seq(Nat \ {0}) /\ events \in Seq(Nat \ {0})
        <4>1. <<>> \in Seq(Nat \ {0}) /\ \A size \in Nat \ {0} : <<size>> \in Seq(Nat \ {0})
          OBVIOUS
        <4>2. \A size \in EventSizes : size \in Nat \ {0}
          BY LinkAssumption DEF LinkAssumption
        <4>3. reply \in Seq(Nat \ {0})
          BY <4>1, <4>2
        <4> QED
          BY <4>1, <4>3 DEF LinkInv, LinkTyped
      <3>3. <<1>> \o reply \in Seq(Nat \ {0})
        BY <3>2, ConcatProperties
      <3>4. /\ events' \in Seq(Nat \ {0}) /\ Len(events') = Len(events) + Len(<<1>> \o reply)
            /\ Len(events) \in Nat /\ Len(<<1>> \o reply) \in Nat
        BY <3>1, <3>2, <3>3, ConcatProperties
      <3> QED
        BY <1>2, <3>4
    <2>4. LinkTyped'
      BY <1>2, <1>3, <1>7, <1>13, <2>2, <2>3 DEF LinkInv, LinkTyped
    <2>5. EndsMatch'
      BY <1>2, <1>13 DEF LinkInv, EndsMatch
    <2>6. Pending'
      <3>1. \A l \in Links : l > listening => l # serving
        BY <1>2 DEF LinkInv, LinkTyped, EndsMatch, Links
      <3> QED
        BY <1>2, <1>6, <1>7, <2>2, <3>1 DEF LinkInv, Pending
    <2>7. NewIds'
      BY <1>2, <1>13 DEF LinkInv, NewIds
    <2>8. UpFlows'
      <3>1. ASSUME NEW l \in serverEnd
            PROVE  /\ Flows(UpStream(l)', sent'[l]["up"], got'[l]["up"])
                   /\ Closes(UpStream(l)', sent'[l]["up"], got'[l]["up"])
        <4>1. l \in Links /\ sent' = sent
          BY <1>2 DEF LinkInv, LinkTyped
        <4>2. CASE l = serving
          <5>1. UpStream(l)' = Stream(<<>>, rest, r)
            BY <1>2, <1>7, <1>13, <4>2 DEF UpStream
          <5> QED
            BY <2>1, <2>2, <4>1, <4>2, <5>1
        <4>3. CASE l # serving
          <5>1. UpStream(l)' = UpStream(l) /\ got'[l]["up"] = got[l]["up"]
            BY <1>2, <1>6, <1>7, <1>13, <2>2, <4>1, <4>3 DEF UpStream
          <5> QED
            BY <4>1, <5>1 DEF LinkInv, UpFlows
        <4> QED
          BY <4>2, <4>3
      <3> QED
        BY <1>13, <3>1 DEF UpFlows, NoNewline
    <2>9. DownFlows'
      <3> SUFFICES ASSUME joined # 0 PROVE DownFlows'
        BY <1>2 DEF DownFlows
      <3>1. joined \in Links
        BY LinkFacts DEF LinkInv
      <3>2. DownStream(joined)' = DownStream(joined) /\ got'[joined]["down"] = got[joined]["down"]
        BY <1>2, <1>6, <1>7, <1>13, <2>2, <3>1 DEF DownStream
      <3> QED
        BY <1>2, <1>13, <3>2 DEF LinkInv, DownFlows
    <2>10. FramesArriveInOrder'
      <3>1. ASSUME NEW l \in Links, NEW way \in Ways PROVE IsPrefix(got'[l][way], sent'[l][way])
        BY <1>2, <2>1, <2>2 DEF LinkInv, FramesArriveInOrder
      <3> QED
        BY <3>1 DEF FramesArriveInOrder
    <2> QED
      BY <2>4, <2>5, <2>6, <2>7, <2>8, <2>9, <2>10 DEF LinkInv
  <1> QED
    BY <1>1, <1>11, <1>12, <1>13

(* What is at hand of an event is read.                                    *)
LEMMA ReadEventKeeps == ASSUME LinkInv, ReadEvent PROVE LinkInv'
  <1> USE DEF serverSide, senderSide
  <1>1. PICK n \in TakeSizes(wire[joined]["down"]) :
          LET seen == halfEvent \o SubSeq(wire[joined]["down"], 1, n) IN
          /\ wire' = [wire EXCEPT ![joined]["down"] = SubSeq(@, n + 1, Len(@))]
          /\ \/ /\ TooLarge(seen) \/ (Newline(seen) /\ ~Whole(seen))
                /\ invalid' = invalid \cup {joined} /\ LeavesAfterInvalid
                /\ halfEvent' = <<>> /\ UNCHANGED got
             \/ /\ ~TooLarge(seen) /\ Whole(seen) /\ Decoded(joined, "down", seen[1].id)
                /\ shellAt' \in {"select", "queued", "leaving"}
                /\ halfEvent' = <<>> /\ UNCHANGED invalid
             \/ /\ ~TooLarge(seen) /\ ~Newline(seen) /\ halfEvent' = seen
                /\ UNCHANGED <<shellAt, got, invalid>>
    BY DEF ReadEvent
  <1> DEFINE w == wire[joined]["down"]
             seen == halfEvent \o SubSeq(w, 1, n)
             rest == SubSeq(w, n + 1, Len(w))
             r == IF joined = serving THEN outgoing ELSE <<>>
             ids == sent[joined]["down"]
             read == got[joined]["down"]
  <1>2. /\ shellAt = "select" /\ joined # 0 /\ joined \in Links
        /\ UNCHANGED <<clientEnd, serverEnd, listening, daemonAt, serving, half, outgoing, cursor,
                       events, joined, caller, holder, pieces, commands, sent>>
    <2>1. shellAt = "select"
      BY DEF ReadEvent
    <2>2. joined # 0
      BY <2>1 DEF LinkInv, EndsMatch
    <2> QED
      BY <2>1, <2>2, LinkFacts DEF LinkInv, ReadEvent
  <1>3. /\ w \in Seq(Pieces) /\ halfEvent \in Seq(Pieces) /\ r \in Seq(Pieces)
        /\ <<>> \in Seq(Pieces) /\ ids \in Seq(Nat) /\ read \in Seq(Nat)
        /\ NoNewline(halfEvent) /\ n \in TakeSizes(w)
    BY <1>2, LinkFacts DEF LinkInv, DownFlows
  <1>4. n \in 1..Len(w) /\ seen \in Seq(Pieces) /\ (~Newline(seen) => NoNewline(seen))
    BY ONLY <1>3, TakenNewlines
  <1>5. rest \in Seq(Pieces) /\ Stream(seen, rest, r) = Stream(halfEvent, w, r)
    BY ONLY ZenonT(30), <1>3, <1>4, TakeMoves
  <1>6. Ways = {"up", "down"} /\ "up" \in Ways /\ "down" \in Ways /\ "up" # "down"
    BY DEF Ways
  <1>7. /\ wire' \in [Links -> [Ways -> Seq(Pieces)]] /\ wire'[joined]["down"] = rest
        /\ \A l \in Links, way \in Ways : (l # joined \/ way # "down") => wire'[l][way] = wire[l][way]
    <2>1. wire \in [Links -> [Ways -> Seq(Pieces)]]
      BY DEF LinkInv, LinkTyped
    <2>2. wire' = [wire EXCEPT ![joined]["down"] = rest]
      BY <1>1
    <2>3. joined \in Links /\ rest \in Seq(Pieces) /\ "down" \in Ways
      BY <1>2, <1>5, <1>6
    <2> HIDE DEF rest
    <2> QED
      BY ONLY <2>1, <2>2, <2>3, PutPipe
  <1>8. /\ Flows(Stream(halfEvent, w, r), ids, read)
        /\ joined = serving => Closes(Stream(halfEvent, w, r), ids, read)
    BY <1>2 DEF LinkInv, DownFlows, DownStream
  <1>9. Distinct(ids) /\ IsPrefix(read, ids)
    BY <1>2, <1>6 DEF LinkInv, NewIds, FramesArriveInOrder
  <1>10. NewIds'
    BY <1>2 DEF LinkInv, NewIds
  <1>11. UpFlows' \/ got' # got
    <2>1. ASSUME NEW l \in serverEnd PROVE UpStream(l)' = UpStream(l)
      <3>1. l \in Links
        BY DEF LinkInv, LinkTyped
      <3> QED
        BY <1>2, <1>6, <1>7, <3>1 DEF UpStream
    <2> QED
      BY <1>2, <2>1 DEF LinkInv, UpFlows
  <1>12. EndsMatch' \/ shellAt' \notin {"select", "queued", "leaving"}
    BY <1>2 DEF LinkInv, EndsMatch
  <1>13. w # <<>> => joined < listening
    <2>1. joined <= listening
      BY DEF LinkInv, EndsMatch
    <2>2. joined >= listening => w = <<>>
      BY <1>2 DEF LinkInv, Pending
    <2> QED
      BY <1>2, <2>1, <2>2 DEF LinkInv, LinkTyped, Links
  <1>14. w # <<>>
    BY DEF ReadEvent
  <1>15. \A l \in Links : l >= listening => l # joined
    BY <1>2, <1>13, <1>14 DEF LinkInv, LinkTyped, Links
  <1>16. CASE LeavesAfterInvalid /\ halfEvent' = <<>> /\ UNCHANGED got
    <2>1. LinkTyped'
      BY <1>2, <1>3, <1>7, <1>16 DEF LinkInv, LinkTyped, LeavesAfterInvalid
    <2>2. Pending' /\ FramesArriveInOrder'
      BY <1>2, <1>6, <1>7, <1>15, <1>16 DEF LinkInv, Pending, FramesArriveInOrder
    <2>3. DownFlows' /\ EndsMatch' /\ UpFlows'
      BY <1>11, <1>12, <1>16 DEF DownFlows, LeavesAfterInvalid
    <2> QED
      BY <1>10, <2>1, <2>2, <2>3 DEF LinkInv
  <1>17. CASE ~Newline(seen) /\ halfEvent' = seen /\ UNCHANGED <<shellAt, got>>
    <2>1. LinkTyped'
      BY <1>2, <1>4, <1>7, <1>17 DEF LinkInv, LinkTyped
    <2>2. Pending' /\ FramesArriveInOrder'
      BY <1>2, <1>6, <1>7, <1>15, <1>17 DEF LinkInv, Pending, FramesArriveInOrder
    <2>3. EndsMatch' /\ UpFlows'
      BY <1>2, <1>11, <1>12, <1>17
    <2>4. DownFlows'
      <3>1. DownStream(joined)' = Stream(seen, rest, r)
        BY <1>2, <1>7, <1>17 DEF DownStream
      <3> QED
        BY <1>2, <1>4, <1>5, <1>8, <1>17, <3>1 DEF DownFlows
    <2> QED
      BY <1>10, <2>1, <2>2, <2>3, <2>4 DEF LinkInv
  <1>18. CASE /\ Whole(seen) /\ Decoded(joined, "down", seen[1].id)
              /\ shellAt' \in {"select", "queued", "leaving"} /\ halfEvent' = <<>>
    <2> DEFINE read2 == Append(read, seen[1].id)
    <2>1. /\ read2 \in Seq(Nat) /\ Flows(Stream(<<>>, rest, r), ids, read2)
          /\ joined = serving => Closes(Stream(<<>>, rest, r), ids, read2)
          /\ IsPrefix(read2, ids)
      <3>1. Newline(seen)
        BY <1>18 DEF Whole
      <3> QED
        BY ONLY <1>3, <1>8, <1>9, <3>1, FrameRead
    <2>2. /\ got' \in [Links -> [Ways -> Seq(Nat)]] /\ got'[joined]["down"] = read2
          /\ \A l \in Links, way \in Ways : (l # joined \/ way # "down") => got'[l][way] = got[l][way]
      <3>1. got \in [Links -> [Ways -> Seq(Nat)]]
        BY DEF LinkInv, LinkTyped
      <3>2. got' = [got EXCEPT ![joined]["down"] = read2]
        BY <1>18 DEF Decoded
      <3>3. joined \in Links /\ read2 \in Seq(Nat) /\ "down" \in Ways
        BY <1>2, <1>6, <2>1
      <3> HIDE DEF read2
      <3> QED
        BY ONLY <3>1, <3>2, <3>3, PutPipe
    <2>3. LinkTyped'
      BY <1>2, <1>3, <1>7, <1>18, <2>2 DEF LinkInv, LinkTyped
    <2>4. EndsMatch'
      BY <1>12, <1>18
    <2>5. Pending'
      BY <1>2, <1>6, <1>7, <1>15, <2>2 DEF LinkInv, Pending
    <2>6. UpFlows'
      <3>1. ASSUME NEW l \in serverEnd
            PROVE  UpStream(l)' = UpStream(l) /\ got'[l]["up"] = got[l]["up"]
        <4>1. l \in Links
          BY DEF LinkInv, LinkTyped
        <4> QED
          BY <1>2, <1>6, <1>7, <2>2, <4>1 DEF UpStream
      <3> QED
        BY <1>2, <3>1 DEF LinkInv, UpFlows
    <2>7. DownFlows'
      <3>1. DownStream(joined)' = Stream(<<>>, rest, r)
        BY <1>2, <1>7, <1>18 DEF DownStream
      <3>2. NoNewline(halfEvent')
        BY <1>18 DEF NoNewline
      <3>3. /\ Flows(DownStream(joined)', sent'[joined]["down"], got'[joined]["down"])
            /\ joined = serving =>
                 Closes(DownStream(joined)', sent'[joined]["down"], got'[joined]["down"])
        BY <1>2, <2>1, <2>2, <3>1
      <3> QED
        BY <1>2, <3>2, <3>3 DEF DownFlows
    <2>8. FramesArriveInOrder'
      <3>1. ASSUME NEW l \in Links, NEW way \in Ways PROVE IsPrefix(got'[l][way], sent'[l][way])
        BY <1>2, <2>1, <2>2 DEF LinkInv, FramesArriveInOrder
      <3> QED
        BY <3>1 DEF FramesArriveInOrder
    <2> QED
      BY <1>10, <2>3, <2>4, <2>5, <2>6, <2>7, <2>8 DEF LinkInv
  <1> QED
    BY <1>1, <1>16, <1>17, <1>18

(* What holds of the link at every step.                                   *)
THEOREM LinkInvariant == LinkSpec => []LinkInv
  <1>1. ASSUME LinkInv, [LinkNext]_linkVars PROVE LinkInv'
    <2> USE <1>1
    <2>1. CASE Accept
      BY <2>1, AcceptKeeps
    <2>2. CASE ReadCommand
      BY <2>2, ReadCommandKeeps
    <2>3. CASE ReadEnd \/ DaemonStops
      BY <2>3, EndingActions
    <2>4. CASE TakeEvent
      BY <2>4, TakeEventKeeps
    <2>5. CASE SendEvent
      BY <2>5, SendEventKeeps
    <2>6. CASE Join
      BY <2>6, JoinKeeps
    <2>7. CASE Ask
      BY <2>7, AskKeeps
    <2>8. CASE ShellBegins \/ CallerBegins
      BY <2>8, BeginKeeps
    <2>9. CASE SendCommand
      BY <2>9, SendCommandKeeps
    <2>10. CASE ReadEvent
      BY <2>10, ReadEventKeeps
    <2>11. CASE Leave
      BY <2>11, LeaveKeeps
    <2>12. CASE UNCHANGED linkVars \/ Broadcast \/ SkipGreeting \/ Dispatch \/ CallerFails \/ ReadClosed
      BY <2>12, QuietActions
    <2> QED
      BY <2>1, <2>2, <2>3, <2>4, <2>5, <2>6, <2>7, <2>8, <2>9, <2>10, <2>11, <2>12 DEF LinkNext
  <1> QED
    BY <1>1, LinkInitially, PTL DEF LinkSpec

(* What an end decodes from a connection is what the other has written to  *)
(* it, in order and with nothing left out, whichever reads were dropped in *)
(* the middle of a frame.                                                  *)
THEOREM FramesStayInOrder == LinkSpec => []FramesArriveInOrder
  <1>1. LinkInv => FramesArriveInOrder
    BY DEF LinkInv
  <1> QED
    BY <1>1, LinkInvariant, PTL
=============================================================================
