------------------------------ MODULE Statistics ------------------------------
(***************************************************************************)
(* The passive honey statistics (daemon/src/main.rs, platform/src/         *)
(* perception.rs): once a minute the thread looks at what is on the        *)
(* screen, reads the counter in five variants, keeps what it could read    *)
(* and publishes a sample.  The wall clock may be set back between two of  *)
(* them.                                                                   *)
(***************************************************************************)
EXTENDS Integers, Sequences, FiniteSets, SequencesExt

CONSTANTS
  Screens,     (* what can be on the screen: the windows of the clients and *)
               (* the five readings of the counter, numbers or NotRead      *)
  NotRead,
  HoneyMaximum,
  KeepFor,     (* minutes a reading is kept, 120                            *)
  MinimumSpan, (* minutes between the readings of a rate, 5                 *)
  Pauses,      (* minutes from one sample to the next, by the wall clock    *)
  MaxSamples   (* bound: samples of one daemon                              *)

ASSUME StatisticsAssumption ==
  /\ HoneyMaximum \in Nat /\ MaxSamples \in Nat
  /\ NotRead \notin 1..HoneyMaximum
  /\ MinimumSpan \in Nat \ {0} /\ KeepFor \in Nat
  /\ Pauses \subseteq Int
  /\ \A seen \in Screens : DOMAIN seen.reads = 1..5

VARIABLES
  minute,      (* Utc::now                                                  *)
  confident,   (* the readings that are kept                                *)
  sample,      (* the last that was published                               *)
  (* history                                                                *)
  screen,      (* what it was read from                                     *)
  samples,
  readings     (* every reading that was trusted                            *)

statisticsVars == <<minute, confident, sample, screen, samples, readings>>

Unavailable == [known |-> FALSE]
NoSample == [honey |-> NotRead, rate |-> Unavailable, at |-> 0]
NothingSeen == [windows |-> <<>>, captured |-> FALSE, large |-> FALSE, reads |-> <<>>]

-----------------------------------------------------------------------------
(* HoneyCounterReader::read.  Confused letters are read as digits, and a   *)
(* number out of range is no reading; a value needs the agreement of two   *)
(* variants, and no second value may have it.                              *)

Normalized(read) == IF read \in (1..HoneyMaximum) THEN read ELSE NotRead

Votes(reads, v) == Cardinality({k \in DOMAIN reads : Normalized(reads[k]) = v})
Agreeing(reads) ==
  {v \in {Normalized(reads[k]) : k \in DOMAIN reads} \ {NotRead} : Votes(reads, v) >= 2}

Honey(reads) ==
  IF Cardinality(Agreeing(reads)) = 1 THEN CHOOSE v \in Agreeing(reads) : TRUE ELSE NotRead

(* One visible client that is not minimised, captured, and large enough.   *)
Look(seen) ==
  IF /\ Len(seen.windows) = 1 /\ seen.windows[1] # "minimized"
     /\ seen.captured /\ seen.large
    THEN Honey(seen.reads) ELSE NotRead

-----------------------------------------------------------------------------
(* One round of spawn_stats_loop.                                          *)

RetainAll(kept, now) == kept
StillKept(kept, now) == {k \in DOMAIN kept : now - kept[k].at <= KeepFor}
StillKeptUpTo(kept, now, k) == Cardinality({j \in StillKept(kept, now) : j <= k})
Retain(kept, now) ==
  [n \in 1..Cardinality(StillKept(kept, now)) |->
     kept[CHOOSE k \in StillKept(kept, now) : StillKeptUpTo(kept, now, k) = n]]

Rate(kept) ==
  IF /\ Len(kept) >= 2
     /\ Last(kept).at - kept[1].at >= MinimumSpan
     /\ Last(kept).honey >= kept[1].honey
    THEN [known |-> TRUE, gained |-> Last(kept).honey - kept[1].honey,
          over |-> Last(kept).at - kept[1].at]
    ELSE Unavailable

TakeSample ==
  /\ samples < MaxSamples /\ samples' = samples + 1
  /\ \E pause \in Pauses, seen \in Screens :
       LET now == minute + pause
           honey == Look(seen)
           read == [at |-> now, honey |-> honey]
       IN /\ minute' = now
          /\ confident' = IF honey = NotRead THEN confident
                          ELSE Retain(Append(confident, read), now)
          /\ readings' = IF honey = NotRead THEN readings ELSE readings \cup {read}
          /\ sample' = [honey |-> honey, rate |-> Rate(confident'), at |-> now]
          /\ screen' = seen

StatisticsInit ==
  /\ minute = 0 /\ confident = <<>> /\ sample = NoSample /\ samples = 0
  /\ screen = NothingSeen /\ readings = {}
StatisticsNext == TakeSample
StatisticsSpec == StatisticsInit /\ [][StatisticsNext]_statisticsVars

(* project_stats_metrics: what the desktop shows of the last sample.       *)
Metrics(s) ==
  [honey |-> s.honey,
   rate |-> IF s.rate.known THEN (s.rate.gained * 60) \div s.rate.over ELSE NotRead]

-----------------------------------------------------------------------------
(* Properties.                                                             *)

(* A number that is published was seen twice on the only visible client,   *)
(* with no second value as well supported.  A rate is the difference of    *)
(* two readings that were trusted, at least five minutes and at most two   *)
(* hours apart, and what the desktop makes of it is never negative, even   *)
(* when the clock was set back or honey was spent.                         *)
StatisticsAreSound ==
  /\ sample.honey # NotRead =>
       /\ Len(screen.windows) = 1
       /\ \E j, k \in DOMAIN screen.reads :
            j # k /\ screen.reads[j] = sample.honey /\ screen.reads[k] = sample.honey
       /\ \A j, k \in DOMAIN screen.reads :
            j # k /\ screen.reads[j] = screen.reads[k] /\ screen.reads[j] \in 1..HoneyMaximum
              => screen.reads[j] = sample.honey
  /\ sample.rate.known =>
       /\ Metrics(sample).rate >= 0
       /\ \E first, last \in readings :
            /\ last.at - first.at \in MinimumSpan..KeepFor
            /\ sample.rate.gained = last.honey - first.honey
            /\ sample.rate.over = last.at - first.at
=============================================================================
