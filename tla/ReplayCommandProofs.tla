------------------------ MODULE ReplayCommandProofs -------------------------
(***************************************************************************)
(* The matching of gw_score, for any ground truth and any detections, and  *)
(* the gate of the replay command, for any files and floors.               *)
(***************************************************************************)
EXTENDS ReplayCommand, FiniteSetTheorems, TLAPS

\* Detections of the rule that were looked at.
Looked == {j \in 1 .. d : detections[j].rule = rule}

SceneTypeOK ==
  /\ truth \in Seq(TruthEvent) /\ detections \in Seq(Detected)
  /\ rule \in Nat

\* What was matched is a matching of what was looked at, and the counts so far
\* partition the detections looked at and the events.
MatchInv ==
  /\ SceneTypeOK
  /\ d \in 0 .. Len(detections)
  /\ fp \in Nat
  /\ DOMAIN matched \subseteq Looked
  /\ \A j \in DOMAIN matched : matched[j] \in RuleTruth /\ InWindow(j, matched[j])
  /\ \A i, j \in DOMAIN matched : i # j => matched[i] # matched[j]
  /\ Cardinality(DOMAIN matched) + fp = Cardinality(Looked)
  /\ Cardinality(DOMAIN matched) + Cardinality(Open) = Cardinality(RuleTruth)

\* Everything counted is finite.
LEMMA FiniteCounts ==
  ASSUME SceneTypeOK, d \in 0 .. Len(detections), DOMAIN matched \subseteq Looked
  PROVE  /\ IsFiniteSet(Looked) /\ IsFiniteSet(DOMAIN matched)
         /\ IsFiniteSet(RuleTruth) /\ IsFiniteSet(RuleDetections) /\ IsFiniteSet(Open)
<1>1. /\ Len(truth) \in Nat /\ DOMAIN truth = 1 .. Len(truth)
      /\ Len(detections) \in Nat /\ DOMAIN detections = 1 .. Len(detections)
  BY DEF SceneTypeOK
<1>2. IsFiniteSet(1 .. d) /\ IsFiniteSet(DOMAIN truth) /\ IsFiniteSet(DOMAIN detections)
  BY <1>1, FS_Interval
<1>3. IsFiniteSet(Looked)
  BY <1>2, FS_Subset DEF Looked
<1>4. IsFiniteSet(RuleTruth) /\ IsFiniteSet(RuleDetections) /\ IsFiniteSet(Open)
  BY <1>2, FS_Subset DEF RuleTruth, RuleDetections, OfRule, Open
<1> QED
  BY <1>3, <1>4, FS_Subset

\* A call starts with nothing looked at and every event open.
LEMMA FreshCall ==
  ASSUME SceneTypeOK, d = 0, matched = << >>, fp = 0
  PROVE  MatchInv
<1>1. DOMAIN matched = {}
  OBVIOUS
<1>2. Looked = {}
  BY DEF Looked
<1>3. Open = RuleTruth
  BY <1>1 DEF Open, Taken, RuleTruth, OfRule
<1>4. Len(detections) \in Nat
  BY DEF SceneTypeOK
<1>5. Cardinality(RuleTruth) \in Nat
  BY <1>1, <1>4, FiniteCounts, FS_CardinalityType
<1> QED
  BY <1>1, <1>2, <1>3, <1>4, <1>5, FS_EmptySet DEF MatchInv

\* The next detection is looked at.
LEMMA LookAtNext ==
  ASSUME SceneTypeOK, d \in 0 .. Len(detections) - 1, d' = d + 1,
         UNCHANGED <<detections, rule>>
  PROVE  /\ d + 1 \notin Looked
         /\ Looked' = IF Current.rule = rule THEN Looked \cup {d + 1} ELSE Looked
         /\ d' \in 0 .. Len(detections)
<1>1. Len(detections) \in Nat
  BY DEF SceneTypeOK
<1>2. 1 .. d + 1 = (1 .. d) \cup {d + 1} /\ d + 1 \notin 1 .. d
  BY <1>1
<1> QED
  BY <1>1, <1>2 DEF Looked, Current

\* A detection of another rule leaves the matching alone.
LEMMA OtherRuleKeepsInv ==
  ASSUME MatchInv, OtherRule
  PROVE  MatchInv'
<1>1. SceneTypeOK /\ Len(detections) \in Nat /\ d \in 0 .. Len(detections) - 1
  BY DEF MatchInv, OtherRule, SceneTypeOK
<1>2. Looked' = Looked /\ d' \in 0 .. Len(detections)
  BY <1>1, LookAtNext DEF OtherRule
<1> QED
  BY <1>2 DEF MatchInv, OtherRule, SceneTypeOK, RuleTruth, OfRule, InWindow, Window, Open,
              Taken

\* So does one no appearance is in time for.
LEMMA FalseAlarmKeepsInv ==
  ASSUME MatchInv, FalseAlarm
  PROVE  MatchInv'
<1>1. SceneTypeOK /\ Len(detections) \in Nat /\ d \in 0 .. Len(detections) - 1
  BY DEF MatchInv, FalseAlarm, SceneTypeOK
<1>2. /\ Looked' = Looked \cup {d + 1} /\ d + 1 \notin Looked
      /\ d' \in 0 .. Len(detections)
  BY <1>1, LookAtNext DEF FalseAlarm
<1>3. IsFiniteSet(Looked) /\ IsFiniteSet(DOMAIN matched)
  BY <1>1, FiniteCounts DEF MatchInv
<1>4. /\ Cardinality(Looked') = Cardinality(Looked) + 1
      /\ Cardinality(Looked) \in Nat /\ Cardinality(DOMAIN matched) \in Nat
  BY <1>2, <1>3, FS_AddElement, FS_CardinalityType
<1>5. Cardinality(DOMAIN matched) + fp' = Cardinality(Looked')
  BY <1>4 DEF MatchInv, FalseAlarm
<1>6. fp' \in Nat /\ DOMAIN matched \subseteq Looked'
  BY <1>2 DEF MatchInv, FalseAlarm
<1> QED
  BY <1>2, <1>5, <1>6 DEF MatchInv, FalseAlarm, SceneTypeOK, RuleTruth, OfRule, InWindow,
                          Window, Open, Taken

\* An event that answers a detection is one of the rule, and open in time.
LEMMA AnswerIsInWindow ==
  ASSUME SceneTypeOK, d \in 0 .. Len(detections) - 1, NEW t \in DOMAIN truth,
         Answers(Current.at, t)
  PROVE  t \in Open /\ t \in RuleTruth /\ InWindow(d + 1, t)
<1>1. t \in Open /\ t \in RuleTruth
  BY DEF Answers, Open, RuleTruth, OfRule
<1>2. /\ Len(truth) \in Nat /\ DOMAIN truth = 1 .. Len(truth)
      /\ Len(detections) \in Nat /\ d + 1 \in 1 .. Len(detections)
  BY DEF SceneTypeOK
<1>3. truth[t] \in TruthEvent /\ Current \in Detected
  BY <1>2 DEF SceneTypeOK, Current
<1>4. /\ truth[t].at \in Int /\ truth[t].before \in Int /\ truth[t].after \in Int
      /\ Current.at \in Int
  BY <1>3 DEF TruthEvent, Detected
<1>5. t <= t
  BY <1>2
<1>6. ~(Current.at < truth[t].at - truth[t].before)
  BY <1>1, <1>5 DEF Answers, NotYet
<1>7. Current.at <= truth[t].at + truth[t].after
  BY DEF Answers, InTime
<1> QED
  BY <1>1, <1>4, <1>6, <1>7 DEF InWindow, Window, Current

\* A hit pairs a detection and an appearance that had no partner.
LEMMA HitKeepsInv ==
  ASSUME MatchInv, Hit
  PROVE  MatchInv'
<1>1. SceneTypeOK /\ Len(detections) \in Nat /\ d \in 0 .. Len(detections) - 1
  BY DEF MatchInv, Hit, SceneTypeOK
<1>2. PICK t \in DOMAIN truth :
        /\ Answers(Current.at, t)
        /\ matched' = [j \in DOMAIN matched \cup {d + 1} |->
                         IF j = d + 1 THEN t ELSE matched[j]]
  BY DEF Hit
<1>3. t \in Open /\ t \in RuleTruth /\ InWindow(d + 1, t)
  BY <1>1, <1>2, AnswerIsInWindow
<1>4. /\ Looked' = Looked \cup {d + 1} /\ d + 1 \notin Looked
      /\ d' \in 0 .. Len(detections)
  BY <1>1, LookAtNext DEF Hit
<1>5. /\ DOMAIN matched' = DOMAIN matched \cup {d + 1} /\ d + 1 \notin DOMAIN matched
      /\ matched'[d + 1] = t
      /\ \A j \in DOMAIN matched : matched'[j] = matched[j]
  BY <1>2, <1>4 DEF MatchInv
<1>6. t \notin Taken /\ Taken' = Taken \cup {t}
  BY <1>3, <1>5 DEF Open, Taken
<1>7. Open' = Open \ {t}
  BY <1>6 DEF Open, Hit
<1>8. /\ IsFiniteSet(Looked) /\ IsFiniteSet(DOMAIN matched)
      /\ IsFiniteSet(Open) /\ IsFiniteSet(RuleTruth)
  BY <1>1, FiniteCounts DEF MatchInv
<1>9. /\ Cardinality(Looked') = Cardinality(Looked) + 1
      /\ Cardinality(DOMAIN matched') = Cardinality(DOMAIN matched) + 1
      /\ Cardinality(Open') = Cardinality(Open) - 1
  <2>1. Cardinality(Looked \cup {d + 1}) = Cardinality(Looked) + 1
    BY <1>4, <1>8, FS_AddElement
  <2>2. Cardinality(DOMAIN matched \cup {d + 1}) = Cardinality(DOMAIN matched) + 1
    BY <1>5, <1>8, FS_AddElement
  <2>3. Cardinality(Open \ {t}) = Cardinality(Open) - 1
    BY <1>3, <1>8, FS_RemoveElement
  <2> QED
    BY <1>4, <1>5, <1>7, <2>1, <2>2, <2>3
<1>10. /\ Cardinality(Looked) \in Nat /\ Cardinality(DOMAIN matched) \in Nat
       /\ Cardinality(Open) \in Nat /\ Cardinality(RuleTruth) \in Nat
  BY <1>8, FS_CardinalityType
<1>11. UNCHANGED <<truth, detections, rule, fp, RuleTruth>>
  BY DEF Hit, RuleTruth, OfRule
<1>12. /\ Cardinality(DOMAIN matched') + fp' = Cardinality(Looked')
       /\ Cardinality(DOMAIN matched') + Cardinality(Open') = Cardinality(RuleTruth')
  <2>1. /\ fp \in Nat
        /\ Cardinality(DOMAIN matched) + fp = Cardinality(Looked)
        /\ Cardinality(DOMAIN matched) + Cardinality(Open) = Cardinality(RuleTruth)
    BY DEF MatchInv
  <2> QED
    BY <1>9, <1>10, <1>11, <2>1
<1>13. (\A j \in DOMAIN matched : matched[j] \in RuleTruth /\ InWindow(j, matched[j]))'
  <2>1. \A j \in DOMAIN matched' : matched'[j] \in RuleTruth /\ InWindow(j, matched'[j])
    <3> SUFFICES ASSUME NEW j \in DOMAIN matched'
                 PROVE  matched'[j] \in RuleTruth /\ InWindow(j, matched'[j])
      OBVIOUS
    <3>1. CASE j = d + 1
      BY <1>3, <1>5, <3>1
    <3>2. CASE j \in DOMAIN matched
      BY <1>5, <3>2 DEF MatchInv
    <3> QED
      BY <1>5, <3>1, <3>2
  <2> QED
    BY <1>11, <2>1 DEF InWindow, Window
<1>14. \A i, j \in DOMAIN matched' : i # j => matched'[i] # matched'[j]
  <2>1. \A j \in DOMAIN matched : matched[j] # t
    BY <1>6 DEF Taken
  <2>2. \A i, j \in DOMAIN matched : i # j => matched[i] # matched[j]
    BY DEF MatchInv
  <2> QED
    BY <1>5, <2>1, <2>2
<1>15. DOMAIN matched' \subseteq Looked'
  BY <1>4, <1>5 DEF MatchInv
<1>16. SceneTypeOK' /\ d' \in 0 .. Len(detections') /\ fp' \in Nat
  BY <1>4, <1>11 DEF MatchInv, SceneTypeOK
<1> QED
  BY <1>12, <1>13, <1>14, <1>15, <1>16 DEF MatchInv

\* Nothing else touches the matching.
LEMMA StutterKeepsInv ==
  ASSUME MatchInv, UNCHANGED svars
  PROVE  MatchInv'
BY DEF MatchInv, svars, SceneTypeOK, Looked, RuleTruth, OfRule, InWindow, Window, Open, Taken

\* Every step of the score keeps it one.
LEMMA StepKeepsInv ==
  ASSUME MatchInv, [SNext]_svars
  PROVE  MatchInv'
BY OtherRuleKeepsInv, HitKeepsInv, FalseAlarmKeepsInv, StutterKeepsInv DEF SNext

\* The empty matching is one.
LEMMA InitMatchInv == SInit => MatchInv
<1> SUFFICES ASSUME SInit PROVE MatchInv
  OBVIOUS
<1>1. SceneTypeOK
  BY TruthsAssumption, DetectionsAssumption, ScoredRulesAssumption DEF SInit, SceneTypeOK
<1> QED
  BY <1>1, FreshCall DEF SInit

\* The pairs that were matched, and how many they are.
Pairs == { <<j, matched[j]>> : j \in DOMAIN matched }

\* The pairs the score holds are a matching, as many as it counted.
LEMMA PairsAreAMatching ==
  ASSUME MatchInv
  PROVE  Pairs \in Matchings /\ Cardinality(Pairs) = TruePositives
<1>1. SceneTypeOK /\ DOMAIN detections = 1 .. Len(detections) /\ Len(detections) \in Nat
  BY DEF MatchInv, SceneTypeOK
<1>2. Looked \subseteq OfRule(detections, rule)
  BY <1>1 DEF MatchInv, Looked, OfRule
<1>3. \A p \in Pairs :
        /\ p \in OfRule(detections, rule) \X OfRule(truth, rule)
        /\ detections[p[1]].at \in Window(truth[p[2]])
  <2> SUFFICES ASSUME NEW j \in DOMAIN matched
               PROVE  /\ j \in OfRule(detections, rule) /\ matched[j] \in OfRule(truth, rule)
                      /\ detections[j].at \in Window(truth[matched[j]])
    BY DEF Pairs
  <2> QED
    BY <1>2 DEF MatchInv, RuleTruth, InWindow
<1>4. \A p, q \in Pairs : p # q => p[1] # q[1] /\ p[2] # q[2]
  BY DEF Pairs, MatchInv
<1>5. Pairs \in Matchings
  BY <1>3, <1>4 DEF Matchings, MatchingsOf
<1>6. IsFiniteSet(DOMAIN matched)
  BY <1>1, FiniteCounts DEF MatchInv
<1>7. [j \in DOMAIN matched |-> <<j, matched[j]>>] \in Bijection(DOMAIN matched, Pairs)
  BY DEF Pairs, Bijection, Injection, Surjection, IsInjective
<1>8. Cardinality(Pairs) = Cardinality(DOMAIN matched)
  BY <1>6, <1>7, FS_Bijection DEF ExistsBijection
<1> QED
  BY <1>5, <1>8 DEF TruePositives

\* The counts are those of a matching.
LEMMA InvGivesCounts == MatchInv => CountsAreAMatching
<1> SUFFICES ASSUME MatchInv, Scored PROVE
      /\ Pairs \in Matchings
      /\ TruePositives + fp = Cardinality(RuleDetections)
      /\ TruePositives + FalseNegatives = Cardinality(RuleTruth)
  BY DEF CountsAreAMatching, Pairs
<1>1. Looked = RuleDetections
  BY DEF Scored, Looked, RuleDetections, OfRule, MatchInv, SceneTypeOK
<1> QED
  BY <1>1, PairsAreAMatching DEF MatchInv, TruePositives, FalseNegatives

\* gw_score.c:9: whatever the ground truth and the detections, what is matched is
\* one-to-one and inside the windows, and the three counts partition both lists.
THEOREM MatchingCounts == SSpec => []CountsAreAMatching
<1>1. SInit => MatchInv
  BY InitMatchInv
<1>2. MatchInv /\ [SNext]_svars => MatchInv'
  BY StepKeepsInv
<1>3. MatchInv => CountsAreAMatching
  BY InvGivesCounts
<1> QED
  BY <1>1, <1>2, <1>3, PTL DEF SSpec

-----------------------------------------------------------------------------
(***************************************************************************)
(* The gate.                                                               *)
(***************************************************************************)
\* The floors rule r of file k was asked about so far were met.
JudgedBefore(k, r) == k < at_file \/ (k = at_file /\ place = "rules" /\ r < rule)

MetSoFar ==
  \A k \in DOMAIN command.files : LET f == command.files[k] IN
    \A r \in RulesOf(f) : JudgedBefore(k, r) /\ Happened(f, r) => Deserves(f, r)

\* The scoring works on the file the loop is at.
AtFile ==
  place = "rules" =>
    /\ at_file <= Len(command.files) /\ File.kind = "scene"
    /\ truth = File.truth /\ detections = File.detections /\ rule \in RulesOf(File)

\* No floor was missed only if all that were asked are met, and an exit status of
\* zero is given when all files have been read as scenes.
GateInv ==
  /\ command \in CommandLines
  /\ at_file \in Nat \ {0}
  /\ failures \in Nat
  /\ AtFile
  /\ \A k \in DOMAIN command.files : k < at_file => command.files[k].kind = "scene"
  /\ failures = 0 => MetSoFar
  /\ place # "done" => exit_code = NoCode
  /\ exit_code = 0 => failures = 0 /\ at_file > Len(command.files)

\* What the parser, the replay and the command line guarantee.
LEMMA CommandFacts ==
  ASSUME command \in CommandLines
  PROVE  /\ Len(command.files) \in Nat /\ DOMAIN command.files = 1 .. Len(command.files)
         /\ command.min_precision \in Int /\ command.min_recall \in Int
         /\ \A k \in DOMAIN command.files :
              command.files[k].kind = "scene" =>
                /\ command.files[k].rules \in Nat \ {0}
                /\ command.files[k].truth \in Seq(TruthEvent)
                /\ command.files[k].detections \in Seq(Detected)
<1>1. /\ {command.min_precision, command.min_recall} \subseteq NoFloor .. 100
      /\ Len(command.files) \in Nat /\ DOMAIN command.files = 1 .. Len(command.files)
      /\ \A k \in DOMAIN command.files :
           command.files[k].kind = "scene" => Readable(command.files[k])
  BY CommandLinesAssumption
<1>2. command.min_precision \in NoFloor .. 100 /\ command.min_recall \in NoFloor .. 100
  BY <1>1
<1>3. command.min_precision \in Int /\ command.min_recall \in Int
  BY <1>2 DEF NoFloor
<1> QED
  BY <1>1, <1>3 DEF Readable

\* No scene was judged at the start.
LEMMA InitGateInv == PInit => GateInv /\ MatchInv
<1> SUFFICES ASSUME PInit PROVE GateInv /\ MatchInv
  OBVIOUS
<1>1. /\ command \in CommandLines /\ at_file = 1 /\ place = "files"
      /\ failures = 0 /\ exit_code = NoCode
      /\ truth = <<>> /\ detections = <<>> /\ rule = 0 /\ d = 0 /\ matched = << >> /\ fp = 0
  BY DEF PInit, Started, NothingToScore
<1>2. DOMAIN command.files = 1 .. Len(command.files) /\ Len(command.files) \in Nat
  BY <1>1, CommandFacts
<1>3. ~\E k \in DOMAIN command.files : k < at_file
  BY <1>1, <1>2
<1>4. AtFile
  BY <1>1 DEF AtFile
<1>5. MetSoFar
  BY <1>1, <1>3 DEF MetSoFar, JudgedBefore
<1>6. GateInv
  BY <1>1, <1>3, <1>4, <1>5 DEF GateInv, NoCode
<1>7. SceneTypeOK
  BY <1>1 DEF SceneTypeOK
<1>8. MatchInv
  BY <1>1, <1>7, FreshCall
<1> QED
  BY <1>6, <1>8

\* What has been scored of a rule that missed no floor meets both.
LEMMA NoMissIsDeserved ==
  ASSUME GateInv, MatchInv, place = "rules", Scored, Misses(Metrics) = 0,
         Happened(File, rule)
  PROVE  Deserves(File, rule)
<1> DEFINE tp == TruePositives
           fn == FalseNegatives
<1>1. /\ truth = File.truth /\ detections = File.detections
      /\ command.min_precision \in Int /\ command.min_recall \in Int
  BY CommandFacts DEF GateInv, AtFile
<1>2. /\ Pairs \in MatchingsOf(File.truth, File.detections, rule)
      /\ Cardinality(Pairs) = tp
  BY <1>1, PairsAreAMatching DEF Matchings
<1>3. /\ tp + fp = Cardinality(OfRule(File.detections, rule))
      /\ tp + fn = Cardinality(OfRule(File.truth, rule))
  BY <1>1, InvGivesCounts DEF CountsAreAMatching, RuleDetections, RuleTruth
<1>4. /\ SceneTypeOK /\ d \in 0 .. Len(detections) /\ DOMAIN matched \subseteq Looked
      /\ fp \in Nat
  BY DEF MatchInv
<1>5. tp \in Nat /\ fn \in Nat
  BY <1>4, FiniteCounts, FS_CardinalityType DEF TruePositives, FalseNegatives
<1>6. IsFiniteSet(OfRule(File.detections, rule)) /\ IsFiniteSet(OfRule(File.truth, rule))
  BY <1>1, <1>4, FiniteCounts DEF RuleDetections, RuleTruth
<1>7. tp + fp # 0 \/ tp + fn # 0
  <2>1. OfRule(File.detections, rule) # {} \/ OfRule(File.truth, rule) # {}
    BY DEF Happened
  <2> QED
    BY <1>3, <1>6, <2>1, FS_EmptySet
<1>8. Measured(Metrics)
  <2>1. Metrics.tp = tp /\ Metrics.fp = fp /\ Metrics.fn = fn
    BY DEF Metrics
  <2> QED
    BY <1>4, <1>5, <1>7, <2>1 DEF Measured
<1>9. /\ ~Below(tp, tp + fp, command.min_precision)
      /\ ~Below(tp, tp + fn, command.min_recall)
  <2>1. Metrics.tp = tp /\ Metrics.fp = fp /\ Metrics.fn = fn
    BY DEF Metrics
  <2> DEFINE A == Below(tp, tp + fp, command.min_precision)
             B == Below(tp, tp + fn, command.min_recall)
  <2>2. (IF A THEN 1 ELSE 0) + (IF B THEN 1 ELSE 0) = 0
    BY <1>8, <2>1 DEF Misses
  <2> HIDE DEF A, B
  <2>3. ~A /\ ~B
    BY <2>2
  <2> QED
    BY <2>3 DEF A, B
<1> QED
  BY <1>2, <1>3, <1>9 DEF Deserves

\* A scene that was judged stays judged the same.
LEMMA StaysMet ==
  ASSUME MetSoFar, UNCHANGED <<command, at_file, place, rule>>
  PROVE  MetSoFar'
BY DEF MetSoFar, JudgedBefore, RulesOf, Happened, Deserves

\* A call for the next rule or the first of the next file.
LEMMA CallKeepsMatchInv ==
  ASSUME NEW t \in Seq(TruthEvent), NEW found \in Seq(Detected), NEW r \in Nat,
         Call(t, found, r)
  PROVE  MatchInv'
<1>1. SceneTypeOK' /\ (d = 0 /\ matched = << >> /\ fp = 0)'
  BY DEF Call, SceneTypeOK
<1> QED
  BY <1>1, FreshCall, PTL

\* The steps that ask no floor: the ones that end the run, and the scoring.
LEMMA LeavingKeepsInv ==
  ASSUME GateInv, MatchInv, Usage \/ NoScene \/ AllFilesRead
  PROVE  GateInv' /\ MatchInv'
<1>1. /\ UNCHANGED <<svars, command, at_file, failures>> /\ place = "files"
      /\ place' = "done" /\ exit_code' \in {0, 1, 2}
  BY DEF Usage, NoScene, AllFilesRead, Leave
<1>2. exit_code' = 0 => failures = 0 /\ at_file > Len(command.files)
  BY DEF Usage, NoScene, AllFilesRead, Leave
<1>3. MatchInv'
  BY <1>1, StutterKeepsInv
<1>4. UNCHANGED <<truth, detections, rule>>
  BY <1>1 DEF svars
<1>5. MetSoFar => MetSoFar'
  BY <1>1, <1>4 DEF MetSoFar, JudgedBefore, RulesOf, Happened, Deserves
<1>6. AtFile'
  BY <1>1 DEF AtFile
<1> QED
  BY <1>1, <1>2, <1>3, <1>5, <1>6 DEF GateInv

\* A step inside the score keeps the gate honest.
LEMMA MatchKeepsInv ==
  ASSUME GateInv, MatchInv, Match
  PROVE  GateInv' /\ MatchInv'
<1>1. SNext /\ UNCHANGED pvars /\ UNCHANGED <<truth, detections, rule>>
  BY DEF Match, SNext, OtherRule, Hit, FalseAlarm
<1>2. MatchInv'
  BY <1>1, StepKeepsInv
<1>3. UNCHANGED <<command, at_file, place, failures, exit_code>>
  BY <1>1 DEF pvars
<1>4. MetSoFar => MetSoFar'
  BY <1>1, <1>3, StaysMet
<1>5. AtFile'
  BY <1>1, <1>3 DEF AtFile, GateInv, File, RulesOf
<1> QED
  BY <1>2, <1>3, <1>4, <1>5 DEF GateInv

\* So does going on to the next scene.
LEMMA SceneKeepsInv ==
  ASSUME GateInv, MatchInv, Scene
  PROVE  GateInv' /\ MatchInv'
<1>1. /\ place = "files" /\ place' = "rules" /\ at_file <= Len(command.files)
      /\ File.kind = "scene" /\ Call(File.truth, File.detections, 0)
      /\ UNCHANGED <<command, at_file, failures, exit_code>>
  BY DEF Scene
<1>2. /\ Len(command.files) \in Nat /\ DOMAIN command.files = 1 .. Len(command.files)
      /\ at_file \in DOMAIN command.files
  BY <1>1, CommandFacts DEF GateInv
<1>3. /\ File.rules \in Nat \ {0}
      /\ File.truth \in Seq(TruthEvent) /\ File.detections \in Seq(Detected)
  BY <1>1, <1>2, CommandFacts DEF GateInv, File
<1>4. MatchInv'
  BY <1>1, <1>3, CallKeepsMatchInv
<1>5. truth' = File.truth /\ detections' = File.detections /\ rule' = 0
  BY <1>1 DEF Call
<1>6. AtFile'
  BY <1>1, <1>3, <1>5 DEF AtFile, File, RulesOf
<1>7. ASSUME MetSoFar PROVE MetSoFar'
  <2>1. \A k \in DOMAIN command.files : \A r \in RulesOf(command.files[k]) :
          JudgedBefore(k, r)' => JudgedBefore(k, r)
    BY <1>1, <1>5 DEF JudgedBefore, RulesOf
  <2> QED
    BY <1>1, <1>7, <2>1 DEF MetSoFar, RulesOf, Happened, Deserves
<1>8. place # "done" => exit_code = NoCode
  BY DEF GateInv
<1> QED
  BY <1>1, <1>4, <1>6, <1>7, <1>8 DEF GateInv, NoCode

\* The rule just scored joins those that were judged.
LEMMA JudgedJoins ==
  ASSUME GateInv, MatchInv, Judge, failures' = 0
  PROVE  MetSoFar'
<1>1. /\ place = "rules" /\ Scored /\ NextRule
      /\ failures' = failures + Misses(Metrics) /\ UNCHANGED command
  BY DEF Judge
<1>2. failures \in Nat /\ Misses(Metrics) \in Nat
  BY DEF GateInv, Misses
<1>3. failures = 0 /\ Misses(Metrics) = 0
  BY <1>1, <1>2
<1>4. MetSoFar
  BY <1>3 DEF GateInv
<1>5. Happened(File, rule) => Deserves(File, rule)
  BY <1>1, <1>3, NoMissIsDeserved
<1>6. /\ at_file \in Nat \ {0} /\ rule \in RulesOf(File) /\ at_file <= Len(command.files)
      /\ File.kind = "scene"
  BY <1>1 DEF GateInv, AtFile
<1>7. /\ DOMAIN command.files = 1 .. Len(command.files) /\ Len(command.files) \in Nat
      /\ File.rules \in Nat \ {0}
  BY <1>6, CommandFacts DEF GateInv, File
<1>8. \A k \in DOMAIN command.files : \A r \in RulesOf(command.files[k]) :
        JudgedBefore(k, r)' => JudgedBefore(k, r) \/ (k = at_file /\ r = rule)
  <2> SUFFICES ASSUME NEW k \in DOMAIN command.files, NEW r \in RulesOf(command.files[k]),
                      JudgedBefore(k, r)'
               PROVE  JudgedBefore(k, r) \/ (k = at_file /\ r = rule)
    OBVIOUS
  <2>0. k \in Nat
    BY <1>7
  <2>1. CASE rule + 1 < File.rules
    <3>1. rule' = rule + 1 /\ at_file' = at_file /\ place' = "rules"
      BY <1>1, <2>1 DEF NextRule, Call
    <3>2. k < at_file \/ (k = at_file /\ r < rule + 1)
      BY <3>1 DEF JudgedBefore
    <3>3. CASE k < at_file
      BY <3>3 DEF JudgedBefore
    <3>4. CASE k = at_file /\ r < rule + 1
      <4>1. r \in Nat /\ rule \in Nat
        BY <1>6, <1>7, <3>4 DEF RulesOf, File
      <4>2. r < rule \/ r = rule
        BY <3>4, <4>1
      <4> QED
        BY <1>1, <3>4, <4>2 DEF JudgedBefore
    <3> QED
      BY <3>2, <3>3, <3>4
  <2>2. CASE ~(rule + 1 < File.rules)
    <3>1. at_file' = at_file + 1 /\ place' = "files"
      BY <1>1, <2>2 DEF NextRule
    <3>2. k < at_file + 1
      BY <3>1 DEF JudgedBefore
    <3>3. k < at_file \/ k = at_file
      BY <1>6, <2>0, <3>2
    <3>4. CASE k = at_file
      <4>1. r \in Nat /\ rule \in Nat /\ r <= File.rules - 1 /\ rule <= File.rules - 1
        BY <1>6, <1>7, <3>4 DEF RulesOf, File
      <4>2. r < rule \/ r = rule
        BY <1>7, <2>2, <4>1
      <4> QED
        BY <1>1, <3>4, <4>2 DEF JudgedBefore
    <3> QED
      BY <3>3, <3>4 DEF JudgedBefore
  <2> QED
    BY <2>1, <2>2
<1> QED
  BY <1>1, <1>4, <1>5, <1>8 DEF MetSoFar, RulesOf, Happened, Deserves, File

\* So does the judgement of a scene.
LEMMA JudgeKeepsInv ==
  ASSUME GateInv, MatchInv, Judge
  PROVE  GateInv' /\ MatchInv'
<1>1. /\ place = "rules" /\ Scored /\ NextRule
      /\ failures' = failures + Misses(Metrics) /\ UNCHANGED <<command, exit_code>>
  BY DEF Judge
<1>2. /\ at_file \in Nat \ {0} /\ rule \in RulesOf(File) /\ at_file <= Len(command.files)
      /\ File.kind = "scene" /\ truth = File.truth /\ detections = File.detections
      /\ exit_code = NoCode
  BY <1>1 DEF GateInv, AtFile
<1>3. /\ DOMAIN command.files = 1 .. Len(command.files) /\ Len(command.files) \in Nat
      /\ File.rules \in Nat \ {0}
  BY <1>2, CommandFacts DEF GateInv, File
<1>4. truth \in Seq(TruthEvent) /\ detections \in Seq(Detected) /\ rule \in Nat
  BY DEF MatchInv, SceneTypeOK
<1>5. failures' \in Nat
  BY <1>1 DEF GateInv, Misses
<1>6. failures' = 0 => MetSoFar'
  BY JudgedJoins
<1>7. CASE rule + 1 < File.rules
  <2>1. Call(truth, detections, rule + 1) /\ UNCHANGED <<place, at_file>>
    BY <1>1, <1>7 DEF NextRule
  <2>2. MatchInv'
    BY <1>4, <2>1, CallKeepsMatchInv
  <2>3. truth' = truth /\ detections' = detections /\ rule' = rule + 1
    BY <2>1 DEF Call
  <2>4. AtFile'
    BY <1>1, <1>2, <1>3, <1>4, <1>7, <2>1, <2>3 DEF AtFile, File, RulesOf
  <2> QED
    BY <1>1, <1>2, <1>5, <1>6, <2>1, <2>2, <2>4 DEF GateInv, NoCode
<1>8. CASE ~(rule + 1 < File.rules)
  <2>1. place' = "files" /\ at_file' = at_file + 1 /\ UNCHANGED svars
    BY <1>1, <1>8 DEF NextRule
  <2>2. MatchInv'
    BY <2>1, StutterKeepsInv
  <2>3. AtFile'
    BY <2>1 DEF AtFile
  <2>4. \A k \in DOMAIN command.files : k < at_file + 1 => command.files[k].kind = "scene"
    BY <1>2, <1>3 DEF GateInv, File
  <2> QED
    BY <1>1, <1>2, <1>5, <1>6, <2>1, <2>2, <2>3, <2>4 DEF GateInv, NoCode
<1> QED
  BY <1>7, <1>8

\* Every step of the command keeps the gate honest.
LEMMA NextKeepsInv ==
  ASSUME GateInv, MatchInv, [PNext]_<<svars, pvars>>
  PROVE  GateInv' /\ MatchInv'
<1>1. CASE UNCHANGED <<svars, pvars>>
  <2>1. UNCHANGED <<command, at_file, place, failures, exit_code, truth, detections, rule>>
    BY <1>1 DEF svars, pvars
  <2>2. MetSoFar => MetSoFar'
    BY <2>1, StaysMet
  <2>3. AtFile'
    BY <2>1 DEF AtFile, GateInv, File, RulesOf
  <2>4. MatchInv'
    BY <1>1, StutterKeepsInv
  <2> QED
    BY <2>1, <2>2, <2>3, <2>4 DEF GateInv
<1> QED
  BY <1>1, LeavingKeepsInv, MatchKeepsInv, SceneKeepsInv, JudgeKeepsInv DEF PNext

\* An honest gate is deserved.
LEMMA InvGivesGate == GateInv => GateIsDeserved
<1> SUFFICES ASSUME GateInv, exit_code = 0
             PROVE  /\ AllScenes
                    /\ \A k \in DOMAIN command.files : LET f == command.files[k] IN
                         \A r \in RulesOf(f) : Happened(f, r) => Deserves(f, r)
  BY DEF GateIsDeserved
<1>1. /\ Len(command.files) \in Nat /\ DOMAIN command.files = 1 .. Len(command.files)
      /\ at_file > Len(command.files) /\ at_file \in Nat /\ MetSoFar
  BY CommandFacts DEF GateInv
<1>2. \A k \in DOMAIN command.files : k < at_file
  BY <1>1
<1>3. AllScenes
  BY <1>2 DEF GateInv, AllScenes
<1> QED
  BY <1>1, <1>2, <1>3 DEF MetSoFar, JudgedBefore

\* Whatever the files, the floors and the order of events and detections: the
\* replay command exits 0 only if every file is a scene and every rule of which
\* anything was expected or detected meets both floors under some matching.
THEOREM DeservedGate == PSpec => []GateIsDeserved
<1>1. PInit => GateInv /\ MatchInv
  BY InitGateInv
<1>2. (GateInv /\ MatchInv) /\ [PNext]_<<svars, pvars>> => (GateInv /\ MatchInv)'
  BY NextKeepsInv
<1>3. GateInv => GateIsDeserved
  BY InvGivesGate
<1> QED
  BY <1>1, <1>2, <1>3, PTL DEF PSpec

-----------------------------------------------------------------------------
(***************************************************************************)
(* Greedy and optimal.                                                     *)
(***************************************************************************)
\* Windows and instants are integers.
LEMMA EventIntegers ==
  ASSUME SceneTypeOK
  PROVE  /\ DOMAIN truth = 1 .. Len(truth) /\ Len(truth) \in Nat
         /\ DOMAIN detections = 1 .. Len(detections) /\ Len(detections) \in Nat
         /\ \A t \in DOMAIN truth :
              truth[t].at \in Int /\ truth[t].before \in Nat /\ truth[t].after \in Nat
         /\ \A j \in DOMAIN detections : detections[j].at \in Int
<1>1. /\ DOMAIN truth = 1 .. Len(truth) /\ Len(truth) \in Nat
      /\ DOMAIN detections = 1 .. Len(detections) /\ Len(detections) \in Nat
  BY DEF SceneTypeOK
<1>2. /\ \A t \in DOMAIN truth : truth[t] \in TruthEvent
      /\ \A j \in DOMAIN detections : detections[j] \in Detected
  BY <1>1 DEF SceneTypeOK
<1>3. \A t \in DOMAIN truth :
        truth[t].at \in Int /\ truth[t].before \in Nat /\ truth[t].after \in Nat
  BY <1>2 DEF TruthEvent
<1>4. \A j \in DOMAIN detections : detections[j].at \in Int
  BY <1>2 DEF Detected
<1> QED
  BY <1>1, <1>3, <1>4

\* A window contains an instant when it is neither too early nor too late.
LEMMA WindowOf ==
  ASSUME SceneTypeOK, NEW j \in DOMAIN detections, NEW t \in DOMAIN truth
  PROVE  InWindow(j, t) <=> InTime(detections[j].at, t) /\ ~NotYet(detections[j].at, t)
<1>1. /\ truth[t].at \in Int /\ truth[t].before \in Nat /\ truth[t].after \in Nat
      /\ detections[j].at \in Int
  BY EventIntegers
<1> DEFINE lo == truth[t].at - truth[t].before
           hi == truth[t].at + truth[t].after
           at == detections[j].at
<1>2. lo \in Int /\ hi \in Int /\ at \in Int
  BY <1>1
<1>3. /\ InWindow(j, t) <=> at \in lo .. hi
      /\ InTime(at, t) <=> at <= hi
      /\ NotYet(at, t) <=> at < lo
  BY DEF InWindow, Window, InTime, NotYet
<1> HIDE DEF lo, hi, at
<1>4. at \in lo .. hi <=> at <= hi /\ ~(at < lo)
  BY <1>2
<1> QED
  BY <1>3, <1>4 DEF at

\* What every step does to what has been looked at and taken.
LEMMA ScoreStep ==
  ASSUME MatchInv, SNext
  PROVE  /\ UNCHANGED <<truth, detections, rule>>
         /\ d \in 0 .. Len(detections) - 1 /\ d + 1 \in DOMAIN detections
         /\ Looked' = IF Current.rule = rule THEN Looked \cup {d + 1} ELSE Looked
         /\ d + 1 \notin DOMAIN matched
         /\ \/ Current.rule # rule /\ matched' = matched
            \/ /\ Current.rule = rule /\ matched' = matched
               /\ \A t \in DOMAIN truth : ~Answers(Current.at, t)
            \/ /\ Current.rule = rule
               /\ \E t \in DOMAIN truth :
                    /\ Answers(Current.at, t)
                    /\ DOMAIN matched' = DOMAIN matched \cup {d + 1}
                    /\ matched'[d + 1] = t
                    /\ \A j \in DOMAIN matched : matched'[j] = matched[j]
         /\ d' = d + 1
<1>1. SceneTypeOK /\ Len(detections) \in Nat /\ d \in 0 .. Len(detections)
  BY DEF MatchInv, SceneTypeOK
<1>2. /\ d < Len(detections) /\ d' = d + 1 /\ UNCHANGED <<truth, detections, rule>>
  BY DEF SNext, OtherRule, Hit, FalseAlarm
<1>3. d \in 0 .. Len(detections) - 1 /\ d + 1 \in DOMAIN detections
  BY <1>1, <1>2, EventIntegers
<1>4. /\ Looked' = IF Current.rule = rule THEN Looked \cup {d + 1} ELSE Looked
      /\ d + 1 \notin Looked
  BY <1>1, <1>2, <1>3, LookAtNext
<1>5. d + 1 \notin DOMAIN matched
  BY <1>4 DEF MatchInv
<1>6. CASE Hit
  <2>1. PICK t \in DOMAIN truth :
          /\ Answers(Current.at, t)
          /\ matched' = [j \in DOMAIN matched \cup {d + 1} |->
                           IF j = d + 1 THEN t ELSE matched[j]]
    BY <1>6 DEF Hit
  <2>2. /\ DOMAIN matched' = DOMAIN matched \cup {d + 1} /\ matched'[d + 1] = t
        /\ \A j \in DOMAIN matched : matched'[j] = matched[j]
    BY <1>5, <2>1
  <2> QED
    BY <1>2, <1>3, <1>4, <1>5, <1>6, <2>1, <2>2 DEF Hit
<1> QED
  BY <1>2, <1>3, <1>4, <1>5, <1>6 DEF SNext, OtherRule, FalseAlarm

\* When windows are apart, every event that a detection looked at fell into has
\* been answered.
ApartInv ==
  Apart(truth, rule) =>
    \A j \in Looked, t \in RuleTruth : InWindow(j, t) => t \in Taken

\* When appearances lie apart, a detection in time for one is in time for no other
\* and not too early for an earlier one.
LEMMA OneWindow ==
  ASSUME SceneTypeOK, Apart(truth, rule), NEW j \in DOMAIN detections,
         NEW t \in RuleTruth, NEW u \in RuleTruth, InWindow(j, t), u < t
  PROVE  ~InTime(detections[j].at, u) /\ ~NotYet(detections[j].at, u)
<1>1. t \in DOMAIN truth /\ u \in DOMAIN truth
  BY DEF RuleTruth, OfRule
<1> DEFINE at == detections[j].at
           a == truth[t].at  b == truth[t].before
           c == truth[u].at  e == truth[u].before  g == truth[u].after
<1>2. /\ at \in Int /\ a \in Int /\ b \in Nat /\ c \in Int /\ e \in Nat /\ g \in Nat
  BY <1>1, EventIntegers
<1>3. c + g < a - b
  BY DEF Apart, RuleTruth
<1>4. ~(at < a - b)
  BY <1>1, WindowOf DEF NotYet
<1>5. /\ InTime(at, u) <=> at <= c + g
      /\ NotYet(at, u) <=> at < c - e
  BY DEF InTime, NotYet
<1> HIDE DEF at, a, b, c, e, g
<1>6. ~(at <= c + g) /\ ~(at < c - e)
  BY <1>2, <1>3, <1>4
<1> QED
  BY <1>5, <1>6 DEF at

\* Every step pairs what only could be paired.
LEMMA ApartStep ==
  ASSUME MatchInv, ApartInv, [SNext]_svars
  PROVE  ApartInv'
<1>1. CASE UNCHANGED svars
  BY <1>1 DEF ApartInv, svars, Apart, OfRule, Looked, RuleTruth, InWindow, Window, Taken
<1>2. CASE SNext
  <2>1. SceneTypeOK
    BY DEF MatchInv
  <2>2. /\ UNCHANGED <<truth, detections, rule>> /\ d + 1 \in DOMAIN detections
        /\ Looked' = IF Current.rule = rule THEN Looked \cup {d + 1} ELSE Looked
        /\ d \in 0 .. Len(detections) - 1
    BY <1>2, ScoreStep
  <2>3. Taken \subseteq Taken'
    BY <1>2, ScoreStep DEF Taken
  <2>4. RuleTruth' = RuleTruth /\ \A j, t : InWindow(j, t)' = InWindow(j, t)
    BY <2>2 DEF RuleTruth, OfRule, InWindow, Window
  <2>5. Apart(truth, rule)' = Apart(truth, rule)
    BY <2>2 DEF Apart, OfRule
  <2> SUFFICES ASSUME Apart(truth, rule), NEW j \in Looked', NEW t \in RuleTruth, InWindow(j, t)
               PROVE  t \in Taken'
    BY <2>4, <2>5 DEF ApartInv
  <2>6. CASE j \in Looked
    BY <2>3, <2>6 DEF ApartInv
  <2>7. CASE j = d + 1 /\ Current.rule = rule /\ t \notin Taken
    <3>1. t \in DOMAIN truth /\ t \in Open /\ Open \subseteq RuleTruth
      BY <2>7 DEF RuleTruth, OfRule, Open
    <3>2. /\ InTime(Current.at, t) /\ ~NotYet(Current.at, t)
      BY <2>1, <2>2, <2>7, <3>1, WindowOf DEF Current
    <3>3. \A u \in Open : u < t => ~InTime(Current.at, u) /\ ~NotYet(Current.at, u)
      BY <2>1, <2>2, <2>7, <3>1, OneWindow DEF Current
    <3>4. \A u \in Open : u <= t => u < t \/ u = t
      BY <2>1, <3>1, EventIntegers DEF Open
    <3>5. Answers(Current.at, t)
      BY <3>1, <3>2, <3>3, <3>4 DEF Answers
    <3>6. PICK s \in DOMAIN truth :
            /\ Answers(Current.at, s)
            /\ DOMAIN matched' = DOMAIN matched \cup {d + 1} /\ matched'[d + 1] = s
      BY <1>2, <2>7, <3>1, <3>5, ScoreStep
    <3>7. s \in Taken' /\ s \in RuleTruth /\ InWindow(d + 1, s)
      BY <2>1, <2>2, <3>6, AnswerIsInWindow DEF Taken
    <3>8. s = t
      <4>1. s \in DOMAIN truth /\ ~(s < t) /\ ~(t < s)
        <5>1. ~(s < t)
          BY <2>1, <2>2, <2>7, <3>7, OneWindow, WindowOf, <3>6
        <5>2. ~(t < s)
          BY <2>1, <2>2, <2>7, <3>1, <3>7, OneWindow, WindowOf
        <5> QED
          BY <3>6, <5>1, <5>2
      <4> QED
        BY <2>1, <3>1, <4>1, EventIntegers
    <3> QED
      BY <3>7, <3>8
  <2> QED
    BY <2>2, <2>3, <2>6, <2>7
<1> QED
  BY <1>1, <1>2

\* Nothing is paired before the first detection.
LEMMA FreshApart == ASSUME d = 0 PROVE ApartInv
<1>1. Looked = {}
  BY DEF Looked
<1> QED
  BY <1>1 DEF ApartInv

\* No matching answers more events than have a detection in their window.
LEMMA InvGivesAgreement == MatchInv /\ ApartInv => AgreesWhenApart
<1> SUFFICES ASSUME MatchInv, ApartInv, Scored, Apart(truth, rule), NEW m \in Matchings
             PROVE  Cardinality(m) <= TruePositives
  BY DEF AgreesWhenApart
<1>1. SceneTypeOK /\ d \in 0 .. Len(detections) /\ DOMAIN matched \subseteq Looked
  BY DEF MatchInv
<1>2. Looked = RuleDetections
  BY DEF Scored, Looked, RuleDetections, OfRule, MatchInv, SceneTypeOK
<1>3. IsFiniteSet(DOMAIN matched)
  BY <1>1, FiniteCounts
<1> DEFINE g == [j \in DOMAIN matched |-> matched[j]]
<1>4. g \in Surjection(DOMAIN matched, Taken)
  BY DEF Surjection, Taken
<1>5. IsFiniteSet(Taken) /\ Cardinality(Taken) <= Cardinality(DOMAIN matched)
  BY <1>3, <1>4, FS_Surjection
<1>6. \A p \in m : /\ p[1] \in RuleDetections /\ p[2] \in RuleTruth /\ InWindow(p[1], p[2])
  BY DEF Matchings, MatchingsOf, RuleDetections, RuleTruth, InWindow
<1>7. \A p \in m : p[2] \in Taken
  BY <1>2, <1>6 DEF ApartInv
<1>8. \A p, q \in m : p # q => p[2] # q[2]
  BY DEF Matchings, MatchingsOf
<1> DEFINE f == [p \in m |-> p[2]]
<1>9. f \in Injection(m, Taken)
  BY <1>7, <1>8 DEF Injection, IsInjective
<1>10. IsFiniteSet(m) /\ Cardinality(m) <= Cardinality(Taken)
  BY <1>5, <1>9, FS_Injection
<1>11. /\ Cardinality(m) \in Nat /\ Cardinality(Taken) \in Nat
       /\ Cardinality(DOMAIN matched) \in Nat
  BY <1>3, <1>5, <1>10, FS_CardinalityType
<1> QED
  BY <1>5, <1>10, <1>11 DEF TruePositives

\* gw_bench.h:149: whatever the scene, when the windows of a rule are apart no
\* matching finds more true positives than gw_score does.
THEOREM GreedyIsOptimal == SSpec => []AgreesWhenApart
<1>1. SInit => MatchInv /\ ApartInv
  BY InitMatchInv, FreshApart DEF SInit
<1>2. MatchInv /\ ApartInv /\ [SNext]_svars => (MatchInv /\ ApartInv)'
  BY StepKeepsInv, ApartStep
<1>3. MatchInv /\ ApartInv => AgreesWhenApart
  BY InvGivesAgreement
<1> QED
  BY <1>1, <1>2, <1>3, PTL DEF SSpec

-----------------------------------------------------------------------------
(***************************************************************************)
(* Greedy and earliest.                                                    *)
(***************************************************************************)
EventsInOrder ==
  \A t, u \in DOMAIN truth : t < u => truth[t].at <= truth[u].at

\* The earliest events still open when each detection came up, of those whose
\* window it is in: one or none.
Earliest ==
  [j \in RuleDetections |->
     LET open == {u \in RuleTruth : \A i \in DOMAIN matched : i < j => matched[i] # u}
     IN  {t \in open : InWindow(j, t) /\ \A u \in open : u < t => ~InWindow(j, u)}]

EarliestTaken ==
  \A j \in RuleDetections :
    j <= d => IF j \in DOMAIN matched THEN matched[j] \in Earliest[j] ELSE Earliest[j] = {}

EarliestInv == EventsInOrder /\ (SameBefore => EarliestTaken)

\* With one before_ns, an event still to come is followed by none in whose
\* window the instant is.
LEMMA NotYetFollows ==
  ASSUME SceneTypeOK, EventsInOrder, SameBefore, NEW j \in DOMAIN detections,
         NEW t \in RuleTruth, NEW u \in RuleTruth, u <= t,
         ~NotYet(detections[j].at, t)
  PROVE  ~NotYet(detections[j].at, u)
<1>1. t \in DOMAIN truth /\ u \in DOMAIN truth
  BY DEF RuleTruth, OfRule
<1> DEFINE at == detections[j].at
           a == truth[t].at  b == truth[t].before
           c == truth[u].at  e == truth[u].before
<1>2. /\ at \in Int /\ a \in Int /\ b \in Nat /\ c \in Int /\ e \in Nat
      /\ t \in Nat /\ u \in Nat
  BY <1>1, EventIntegers
<1>3. b = e
  BY DEF SameBefore
<1>4. c <= a
  <2>1. CASE u < t
    BY <1>1, <2>1 DEF EventsInOrder
  <2>2. CASE u = t
    BY <1>2, <2>2
  <2> QED
    BY <1>2, <2>1, <2>2
<1>5. /\ NotYet(at, t) <=> at < a - b
      /\ NotYet(at, u) <=> at < c - e
  BY DEF NotYet
<1> HIDE DEF at, a, b, c, e
<1>6. ~(at < a - b) => ~(at < c - e)
  BY <1>2, <1>3, <1>4
<1> QED
  BY <1>5, <1>6 DEF at

\* What the inner loop stops at is the earliest open event whose window the
\* detection is in, and it stops at none only if there is none.
LEMMA AnswersIsEarliest ==
  ASSUME MatchInv, EventsInOrder, SameBefore, d + 1 \in DOMAIN detections,
         NEW t \in DOMAIN truth
  PROVE  Answers(Current.at, t) <=>
           /\ t \in Open /\ InWindow(d + 1, t)
           /\ \A u \in Open : u < t => ~InWindow(d + 1, u)
<1>1. SceneTypeOK /\ Open \subseteq RuleTruth /\ RuleTruth \subseteq DOMAIN truth
  BY DEF MatchInv, Open, RuleTruth, OfRule
<1>2. \A u \in Open :
        InWindow(d + 1, u) <=> InTime(Current.at, u) /\ ~NotYet(Current.at, u)
  BY <1>1, WindowOf DEF Current
<1>3. ASSUME t \in Open, ~NotYet(Current.at, t)
      PROVE  \A u \in Open : u <= t => ~NotYet(Current.at, u)
  BY <1>1, <1>3, NotYetFollows DEF Current
<1>4. \A u \in Open : (u <= t <=> u < t \/ u = t) /\ (u < t => u <= t)
  BY <1>1, EventIntegers
<1> QED
  BY <1>2, <1>3, <1>4 DEF Answers

\* Every step leaves no earlier appearance unanswered.
LEMMA EarliestStep ==
  ASSUME MatchInv, EarliestInv, [SNext]_svars
  PROVE  EarliestInv'
<1>1. CASE UNCHANGED svars
  <2>1. UNCHANGED <<truth, detections, rule, d, matched>>
    BY <1>1 DEF svars
  <2>2. /\ RuleTruth' = RuleTruth /\ RuleDetections' = RuleDetections
        /\ \A j, t : InWindow(j, t)' = InWindow(j, t)
    BY <2>1 DEF RuleTruth, RuleDetections, OfRule, InWindow, Window
  <2>3. Earliest' = Earliest
    BY <2>1, <2>2 DEF Earliest
  <2>4. EarliestTaken' = EarliestTaken /\ SameBefore' = SameBefore
    BY <2>1, <2>2, <2>3 DEF EarliestTaken, SameBefore
  <2> QED
    BY <2>1, <2>4 DEF EarliestInv, EventsInOrder
<1>2. CASE SNext
  <2>1. /\ UNCHANGED <<truth, detections, rule>> /\ d + 1 \in DOMAIN detections
        /\ d' = d + 1 /\ d \in 0 .. Len(detections) - 1 /\ d + 1 \notin DOMAIN matched
    BY <1>2, ScoreStep
  <2>2. /\ RuleTruth' = RuleTruth /\ RuleDetections' = RuleDetections
        /\ \A j, t : InWindow(j, t)' = InWindow(j, t)
    BY <2>1 DEF RuleTruth, RuleDetections, OfRule, InWindow, Window
  <2>3. EventsInOrder' /\ (SameBefore' => SameBefore)
    BY <2>1, <2>2 DEF EarliestInv, EventsInOrder, SameBefore
  <2>4. SceneTypeOK /\ DOMAIN matched \subseteq 1 .. d /\ d \in Nat
    BY <2>1, EventIntegers DEF MatchInv, Looked
  <2>5. /\ \A j \in DOMAIN matched : j \in DOMAIN matched' /\ matched'[j] = matched[j]
        /\ DOMAIN matched' \subseteq DOMAIN matched \cup {d + 1}
    BY <1>2, ScoreStep
  <2> SUFFICES ASSUME SameBefore, NEW j \in RuleDetections, j <= d + 1
               PROVE  IF j \in DOMAIN matched' THEN matched'[j] \in Earliest'[j]
                      ELSE Earliest'[j] = {}
    BY <2>1, <2>2, <2>3 DEF EarliestInv, EarliestTaken
  <2>6. j \in Nat
    BY <2>4, EventIntegers DEF RuleDetections, OfRule
  \* What was open when j came up does not depend on what comes after.
  <2>7. Earliest'[j] = Earliest[j]
    <3> DEFINE O == {u \in RuleTruth : \A i \in DOMAIN matched : i < j => matched[i] # u}
    <3>1. \A i \in DOMAIN matched' : i < j => i \in DOMAIN matched
      BY <2>1, <2>4, <2>5, <2>6
    <3>2. O' = O
      BY <2>2, <2>5, <3>1
    <3>3. /\ Earliest[j] = {t \in O : InWindow(j, t) /\ \A u \in O : u < t => ~InWindow(j, u)}
          /\ Earliest'[j] = {t \in O' : InWindow(j, t)'
                                        /\ \A u \in O' : u < t => ~InWindow(j, u)'}
      BY <2>2 DEF Earliest
    <3> HIDE DEF O
    <3> QED
      BY <2>2, <3>2, <3>3
  <2>8. CASE j <= d
    <3>1. j \in DOMAIN matched' <=> j \in DOMAIN matched
      BY <2>4, <2>5, <2>6, <2>8
    <3>2. IF j \in DOMAIN matched THEN matched[j] \in Earliest[j] ELSE Earliest[j] = {}
      BY <2>8 DEF EarliestInv, EarliestTaken
    <3> QED
      BY <2>5, <2>7, <3>1, <3>2
  <2>9. CASE j = d + 1
    <3>1. Current.rule = rule
      BY <2>9 DEF RuleDetections, OfRule, Current
    <3>2. \A t : t \in Earliest[j] <=> t \in DOMAIN truth /\ Answers(Current.at, t)
      <4>1. Open = {u \in RuleTruth : \A i \in DOMAIN matched : i < j => matched[i] # u}
        BY <2>4, <2>9 DEF Open, Taken, RuleTruth, OfRule
      <4>2. Open \subseteq DOMAIN truth
        BY DEF Open
      <4>3. Earliest[j] = {t \in Open : InWindow(j, t) /\ \A u \in Open : u < t => ~InWindow(j, u)}
        BY <4>1 DEF Earliest
      <4> QED
        BY <2>1, <2>9, <4>2, <4>3, AnswersIsEarliest DEF EarliestInv
    <3>3. CASE matched' = matched /\ \A t \in DOMAIN truth : ~Answers(Current.at, t)
      <4>1. j \notin DOMAIN matched'
        BY <2>1, <2>9, <3>3
      <4> QED
        BY <2>7, <3>2, <3>3, <4>1
    <3>4. CASE \E t \in DOMAIN truth :
                 /\ Answers(Current.at, t)
                 /\ DOMAIN matched' = DOMAIN matched \cup {d + 1}
                 /\ matched'[d + 1] = t
      BY <2>7, <2>9, <3>2, <3>4
    <3> QED
      BY <1>2, <3>1, <3>3, <3>4, ScoreStep
  <2> QED
    BY <2>4, <2>6, <2>8, <2>9
<1> QED
  BY <1>1, <1>2

\* What gw_bench.h:146 says of the matching holds of every scene whose windows
\* open equally long before their events.
THEOREM EarliestAnswered == SSpec => []GreedyIsEarliest
<1>1. SInit => MatchInv /\ EarliestInv
  <2> SUFFICES ASSUME SInit PROVE MatchInv /\ EarliestInv
    OBVIOUS
  <2>1. MatchInv
    BY InitMatchInv
  <2>2. EventsInOrder
    BY DEF SInit, Scorable, Ascending, EventsInOrder
  <2>3. \A j \in RuleDetections : ~(j <= d)
    BY <2>1, EventIntegers DEF SInit, RuleDetections, OfRule, MatchInv
  <2> QED
    BY <2>1, <2>2, <2>3 DEF EarliestInv, EarliestTaken
<1>2. MatchInv /\ EarliestInv /\ [SNext]_svars => (MatchInv /\ EarliestInv)'
  BY StepKeepsInv, EarliestStep
<1>3. EarliestInv => GreedyIsEarliest
  BY DEF EarliestInv, EarliestTaken, Earliest, GreedyIsEarliest, AnswersEarliest, EarliestOpen
<1> QED
  BY <1>1, <1>2, <1>3, PTL DEF SSpec

-----------------------------------------------------------------------------
(***************************************************************************)
(* The gate is fair.                                                       *)
(***************************************************************************)
\* Some rule of some scene misses a floor under every matching, or has windows
\* that are not apart.
SomeMiss ==
  \E k \in DOMAIN command.files : LET f == command.files[k] IN
    \E r \in RulesOf(f) : ~Apart(f.truth, r) \/ (Happened(f, r) /\ ~Deserves(f, r))

FairInv ==
  /\ ApartInv
  /\ failures > 0 => SomeMiss
  /\ exit_code = 1 => failures > 0 \/ ~AllScenes

\* Fewer true positives do not meet a floor that more of them miss.
LEMMA BelowMonotone ==
  ASSUME NEW a \in Nat, NEW b \in Nat, a <= b, NEW n \in Nat, NEW floor \in Int,
         Below(b, n, floor)
  PROVE  Below(a, n, floor)
<1> DEFINE asked == floor * n
<1>1. asked \in Int
  OBVIOUS
<1> HIDE DEF asked
<1>2. 100 * b < asked => 100 * a < asked
  BY <1>1
<1> QED
  BY <1>2 DEF Below, asked

\* A rule that misses a floor under the matching of gw_score, its windows apart,
\* misses one under any.
LEMMA MissIsUndeserved ==
  ASSUME GateInv, MatchInv, ApartInv, place = "rules", Scored, Misses(Metrics) # 0,
         Apart(File.truth, rule)
  PROVE  Happened(File, rule) /\ ~Deserves(File, rule)
<1> DEFINE tp == TruePositives
           fn == FalseNegatives
<1>1. /\ truth = File.truth /\ detections = File.detections
      /\ command.min_precision \in Int /\ command.min_recall \in Int
  BY CommandFacts DEF GateInv, AtFile
<1>2. /\ tp + fp = Cardinality(OfRule(File.detections, rule))
      /\ tp + fn = Cardinality(OfRule(File.truth, rule))
  BY <1>1, InvGivesCounts DEF CountsAreAMatching, RuleDetections, RuleTruth
<1>3. /\ SceneTypeOK /\ d \in 0 .. Len(detections) /\ DOMAIN matched \subseteq Looked
      /\ fp \in Nat
  BY DEF MatchInv
<1>4. tp \in Nat /\ fn \in Nat
  BY <1>3, FiniteCounts, FS_CardinalityType DEF TruePositives, FalseNegatives
<1>5. Metrics.tp = tp /\ Metrics.fp = fp /\ Metrics.fn = fn
  BY DEF Metrics
<1>6. Measured(Metrics)
  BY DEF Misses
<1>7. Happened(File, rule)
  <2> SUFFICES ASSUME OfRule(File.detections, rule) = {}, OfRule(File.truth, rule) = {}
               PROVE  FALSE
    BY DEF Happened
  <2>1. tp + fp = 0 /\ tp + fn = 0
    BY <1>2, FS_EmptySet
  <2>2. tp + fp + fn = 0
    BY <1>3, <1>4, <2>1
  <2> QED
    BY <1>5, <1>6, <2>2 DEF Measured
<1>8. ASSUME Deserves(File, rule) PROVE FALSE
  <2>1. PICK m \in MatchingsOf(File.truth, File.detections, rule) :
          /\ ~Below(Cardinality(m), tp + fp, command.min_precision)
          /\ ~Below(Cardinality(m), tp + fn, command.min_recall)
    BY <1>2, <1>8 DEF Deserves
  <2>2. m \in Matchings
    BY <1>1, <2>1 DEF Matchings
  <2>3. Cardinality(m) <= tp /\ Cardinality(m) \in Nat
    <3>1. Cardinality(m) <= tp
      BY <1>1, <2>2, InvGivesAgreement DEF AgreesWhenApart
    <3>2. IsFiniteSet(m)
      <4>1. IsFiniteSet(RuleDetections \X RuleTruth)
        BY <1>3, FiniteCounts, FS_Product
      <4>2. m \in SUBSET (RuleDetections \X RuleTruth)
        BY <2>2 DEF Matchings, MatchingsOf, RuleDetections, RuleTruth
      <4> QED
        BY <4>1, <4>2, FS_Subset
    <3> QED
      BY <3>1, <3>2, FS_CardinalityType
  <2> DEFINE A == Below(tp, tp + fp, command.min_precision)
             B == Below(tp, tp + fn, command.min_recall)
  <2>4. tp + fp \in Nat /\ tp + fn \in Nat
    BY <1>3, <1>4
  <2>5. ~A /\ ~B
    BY <1>1, <1>4, <2>1, <2>3, <2>4, BelowMonotone
  <2>6. (IF A THEN 1 ELSE 0) + (IF B THEN 1 ELSE 0) = 0
    <3> HIDE DEF A, B
    <3> QED
      BY <2>5
  <2> QED
    BY <1>5, <1>6, <2>6 DEF Misses
<1> QED
  BY <1>7, <1>8

\* Nothing else touches the pairs,
LEMMA StutterKeepsApart == ASSUME MatchInv, ApartInv, UNCHANGED svars PROVE ApartInv'
BY ApartStep

\* and every scene begins without any.
LEMMA CallKeepsApart == ASSUME d' = 0 PROVE ApartInv'
<1>1. Looked' = {}
  BY DEF Looked
<1> QED
  BY <1>1 DEF ApartInv

\* What a gate is judged by is fixed by the command.
LEMMA MissesStay ==
  ASSUME UNCHANGED command
  PROVE  SomeMiss' = SomeMiss /\ AllScenes' = AllScenes
BY DEF SomeMiss, AllScenes, RulesOf, Happened, Deserves

\* Every step of the command keeps the gate fair.
LEMMA FairStep ==
  ASSUME GateInv, MatchInv, FairInv, [PNext]_<<svars, pvars>>
  PROVE  FairInv'
<1>0. UNCHANGED command
  BY DEF pvars, PNext, Usage, NoScene, Scene, Match, Judge, AllFilesRead
<1>1. SomeMiss' = SomeMiss /\ AllScenes' = AllScenes
  BY <1>0, MissesStay
<1>2. CASE UNCHANGED <<svars, pvars>> \/ Match
  <2>1. UNCHANGED <<failures, exit_code>> /\ [SNext]_svars
    BY <1>2 DEF pvars, Match
  <2> QED
    BY <1>1, <2>1, ApartStep DEF FairInv
<1>3. CASE Usage \/ NoScene \/ AllFilesRead
  <2>1. UNCHANGED <<svars, failures>>
    BY <1>3 DEF Usage, NoScene, AllFilesRead
  <2>2. failures \in Nat /\ at_file \in Nat \ {0} /\ command \in CommandLines
    BY DEF GateInv
  <2>3. NoScene => ~AllScenes
    <3> SUFFICES ASSUME NoScene PROVE ~AllScenes
      OBVIOUS
    <3>1. at_file \in DOMAIN command.files
      BY <2>2, CommandFacts DEF NoScene
    <3> QED
      BY <3>1 DEF NoScene, AllScenes, File
  <2>4. exit_code' = 1 => failures > 0 \/ ~AllScenes
    BY <1>3, <2>2, <2>3 DEF Usage, AllFilesRead, Leave
  <2> QED
    BY <1>1, <2>1, <2>4, StutterKeepsApart DEF FairInv
<1>4. CASE Scene
  <2>1. d' = 0 /\ UNCHANGED <<failures, exit_code>>
    BY <1>4 DEF Scene, Call
  <2> QED
    BY <1>1, <2>1, CallKeepsApart DEF FairInv
<1>5. CASE Judge
  <2>1. /\ place = "rules" /\ Scored /\ NextRule /\ UNCHANGED exit_code
        /\ failures' = failures + Misses(Metrics)
    BY <1>5 DEF Judge
  <2>2. exit_code = NoCode
    BY <2>1 DEF GateInv
  <2>3. ApartInv'
    BY <2>1, StutterKeepsApart, CallKeepsApart DEF NextRule, Call, FairInv
  <2>4. failures \in Nat /\ Misses(Metrics) \in Nat
    BY DEF GateInv, Misses
  <2>5. failures' > 0 => failures > 0 \/ Misses(Metrics) # 0
    BY <2>1, <2>4
  <2>6. ASSUME Misses(Metrics) # 0 PROVE SomeMiss
    <3>1. at_file \in DOMAIN command.files /\ rule \in RulesOf(File)
      BY <2>1, CommandFacts DEF GateInv, AtFile
    <3>2. ~Apart(File.truth, rule) \/ (Happened(File, rule) /\ ~Deserves(File, rule))
      BY <2>1, <2>6, MissIsUndeserved DEF FairInv
    <3> QED
      BY <3>1, <3>2 DEF SomeMiss, File
  <2> QED
    BY <1>1, <2>1, <2>2, <2>3, <2>5, <2>6 DEF FairInv, NoCode
<1> QED
  BY <1>2, <1>3, <1>4, <1>5 DEF PNext

\* replay.c:140: whatever the files and floors, the gate stays closed on scenes
\* whose windows are apart only if some rule misses a floor under every
\* matching.
THEOREM FairGate == PSpec => []GateIsFair
<1>1. PInit => GateInv /\ MatchInv /\ FairInv
  <2>1. PInit => FairInv
    BY FreshApart DEF PInit, Started, NothingToScore, FairInv, NoCode
  <2> QED
    BY <2>1, InitGateInv
<1>2. (GateInv /\ MatchInv /\ FairInv) /\ [PNext]_<<svars, pvars>>
        => (GateInv /\ MatchInv /\ FairInv)'
  BY NextKeepsInv, FairStep
<1>3. GateInv /\ MatchInv /\ FairInv => GateIsFair
  BY DEF FairInv, SomeMiss, GateIsFair
<1> QED
  BY <1>1, <1>2, <1>3, PTL DEF PSpec
=============================================================================
