-------------------------- MODULE GwManifestProofs --------------------------
(***************************************************************************)
(* What an accepted manifest guarantees, for any lines in any order and    *)
(* any limits: the contract between the parser, the replay and the         *)
(* scoring.                                                                *)
(*                                                                         *)
(* The inductive invariant says of the scene read so far, part by part,    *)
(* what AcceptedIsUsable says of the whole at the end.                     *)
(***************************************************************************)
EXTENDS GwManifest, TLAPS

Event     == [rule : Nat, at : Int, before : Nat, after : Nat \ {0}]
Labelling == UNION {[S -> Value] : S \in SUBSET Nat}
Taken     == [t : Int, label : Labelling]

Parts == {"name", "camera", "split", "tick", "rules", "truth", "samples", "restarts"}

RulesOK ==
  /\ scene.rules \in Seq(Config)
  /\ Len(scene.rules) <= MaxRules
  /\ \A i \in DOMAIN scene.rules : CopyIdStatus(scene.rules[i].id) = "OK"
  /\ \A i, j \in DOMAIN scene.rules : scene.rules[i].id = scene.rules[j].id => i = j

TruthOK ==
  /\ scene.truth \in Seq(Event)
  /\ \A j, k \in DOMAIN scene.truth : j < k => scene.truth[j].at <= scene.truth[k].at
  /\ \A k \in DOMAIN scene.truth : scene.truth[k].rule \in 0 .. Len(scene.rules) - 1

SamplesOK ==
  /\ scene.samples \in Seq(Taken)
  /\ \A j, k \in DOMAIN scene.samples : j < k => scene.samples[j].t <= scene.samples[k].t
  /\ \A k \in DOMAIN scene.samples :
       DOMAIN scene.samples[k].label \subseteq 0 .. Len(scene.rules) - 1

RestartsOK ==
  /\ scene.restarts \in Seq(Int)
  /\ \A j, k \in DOMAIN scene.restarts : j < k => scene.restarts[j] <= scene.restarts[k]

CompleteOK ==
  /\ scene.rules # <<>> /\ scene.samples # <<>>
  /\ scene.tick > 0
  /\ \A i \in DOMAIN scene.rules : scene.tick <= scene.rules[i].max_gap

ManifestInv ==
  /\ DOMAIN scene = Parts
  /\ scene.tick \in Nat
  /\ window \in [before : Nat, after : Nat]
  /\ RulesOK
  /\ TruthOK
  /\ SamplesOK
  /\ RestartsOK
  /\ pc = "accepted" => CompleteOK

\* An accepted scene is what the invariant says of its parts.
LEMMA InvIsUsable == ManifestInv => AcceptedIsUsable
<1> SUFFICES ASSUME ManifestInv, pc = "accepted"
             PROVE  /\ Replayable(scene, Value)
                    /\ Scorable(scene.truth)
                    /\ Len(scene.rules) <= MaxRules
                    /\ \A i \in DOMAIN scene.rules : CopyIdStatus(scene.rules[i].id) = "OK"
                    /\ \A i, j \in DOMAIN scene.rules :
                         scene.rules[i].id = scene.rules[j].id => i = j
                    /\ \A k \in DOMAIN scene.truth :
                         scene.truth[k].rule \in 0 .. Len(scene.rules) - 1
  BY DEF AcceptedIsUsable
<1>1. RulesOK /\ TruthOK /\ SamplesOK /\ RestartsOK /\ CompleteOK
  BY DEF ManifestInv
<1>2. ASSUME NEW k \in DOMAIN scene.samples,
             NEW i \in DOMAIN scene.samples[k].label
      PROVE  i \in 0 .. Len(scene.rules) - 1 /\ scene.samples[k].label[i] \in Value
  <2>1. scene.samples[k] \in Taken
    BY <1>1 DEF SamplesOK
  <2>2. PICK S \in SUBSET Nat : scene.samples[k].label \in [S -> Value]
    BY <2>1 DEF Taken, Labelling
  <2> QED BY <1>1, <2>2 DEF SamplesOK
<1>3. Replayable(scene, Value)
  BY <1>1, <1>2 DEF Replayable, Ascending, SamplesOK, RestartsOK, CompleteOK
<1>4. \A k \in DOMAIN scene.truth : scene.truth[k].before >= 0 /\ scene.truth[k].after > 0
  <2> TAKE k \in DOMAIN scene.truth
  <2>1. scene.truth[k] \in Event
    BY <1>1 DEF TruthOK
  <2> QED BY <2>1 DEF Event
<1>5. Scorable(scene.truth)
  BY <1>1, <1>4 DEF Scorable, Ascending, TruthOK
<1> QED
  BY <1>1, <1>3, <1>5 DEF RulesOK, TruthOK

\* An empty manifest satisfies the invariant.
LEMMA InitManifestInv == MInit => ManifestInv
<1> SUFFICES ASSUME MInit PROVE ManifestInv
  OBVIOUS
<1>1. /\ DOMAIN scene = Parts /\ scene.tick = 0 /\ pc = "reading"
      /\ scene.rules = <<>> /\ scene.truth = <<>>
      /\ scene.samples = <<>> /\ scene.restarts = <<>>
      /\ window = [before |-> 0, after |-> 0]
  BY DEF MInit, Parts
<1>2. RulesOK
  BY <1>1, LimitsAssumption DEF RulesOK
<1>3. TruthOK /\ SamplesOK /\ RestartsOK
  BY <1>1 DEF TruthOK, SamplesOK, RestartsOK
<1> QED
  BY <1>1, <1>2, <1>3 DEF ManifestInv

\* Keeping a part leaves the others as they are.
LEMMA KeepPart ==
  ASSUME DOMAIN scene = Parts, NEW field \in Parts, NEW value, Keep(field, value)
  PROVE  /\ DOMAIN scene' = Parts
         /\ scene'[field] = value
         /\ \A part \in Parts \ {field} : scene'[part] = scene[part]
         /\ pc' = pc /\ window' = window
BY DEF Keep

\* One more element at the end.
LEMMA AppendOne ==
  ASSUME NEW S, NEW s \in Seq(S), NEW e \in S
  PROVE  LET t == Append(s, e) IN
         /\ t \in Seq(S) /\ t # <<>>
         /\ Len(s) \in Nat /\ Len(t) = Len(s) + 1
         /\ DOMAIN s = 1 .. Len(s) /\ DOMAIN t = 1 .. Len(s) + 1
         /\ \A k \in DOMAIN s : t[k] = s[k] /\ k <= Len(s) /\ s[k] \in S
         /\ t[Len(s) + 1] = e
         /\ s # <<>> => Len(s) \in DOMAIN s
OBVIOUS

\* A name that is declared has an index.
LEMMA DeclaredIndex ==
  ASSUME scene.rules \in Seq(Config), NEW id, Declared(id)
  PROVE  IndexOf(id) \in 0 .. Len(scene.rules) - 1
<1>1. \E i \in DOMAIN scene.rules : scene.rules[i].id = id
  BY DEF Declared
<1>2. (CHOOSE i \in DOMAIN scene.rules : scene.rules[i].id = id) \in DOMAIN scene.rules
  BY <1>1
<1> QED
  BY <1>2 DEF IndexOf

\* A number that may be left out is a number.
LEMMA OptionalType ==
  ASSUME NEW token \in Seq(Int), NEW default \in Int
  PROVE  Optional(token, default) \in Int
BY DEF Optional

\* The facts every line that is taken up shares.
LEMMA LineFacts ==
  ASSUME NEW l \in Lines, NEW keyword \in Keywords, Line(l, keyword)
  PROVE  pc = "reading" /\ l.kw = keyword /\ Tokens(l) /\ Means(l)
BY LinesAssumption DEF Line, Means

\* A rule line keeps the invariant,
LEMMA RuleKeepsInv ==
  ASSUME ManifestInv, NEW l \in Lines, Rule(l)
  PROVE  ManifestInv'
<1> DEFINE cfg == [ id |-> l.id, kind |-> l.kind, target |-> l.target,
                    confirm_count |-> l.count, confirm_window |-> l.window,
                    max_gap |-> l.gap, sustain |-> Optional(l.sustain, 0) ]
           s == scene.rules
           t == Append(s, cfg)
<1>1. pc = "reading" /\ l.kw = "rule" /\ Tokens(l) /\ Means(l) /\ Keep("rules", t)
  BY LineFacts DEF Rule, Keywords
<1>2. cfg \in Config /\ CopyIdStatus(cfg.id) = "OK"
  <2>1. /\ l.id \in Ids /\ CopyIdStatus(l.id) = "OK"
        /\ l.kind \in Kind /\ l.target \in Value /\ l.count \in 0 .. CountMax
        /\ l.window \in Int /\ l.gap \in Int /\ l.sustain \in Seq(Int)
    BY <1>1 DEF Tokens, Kind
  <2>2. Optional(l.sustain, 0) \in Int
    BY <2>1, OptionalType
  <2> QED BY <2>1, <2>2 DEF Config
<1>3. Len(s) < MaxRules /\ ~Declared(l.id)
  BY <1>1 DEF Means, RuleMeans
<1>4. /\ DOMAIN scene' = Parts /\ scene'.rules = t
      /\ scene'.truth = scene.truth /\ scene'.samples = scene.samples
      /\ scene'.restarts = scene.restarts /\ scene'.tick = scene.tick
      /\ pc' = "reading" /\ window' = window
  <2>1. \A part \in Parts \ {"rules"} : scene'[part] = scene[part]
    BY <1>1, KeepPart DEF ManifestInv, Parts
  <2> QED BY <1>1, <2>1, KeepPart DEF ManifestInv, Parts
<1>5. s \in Seq(Config) /\ MaxRules \in Nat
  BY LimitsAssumption DEF ManifestInv, RulesOK
<1> HIDE DEF cfg
<1>6. /\ t \in Seq(Config) /\ Len(s) \in Nat /\ Len(t) = Len(s) + 1
      /\ DOMAIN s = 1 .. Len(s) /\ DOMAIN t = 1 .. Len(s) + 1
      /\ \A k \in DOMAIN s : t[k] = s[k] /\ k <= Len(s)
      /\ t[Len(s) + 1] = cfg
  BY <1>2, <1>5, AppendOne
<1>7. \A i \in DOMAIN s : s[i].id # cfg.id
  BY <1>3 DEF Declared, cfg
<1>8. ASSUME NEW i \in DOMAIN t PROVE CopyIdStatus(t[i].id) = "OK"
  <2>1. i \in DOMAIN s \/ i = Len(s) + 1
    BY <1>6
  <2> QED BY <1>2, <1>6, <2>1 DEF ManifestInv, RulesOK
<1>9. ASSUME NEW i \in DOMAIN t, NEW j \in DOMAIN t, t[i].id = t[j].id PROVE i = j
  <2>1. (i \in DOMAIN s \/ i = Len(s) + 1) /\ (j \in DOMAIN s \/ j = Len(s) + 1)
    BY <1>6
  <2>2. CASE i \in DOMAIN s /\ j \in DOMAIN s
    BY <1>6, <1>9, <2>2 DEF ManifestInv, RulesOK
  <2> QED BY <1>6, <1>7, <1>9, <2>1, <2>2
<1>10. RulesOK'
  BY <1>3, <1>4, <1>5, <1>6, <1>8, <1>9 DEF RulesOK
<1>11. TruthOK' /\ SamplesOK' /\ RestartsOK'
  <2>1. Len(scene'.rules) >= Len(scene.rules) /\ Len(scene.rules) \in Nat
    BY <1>4, <1>6
  <2>2. TruthOK'
    <3>1. TruthOK
      BY DEF ManifestInv
    <3>2. \A k \in DOMAIN scene.truth : scene.truth[k].rule \in 0 .. Len(scene'.rules) - 1
      BY <1>4, <1>6, <2>1, <3>1 DEF TruthOK
    <3> QED BY <1>4, <3>1, <3>2 DEF TruthOK
  <2>3. SamplesOK'
    <3>1. SamplesOK
      BY DEF ManifestInv
    <3>2. 0 .. Len(scene.rules) - 1 \subseteq 0 .. Len(scene'.rules) - 1
      BY <1>4, <1>6, <2>1
    <3> QED BY <1>4, <3>1, <3>2 DEF SamplesOK
  <2> QED BY <1>4, <2>2, <2>3 DEF ManifestInv, RestartsOK
<1> QED
  BY <1>4, <1>10, <1>11 DEF ManifestInv

\* an appearance line keeps it,
LEMMA TruthKeepsInv ==
  ASSUME ManifestInv, NEW l \in Lines, Truth(l)
  PROVE  ManifestInv'
<1> DEFINE e == [ rule |-> IndexOf(l.id), at |-> l.at, before |-> window.before,
                  after |-> Optional(l.after, window.after) ]
           s == scene.truth
           t == Append(s, e)
<1>1. pc = "reading" /\ l.kw = "truth" /\ Tokens(l) /\ Means(l) /\ Keep("truth", t)
  BY LineFacts DEF Truth, Keywords
<1>2. /\ Declared(l.id) /\ Optional(l.after, window.after) > 0
      /\ s # <<>> => s[Len(s)].at <= l.at
  BY <1>1 DEF Means, TruthMeans, NotBefore
<1>3. /\ DOMAIN scene' = Parts /\ scene'.truth = t
      /\ scene'.rules = scene.rules /\ scene'.samples = scene.samples
      /\ scene'.restarts = scene.restarts /\ scene'.tick = scene.tick
      /\ pc' = "reading" /\ window' = window
  <2>1. \A part \in Parts \ {"truth"} : scene'[part] = scene[part]
    BY <1>1, KeepPart DEF ManifestInv, Parts
  <2> QED BY <1>1, <2>1, KeepPart DEF ManifestInv, Parts
<1>4. IndexOf(l.id) \in 0 .. Len(scene.rules) - 1 /\ Len(scene.rules) \in Nat
  BY <1>2, DeclaredIndex DEF ManifestInv, RulesOK
<1>5. e \in Event /\ e.rule \in 0 .. Len(scene.rules) - 1
  <2>1. Optional(l.after, window.after) \in Nat \ {0}
    <3>1. l.after \in Seq(Int) /\ window.after \in Int
      BY <1>1 DEF Tokens, ManifestInv
    <3> QED BY <1>2, <3>1, OptionalType
  <2>2. l.at \in Int /\ window.before \in Nat
    BY <1>1 DEF Tokens, ManifestInv
  <2> QED BY <1>4, <2>1, <2>2 DEF Event
<1>6. /\ s \in Seq(Event) /\ e.at = l.at
      /\ \A j, k \in DOMAIN s : j < k => s[j].at <= s[k].at
  BY DEF ManifestInv, TruthOK
<1> HIDE DEF e
<1>7. /\ t \in Seq(Event) /\ Len(s) \in Nat /\ Len(t) = Len(s) + 1
      /\ DOMAIN s = 1 .. Len(s) /\ DOMAIN t = 1 .. Len(s) + 1
      /\ \A k \in DOMAIN s : t[k] = s[k] /\ k <= Len(s) /\ s[k] \in Event
      /\ t[Len(s) + 1] = e
      /\ s # <<>> => Len(s) \in DOMAIN s
  BY <1>5, <1>6, AppendOne
<1>8. ASSUME NEW j \in DOMAIN t, NEW k \in DOMAIN t, j < k PROVE t[j].at <= t[k].at
  <2>1. j \in DOMAIN s
    BY <1>7, <1>8
  <2>2. CASE k \in DOMAIN s
    BY <1>6, <1>7, <1>8, <2>1, <2>2
  <2>3. CASE k = Len(s) + 1
    <3>1. Len(s) \in DOMAIN s /\ s[Len(s)].at <= e.at
      BY <1>2, <1>6, <1>7, <2>1
    <3>2. s[j].at <= s[Len(s)].at
      <4>1. CASE j = Len(s)
        <5>1. s[j] \in Event
          BY <1>7, <2>1
        <5>2. s[j].at \in Int
          BY <5>1 DEF Event
        <5> QED BY <4>1, <5>2
      <4>2. CASE j < Len(s)
        BY <1>6, <2>1, <3>1, <4>2
      <4> QED BY <1>7, <2>1, <4>1, <4>2
    <3>3. s[j].at \in Int /\ s[Len(s)].at \in Int /\ e.at \in Int
      BY <1>5, <1>7, <2>1, <3>1 DEF Event
    <3> QED BY <1>7, <2>1, <2>3, <3>1, <3>2, <3>3
  <2> QED BY <1>7, <2>2, <2>3
<1>9. ASSUME NEW k \in DOMAIN t PROVE t[k].rule \in 0 .. Len(scene.rules) - 1
  <2>1. k \in DOMAIN s \/ k = Len(s) + 1
    BY <1>7
  <2> QED BY <1>5, <1>7, <2>1 DEF ManifestInv, TruthOK
<1>10. TruthOK'
  BY <1>3, <1>7, <1>8, <1>9 DEF TruthOK
<1>11. RulesOK' /\ SamplesOK' /\ RestartsOK'
  BY <1>3 DEF ManifestInv, RulesOK, SamplesOK, RestartsOK
<1> QED
  BY <1>3, <1>10, <1>11 DEF ManifestInv

\* a restart line keeps it,
LEMMA RestartKeepsInv ==
  ASSUME ManifestInv, NEW l \in Lines, Restart(l)
  PROVE  ManifestInv'
<1> DEFINE s == scene.restarts
           t == Append(s, l.at)
<1>1. pc = "reading" /\ l.kw = "restart" /\ Tokens(l) /\ Means(l) /\ Keep("restarts", t)
  BY LineFacts DEF Restart, Keywords
<1>2. l.at \in Int /\ (s # <<>> => s[Len(s)] <= l.at)
  BY <1>1 DEF Tokens, Means, RestartMeans, NotBefore
<1>3. /\ DOMAIN scene' = Parts /\ scene'.restarts = t
      /\ scene'.rules = scene.rules /\ scene'.samples = scene.samples
      /\ scene'.truth = scene.truth /\ scene'.tick = scene.tick
      /\ pc' = "reading" /\ window' = window
  <2>1. \A part \in Parts \ {"restarts"} : scene'[part] = scene[part]
    BY <1>1, KeepPart DEF ManifestInv, Parts
  <2> QED BY <1>1, <2>1, KeepPart DEF ManifestInv, Parts
<1>4. s \in Seq(Int) /\ \A j, k \in DOMAIN s : j < k => s[j] <= s[k]
  BY DEF ManifestInv, RestartsOK
<1>5. /\ t \in Seq(Int) /\ Len(s) \in Nat /\ Len(t) = Len(s) + 1
      /\ DOMAIN s = 1 .. Len(s) /\ DOMAIN t = 1 .. Len(s) + 1
      /\ \A k \in DOMAIN s : t[k] = s[k] /\ k <= Len(s) /\ s[k] \in Int
      /\ t[Len(s) + 1] = l.at
      /\ s # <<>> => Len(s) \in DOMAIN s
  BY <1>2, <1>4, AppendOne
<1>6. ASSUME NEW j \in DOMAIN t, NEW k \in DOMAIN t, j < k PROVE t[j] <= t[k]
  <2>1. j \in DOMAIN s
    BY <1>5, <1>6
  <2>2. CASE k \in DOMAIN s
    BY <1>4, <1>5, <1>6, <2>1, <2>2
  <2>3. CASE k = Len(s) + 1
    <3>1. Len(s) \in DOMAIN s /\ s[Len(s)] <= l.at /\ s[j] \in Int /\ s[Len(s)] \in Int
      BY <1>2, <1>4, <1>5, <2>1
    <3>2. s[j] <= s[Len(s)]
      <4>1. j = Len(s) \/ j < Len(s)
        BY <1>5, <2>1
      <4> QED BY <1>4, <2>1, <3>1, <4>1
    <3> QED BY <1>2, <1>5, <2>1, <2>3, <3>1, <3>2
  <2> QED BY <1>5, <2>2, <2>3
<1>7. RestartsOK'
  BY <1>3, <1>5, <1>6 DEF RestartsOK
<1>8. RulesOK' /\ SamplesOK' /\ TruthOK'
  BY <1>3 DEF ManifestInv, RulesOK, SamplesOK, TruthOK
<1> QED
  BY <1>3, <1>7, <1>8 DEF ManifestInv

\* The labels of a line are answers for declared rules.
LEMMA LabelType ==
  ASSUME ManifestInv, NEW l \in Lines, Tokens(l), SampleMeans(l), l.kw = "sample"
  PROVE  Label(l) \in Labelling /\ DOMAIN Label(l) \subseteq 0 .. Len(scene.rules) - 1
<1> DEFINE S == {IndexOf(l.labels[k].id) : k \in DOMAIN l.labels}
           T == {l.labels[k] : k \in DOMAIN l.labels}
<1>1. S \subseteq 0 .. Len(scene.rules) - 1 /\ S \subseteq Nat
  <2>1. \A k \in DOMAIN l.labels : IndexOf(l.labels[k].id) \in 0 .. Len(scene.rules) - 1
    BY DeclaredIndex DEF ManifestInv, RulesOK, SampleMeans
  <2> QED BY <2>1
<1>2. ASSUME NEW i \in S
      PROVE  (CHOOSE token \in T : IndexOf(token.id) = i).value \in Value
  <2>1. \E token \in T : IndexOf(token.id) = i
    OBVIOUS
  <2>2. (CHOOSE token \in T : IndexOf(token.id) = i) \in T
    BY <2>1
  <2>3. \A token \in T : token.value \in Value
    BY DEF Tokens
  <2> QED BY <2>2, <2>3
<1>3. Label(l) = [i \in S |-> (CHOOSE token \in T : IndexOf(token.id) = i).value]
  BY DEF Label
<1> HIDE DEF S, T
<1>4. Label(l) \in [S -> Value]
  BY <1>2, <1>3
<1> QED
  BY <1>1, <1>4 DEF Labelling

\* a sample line keeps it,
LEMMA SampleKeepsInv ==
  ASSUME ManifestInv, NEW l \in Lines, Sample(l)
  PROVE  ManifestInv'
<1> DEFINE e == [t |-> l.t, label |-> Label(l)]
           s == scene.samples
           t == Append(s, e)
<1>1. pc = "reading" /\ l.kw = "sample" /\ Tokens(l) /\ Means(l) /\ Keep("samples", t)
  BY LineFacts DEF Sample, Keywords
<1>2. SampleMeans(l) /\ l.t \in Int /\ (s # <<>> => s[Len(s)].t <= l.t)
  BY <1>1 DEF Tokens, Means, SampleMeans, NotBefore
<1>3. /\ DOMAIN scene' = Parts /\ scene'.samples = t
      /\ scene'.rules = scene.rules /\ scene'.restarts = scene.restarts
      /\ scene'.truth = scene.truth /\ scene'.tick = scene.tick
      /\ pc' = "reading" /\ window' = window
  <2>1. \A part \in Parts \ {"samples"} : scene'[part] = scene[part]
    BY <1>1, KeepPart DEF ManifestInv, Parts
  <2> QED BY <1>1, <2>1, KeepPart DEF ManifestInv, Parts
<1>4. e \in Taken /\ e.t = l.t /\ DOMAIN e.label \subseteq 0 .. Len(scene.rules) - 1
  BY <1>1, <1>2, LabelType DEF Taken
<1>5. s \in Seq(Taken) /\ \A j, k \in DOMAIN s : j < k => s[j].t <= s[k].t
  BY DEF ManifestInv, SamplesOK
<1> HIDE DEF e
<1>6. /\ t \in Seq(Taken) /\ Len(s) \in Nat /\ Len(t) = Len(s) + 1
      /\ DOMAIN s = 1 .. Len(s) /\ DOMAIN t = 1 .. Len(s) + 1
      /\ \A k \in DOMAIN s : t[k] = s[k] /\ k <= Len(s) /\ s[k] \in Taken
      /\ t[Len(s) + 1] = e
      /\ s # <<>> => Len(s) \in DOMAIN s
  BY <1>4, <1>5, AppendOne
<1>7. ASSUME NEW j \in DOMAIN t, NEW k \in DOMAIN t, j < k PROVE t[j].t <= t[k].t
  <2>1. j \in DOMAIN s
    BY <1>6, <1>7
  <2>2. CASE k \in DOMAIN s
    BY <1>5, <1>6, <1>7, <2>1, <2>2
  <2>3. CASE k = Len(s) + 1
    <3>1. Len(s) \in DOMAIN s /\ s[Len(s)].t <= e.t
      BY <1>2, <1>4, <1>6, <2>1
    <3>2. s[j].t \in Int /\ s[Len(s)].t \in Int /\ e.t \in Int
      BY <1>4, <1>6, <2>1, <3>1 DEF Taken
    <3>3. s[j].t <= s[Len(s)].t
      BY <1>5, <1>6, <2>1, <3>1, <3>2
    <3> QED BY <1>6, <2>1, <2>3, <3>1, <3>2, <3>3
  <2> QED BY <1>6, <2>2, <2>3
<1>8. ASSUME NEW k \in DOMAIN t PROVE DOMAIN t[k].label \subseteq 0 .. Len(scene.rules) - 1
  <2>1. k \in DOMAIN s \/ k = Len(s) + 1
    BY <1>6
  <2>2. \A i \in DOMAIN s : DOMAIN s[i].label \subseteq 0 .. Len(scene.rules) - 1
    BY DEF ManifestInv, SamplesOK
  <2>3. CASE k \in DOMAIN s
    BY <1>6, <2>2, <2>3
  <2>4. CASE k = Len(s) + 1
    BY <1>4, <1>6, <2>4
  <2> QED BY <2>1, <2>3, <2>4
<1>9. SamplesOK'
  BY <1>3, <1>6, <1>7, <1>8 DEF SamplesOK
<1>10. RulesOK' /\ RestartsOK' /\ TruthOK'
  BY <1>3 DEF ManifestInv, RulesOK, RestartsOK, TruthOK
<1> QED
  BY <1>3, <1>9, <1>10 DEF ManifestInv

\* A part the invariant does not look at, or the tick, may be set.
LEMMA SetPart ==
  ASSUME ManifestInv, pc = "reading",
         NEW field \in {"name", "camera", "split", "tick"}, NEW value,
         field = "tick" => value \in Nat, Keep(field, value)
  PROVE  ManifestInv'
<1>1. /\ DOMAIN scene' = Parts /\ scene'[field] = value /\ pc' = pc /\ window' = window
      /\ \A part \in Parts \ {field} : scene'[part] = scene[part]
  BY KeepPart DEF ManifestInv, Parts
<1>2. /\ scene'.rules = scene.rules /\ scene'.restarts = scene.restarts
      /\ scene'.truth = scene.truth /\ scene'.samples = scene.samples
      /\ scene'.tick \in Nat
  <2>1. CASE field = "tick"
    BY <1>1, <2>1 DEF Parts
  <2>2. CASE field # "tick"
    BY <1>1, <2>2 DEF Parts, ManifestInv
  <2> QED BY <1>1, <2>1, <2>2 DEF Parts
<1>3. RulesOK' /\ TruthOK' /\ SamplesOK' /\ RestartsOK'
  BY <1>2 DEF ManifestInv, RulesOK, TruthOK, SamplesOK, RestartsOK
<1> QED
  BY <1>1, <1>2, <1>3 DEF ManifestInv

\* and so do the checks at the end of the file.
LEMMA EndKeepsInv ==
  ASSUME ManifestInv, End
  PROVE  ManifestInv'
<1>1. CASE Complete
  <2>1. scene' = [scene EXCEPT !.tick = Tick] /\ window' = window
    BY <1>1 DEF End
  <2>2. /\ DOMAIN scene' = Parts /\ scene'.tick = Tick
        /\ scene'.rules = scene.rules /\ scene'.restarts = scene.restarts
        /\ scene'.truth = scene.truth /\ scene'.samples = scene.samples
    BY <2>1 DEF ManifestInv, Parts
  <2>3. Tick \in Nat /\ Tick > 0
    BY DefaultTickAssumption DEF Tick, ManifestInv
  <2>4. RulesOK' /\ TruthOK' /\ SamplesOK' /\ RestartsOK'
    BY <2>2 DEF ManifestInv, RulesOK, TruthOK, SamplesOK, RestartsOK
  <2>5. CompleteOK'
    BY <1>1, <2>2, <2>3 DEF Complete, CompleteOK
  <2> QED BY <2>1, <2>2, <2>3, <2>4, <2>5 DEF ManifestInv
<1>2. CASE ~Complete
  BY <1>2 DEF End, ManifestInv, RulesOK, TruthOK, SamplesOK, RestartsOK
<1> QED
  BY <1>1, <1>2

\* Every line keeps it, accepted or refused.
LEMMA ReadKeepsInv ==
  ASSUME ManifestInv, NEW l \in Lines, Read(l)
  PROVE  ManifestInv'
<1>1. CASE Version(l)
  BY <1>1 DEF Version, Line, ManifestInv, RulesOK, TruthOK, SamplesOK, RestartsOK
<1>2. CASE Name(l)
  <2>1. PICK field \in {"name", "camera", "split"} : pc = "reading" /\ Keep(field, l.word)
    BY <1>2 DEF Name, Line
  <2> QED BY <2>1, SetPart
<1>3. CASE MatchWindow(l)
  <2>1. pc = "reading" /\ l.kw = "match_window" /\ Tokens(l) /\ Means(l)
    BY <1>3, LineFacts DEF MatchWindow, Keywords
  <2>2. l.after \in Nat /\ Optional(l.before, 0) \in Nat
    BY <2>1, OptionalType DEF Tokens, Means, MatchWindowMeans
  <2>3. window' \in [before : Nat, after : Nat] /\ scene' = scene /\ pc' = "reading"
    BY <1>3, <2>1, <2>2 DEF MatchWindow
  <2> QED BY <2>3 DEF ManifestInv, RulesOK, TruthOK, SamplesOK, RestartsOK
<1>4. CASE TickMs(l)
  <2>1. pc = "reading" /\ l.kw = "tick_ms" /\ Tokens(l) /\ Means(l) /\ Keep("tick", l.ms)
    BY <1>4, LineFacts DEF TickMs, Keywords
  <2>2. l.ms \in Nat
    BY <2>1 DEF Tokens, Means
  <2> QED BY <2>1, <2>2, SetPart
<1>5. CASE Rule(l) \/ Truth(l) \/ Restart(l) \/ Sample(l)
  BY <1>5, RuleKeepsInv, TruthKeepsInv, RestartKeepsInv, SampleKeepsInv
<1>6. CASE Refuse(l)
  BY <1>6 DEF Refuse, ManifestInv, RulesOK, TruthOK, SamplesOK, RestartsOK
<1> QED
  BY <1>1, <1>2, <1>3, <1>4, <1>5, <1>6 DEF Read

\* Every step keeps it.
LEMMA StepManifestInv == ManifestInv /\ [MNext]_mvars => ManifestInv'
<1> SUFFICES ASSUME ManifestInv, [MNext]_mvars PROVE ManifestInv'
  OBVIOUS
<1>1. CASE UNCHANGED mvars
  BY <1>1 DEF mvars, ManifestInv, RulesOK, TruthOK, SamplesOK, RestartsOK, CompleteOK
<1> QED
  BY <1>1, EndKeepsInv, ReadKeepsInv DEF MNext

\* gw_manifest.c:385: whatever the lines and their order, a manifest that is
\* accepted is a scene the replay and the scoring may rely on.
THEOREM AcceptedManifest == MSpec => []AcceptedIsUsable
<1>1. MSpec => []ManifestInv
  BY InitManifestInv, StepManifestInv, PTL DEF MSpec
<1> QED
  BY <1>1, InvIsUsable, PTL
=============================================================================
