-------------------------- MODULE FetchModelProofs --------------------------
(***************************************************************************)
(* What fetch-model.sh guarantees for any number of runs, of files and of  *)
(* revisions: what stands at the destination is what verify_dir accepted,  *)
(* and a whole install, once there is one, is never lost.                  *)
(***************************************************************************)
EXTENDS FetchModel, TLAPS

\* The labels at which a run owns a staging directory, and those at which
\* verify_dir has accepted it.
HasStage    == {"fetching", "verifying", "publishing", "setting aside",
                "replacing", "installing"}
HasVerified == {"publishing", "setting aside", "replacing", "installing"}

\* What verify_dir has read of a run's staging directory matches.
Staged(p) ==
  /\ pc[p] \in HasStage => stage[p] \in Dir
  /\ At(p, "verifying") /\ ~bad[p] =>
       \A k \in Index : k < next[p] => stage[p].files[k] = manifest[p][k]
  /\ pc[p] \in HasVerified => stage[p].files = manifest[p]

StageOK == \A p \in Pids : Staged(p)

StageInv == FTypeOK /\ StageOK /\ DestComplete

\* Two sets of files that agree on every name are one.
LEMMA FilesEqual ==
  ASSUME NEW f \in Files, NEW m \in Manifests, \A k \in Index : f[k] = m[k]
  PROVE  f = m
BY ManifestsAssumption DEF Files

\* The next file to look at is one of the manifest's or behind its end.
LEMMA NextBounds ==
  /\ 1 \in 1 .. N + 1
  /\ \A k \in 1 .. N + 1 : k <= N => k + 1 \in 1 .. N + 1 /\ k \in Index
BY NAssumption DEF Index

\* Both names are names.
LEMMA NamesOK == DestName \in Names /\ \A p \in Pids : StageName(p) \in Names
BY DEF Names

\* An empty directory is one.
LEMMA EmptyInDir == Empty \in Dir
BY DEF Empty, Holding, Dir, Files

\* What is not there is no directory.
LEMMA AbsentIsNotDir == \A d \in Dir : IsDir(d)
BY AbsentAssumption DEF IsDir

\* A file written into a directory changes that file alone.
LEMMA PutInDir ==
  ASSUME NEW d \in Dir, NEW k \in Index, NEW c \in Contents
  PROVE  /\ Put(d, k, c) \in Dir
         /\ \A j \in Index : Put(d, k, c).files[j] = IF j = k THEN c ELSE d.files[j]
<1>. DEFINE filled == [d.files EXCEPT ![k] = c]
<1>1. d.files \in Files /\ d.inside \in SUBSET (Names \X Files)
  BY DEF Dir
<1>2. filled \in Files /\ \A j \in Index : filled[j] = IF j = k THEN c ELSE d.files[j]
  BY <1>1 DEF Files
<1>3. Put(d, k, c) = [files |-> filled, inside |-> d.inside]
  BY DEF Put, Dir
<1>. HIDE DEF filled
<1>4. Put(d, k, c) \in Dir
  BY <1>1, <1>2, <1>3 DEF Dir
<1>5. Put(d, k, c).files = filled
  BY <1>3
<1>. QED  BY <1>2, <1>4, <1>5

\* mv -f of a directory onto a directory moves it inside, onto nothing renames it.
LEMMA MovedInDir ==
  ASSUME NEW name \in Names, NEW d \in Dir, NEW path \in Dir \cup {Absent}
  PROVE  /\ Moved(name, d, path) \in Dir
         /\ IsDir(Moved(name, d, path))
         /\ Moved(name, d, path).files = IF IsDir(path) THEN path.files ELSE d.files
<1>1. CASE IsDir(path)
  <2>1. path \in Dir
    BY <1>1 DEF IsDir
  <2>2. Moved(name, d, path) = [path EXCEPT !.inside = @ \cup {<<name, d.files>>}]
    BY <1>1 DEF Moved
  <2>3. Moved(name, d, path) = [files |-> path.files, inside |-> path.inside \cup {<<name, d.files>>}]
    BY <2>1, <2>2 DEF Dir
  <2>4. /\ path.files \in Files
        /\ path.inside \cup {<<name, d.files>>} \in SUBSET (Names \X Files)
    BY <2>1 DEF Dir
  <2>5. Moved(name, d, path) \in Dir
    BY <2>3, <2>4 DEF Dir
  <2>. QED  BY <1>1, <2>3, <2>5, AbsentIsNotDir
<1>2. CASE ~IsDir(path)
  BY <1>2, AbsentIsNotDir DEF Moved
<1>. QED  BY <1>1, <1>2

-----------------------------------------------------------------------------
\* Nothing is staged at the start.
LEMMA InitStage == ASSUME FInit PROVE StageInv
<1>1. \A f \in Found : Holding(f) \in Dir /\ Holding(f).files = f
  BY FoundAssumption DEF Holding, Dir
<1>2. dest \in Dir \cup {Absent} /\ DestComplete
  BY <1>1 DEF FInit, DestComplete, IsDir
<1>3. FTypeOK
  BY <1>2, NAssumption DEF FInit, FTypeOK, Labels, Says, Index
<1>4. StageOK
  BY DEF FInit, StageOK, Staged, At, HasStage, HasVerified
<1>. QED  BY <1>2, <1>3, <1>4 DEF StageInv

\* Every step leaves directories directories.
LEMMA TypeStep == ASSUME FTypeOK, StageOK, FNext PROVE FTypeOK'
<1>. SUFFICES ASSUME NEW p \in Pids, Step(p) PROVE FTypeOK'
  BY DEF FNext
<1>. USE DEF FTypeOK, At, Labels, Says
<1>1. CASE Launch(p)
  <2>1. next' \in [Pids -> 1 .. N + 1]
    BY <1>1, NextBounds DEF Launch
  <2>2. PICK m \in Manifests : manifest' = [manifest EXCEPT ![p] = m]
    BY <1>1 DEF Launch
  <2>3. \/ Exit(p, "failed")
        \/ Goto(p, "checking") /\ UNCHANGED said
        \/ Goto(p, "staging") /\ UNCHANGED said
    BY <1>1 DEF Launch
  <2>4. pc' \in [Pids -> Labels] /\ said' \in [Pids -> Says]
    BY <2>3 DEF Exit, Goto
  <2>5. bad' \in [Pids -> BOOLEAN]
    BY <1>1 DEF Launch
  <2>6. alone' \in [Pids -> BOOLEAN]
    <3>. DEFINE A(q) == q = p /\ \A r \in Pids \ {p} : At(r, "idle")
    <3>1. \A q \in Pids : A(q) \in BOOLEAN
      OBVIOUS
    <3>2. alone' = [q \in Pids |-> A(q)]
      BY <1>1 DEF Launch
    <3>. HIDE DEF A
    <3>. QED  BY <3>1, <3>2
  <2>. QED  BY <1>1, <2>1, <2>2, <2>4, <2>5, <2>6 DEF Launch, fs
<1>2. CASE CheckFile(p)
  <2>1. next' \in [Pids -> 1 .. N + 1]
    BY <1>2, NextBounds DEF CheckFile
  <2>2. bad' \in [Pids -> BOOLEAN]
    BY <1>2 DEF CheckFile, Matches
  <2>. QED  BY <1>2, <2>1, <2>2 DEF CheckFile, fs
<1>3. CASE Checked(p)
  BY <1>3 DEF Checked, Die, Exit, Goto, Trap, fs
<1>4. CASE MakeStage(p)
  BY <1>4, EmptyInDir DEF MakeStage, Goto
<1>5. CASE Fetch(p)
  <2>1. CASE Die(p) /\ UNCHANGED next
    BY <1>5, <2>1 DEF Fetch, Die, Exit, Goto, Trap
  <2>2. CASE ~(Die(p) /\ UNCHANGED next)
    <3>1. PICK c \in Contents :
            /\ stage' = [stage EXCEPT ![p] = Put(@, next[p], c)]
            /\ next' = [next EXCEPT ![p] = @ + 1]
            /\ UNCHANGED <<dest, old, pc, said>>
      BY <1>5, <2>2 DEF Fetch
    <3>2. stage[p] \in Dir /\ next[p] <= N
      BY <1>5 DEF Fetch, StageOK, Staged, HasStage
    <3>3. next[p] \in Index
      BY <3>2, NextBounds
    <3>4. Put(stage[p], next[p], c) \in Dir
      BY <3>2, <3>3, PutInDir
    <3>5. stage' \in [Pids -> Dir \cup {Absent}]
      BY <3>1, <3>4
    <3>6. next[p] + 1 \in 1 .. N + 1
      BY <3>2, NextBounds
    <3>7. next' \in [Pids -> 1 .. N + 1]
      BY <3>1, <3>6
    <3>. QED  BY <1>5, <3>1, <3>5, <3>7 DEF Fetch
  <2>. QED  BY <2>1, <2>2
<1>6. CASE Fetched(p)
  <2>1. next' \in [Pids -> 1 .. N + 1]
    BY <1>6, NextBounds DEF Fetched
  <2>. QED  BY <1>6, <2>1 DEF Fetched, Goto, fs
<1>7. CASE Verified(p)
  BY <1>7 DEF Verified, Die, Exit, Goto, Trap, fs
<1>8. CASE Look(p)
  BY <1>8 DEF Look, Goto, fs
<1>9. CASE SetAside(p)
  <2>1. CASE Movable(DestName, dest, old[p])
    <3>1. dest \in Dir
      BY <2>1 DEF Movable, IsDir
    <3>2. Moved(DestName, dest, old[p]) \in Dir
      BY <3>1, MovedInDir, NamesOK
    <3>. QED  BY <1>9, <2>1, <3>2 DEF SetAside, Goto
  <2>2. CASE ~Movable(DestName, dest, old[p])
    BY <1>9, <2>2 DEF SetAside, Die, Exit, Goto, Trap
  <2>. QED  BY <2>1, <2>2
<1>10. CASE Publish(p)
  <2>1. CASE Movable(StageName(p), stage[p], dest)
    <3>1. stage[p] \in Dir
      BY <2>1 DEF Movable, IsDir
    <3>2. Moved(StageName(p), stage[p], dest) \in Dir
      BY <3>1, MovedInDir, NamesOK
    <3>. QED  BY <1>10, <2>1, <3>2 DEF Publish, Exit, Goto
  <2>2. CASE ~Movable(StageName(p), stage[p], dest)
    BY <1>10, <2>2 DEF Publish, Die, Exit, Goto, Trap
  <2>. QED  BY <2>1, <2>2
<1>11. CASE Clean(p)
  BY <1>11 DEF Clean, Exit, Goto
<1>12. CASE Fail(p)
  BY <1>12 DEF Fail, Die, Exit, Goto, Trap
<1>13. CASE Kill(p)
  BY <1>13 DEF Kill, Exit, Goto, fs
<1>. QED
  BY <1>1, <1>2, <1>3, <1>4, <1>5, <1>6, <1>7, <1>8, <1>9, <1>10, <1>11, <1>12, <1>13
  DEF Step

-----------------------------------------------------------------------------
\* What belongs to a run only that run changes.
LEMMA OtherRuns ==
  ASSUME FTypeOK, NEW p \in Pids, Step(p), NEW q \in Pids, q # p
  PROVE  /\ stage'[q] = stage[q] /\ old'[q] = old[q] /\ pc'[q] = pc[q]
         /\ manifest'[q] = manifest[q] /\ next'[q] = next[q] /\ bad'[q] = bad[q]
<1>. USE DEF FTypeOK
<1>1. CASE Launch(p)
  BY <1>1 DEF Launch, Exit, Goto, fs
<1>2. CASE CheckFile(p) \/ Fetched(p) \/ Look(p)
  BY <1>2 DEF CheckFile, Fetched, Look, Goto, fs
<1>3. CASE Checked(p) \/ Verified(p)
  BY <1>3 DEF Checked, Verified, Die, Exit, Goto, Trap, fs
<1>4. CASE MakeStage(p) \/ Fetch(p)
  BY <1>4 DEF MakeStage, Fetch, Die, Exit, Goto, Trap
<1>5. CASE SetAside(p) \/ Publish(p) \/ Clean(p)
  BY <1>5 DEF SetAside, Publish, Clean, Die, Exit, Goto, Trap
<1>6. CASE Fail(p) \/ Kill(p)
  BY <1>6 DEF Fail, Kill, Die, Exit, Goto, Trap, fs
<1>. QED
  BY <1>1, <1>2, <1>3, <1>4, <1>5, <1>6 DEF Step

\* verify_dir reads one more file of the staging directory.
LEMMA ReadOneMore ==
  ASSUME FTypeOK, NEW p \in Pids, Staged(p), CheckFile(p)
  PROVE  Staged(p)'
<1>. USE DEF CheckFile, fs
<1>1. CASE At(p, "checking")
  BY <1>1 DEF Staged, At, HasStage, HasVerified, FTypeOK
<1>2. CASE At(p, "verifying")
  <2>1. pc' = pc /\ stage' = stage /\ manifest' = manifest
    OBVIOUS
  <2>2. next'[p] = next[p] + 1 /\ next[p] \in Nat
    BY DEF FTypeOK
  <2>3. ~bad'[p] => ~bad[p] /\ Matches(p, stage[p])
    BY <1>2 DEF FTypeOK, At
  <2>4. ASSUME ~bad'[p], NEW k \in Index, k < next'[p]
        PROVE  stage[p].files[k] = manifest[p][k]
    <3>1. CASE k < next[p]
      BY <1>2, <2>3, <2>4, <3>1 DEF Staged
    <3>2. CASE k = next[p]
      BY <2>3, <2>4, <3>2 DEF Matches
    <3>3. k < next[p] \/ k = next[p]
      BY <2>2, <2>4 DEF Index
    <3>. QED  BY <3>1, <3>2, <3>3
  <2>. QED
    BY <1>2, <2>1, <2>4 DEF Staged, At, HasStage, HasVerified
<1>. QED  BY <1>1, <1>2

\* Every step leaves what was checked of a staged directory right.
LEMMA StageStep == ASSUME FTypeOK, StageOK, FNext PROVE StageOK'
<1>. SUFFICES ASSUME NEW p \in Pids, Step(p) PROVE StageOK'
  BY DEF FNext
<1>1. ASSUME NEW q \in Pids, q # p PROVE Staged(q)'
  BY <1>1, OtherRuns DEF StageOK, Staged, At
<1>2. Staged(p)'
  <2>. USE DEF Staged, At, HasStage, HasVerified
  <2>1. Staged(p)
    BY DEF StageOK
  <2>2. ASSUME pc'[p] \in {"idle", "checking", "staging", "cleaning"} PROVE Staged(p)'
    BY <2>2
  <2>3. ASSUME Die(p) PROVE Staged(p)'
    BY <2>2, <2>3 DEF Die, Exit, Goto, FTypeOK
  <2>4. CASE Launch(p) \/ Checked(p) \/ Clean(p) \/ Fail(p) \/ Kill(p)
    <3>1. pc'[p] \in {"idle", "checking", "staging"}
      BY <2>4 DEF Launch, Checked, Clean, Fail, Kill, Die, Exit, Goto, FTypeOK
    <3>. QED  BY <2>2, <3>1
  <2>5. CASE CheckFile(p)
    BY <2>1, <2>5, ReadOneMore
  <2>6. CASE MakeStage(p)
    BY <2>6, EmptyInDir DEF MakeStage, Goto, FTypeOK
  <2>7. CASE Fetch(p)
    <3>1. CASE ~Die(p)
      <4>1. PICK c \in Contents :
              /\ stage' = [stage EXCEPT ![p] = Put(@, next[p], c)]
              /\ pc' = pc
        BY <2>7, <3>1 DEF Fetch
      <4>2. stage[p] \in Dir /\ next[p] \in Index
        BY <2>1, <2>7, NextBounds DEF Fetch, FTypeOK
      <4>3. Put(stage[p], next[p], c) \in Dir
        BY <4>2, PutInDir
      <4>. QED  BY <2>7, <4>1, <4>3 DEF Fetch, FTypeOK
    <3>. QED  BY <2>3, <3>1
  <2>8. CASE Fetched(p)
    <3>1. next'[p] = 1 /\ pc'[p] = "verifying" /\ stage' = stage
      BY <2>8 DEF Fetched, Goto, FTypeOK, fs
    <3>. QED  BY <2>1, <2>8, <3>1 DEF Fetched, Index
  <2>9. CASE Verified(p)
    <3>1. CASE ~bad[p]
      <4>1. stage[p] \in Dir /\ \A k \in Index : stage[p].files[k] = manifest[p][k]
        <5>1. \A k \in Index : k < next[p]
          BY <2>9, NAssumption DEF Verified, FTypeOK, Index
        <5>. QED  BY <2>1, <2>9, <3>1, <5>1 DEF Verified
      <4>2. stage[p].files = manifest[p]
        BY <4>1, FilesEqual DEF Dir, FTypeOK
      <4>. QED  BY <2>9, <3>1, <4>1, <4>2 DEF Verified, Goto, FTypeOK, fs
    <3>. QED  BY <2>3, <2>9, <3>1 DEF Verified
  <2>10. CASE Look(p)
    BY <2>1, <2>10 DEF Look, Goto, FTypeOK, fs
  <2>11. CASE SetAside(p)
    BY <2>1, <2>3, <2>11 DEF SetAside, Goto, FTypeOK
  <2>12. CASE Publish(p)
    <3>1. pc'[p] \in {"idle", "cleaning"}
      BY <2>12 DEF Publish, Die, Exit, Goto, FTypeOK
    <3>. QED  BY <2>2, <3>1
  <2>. QED
    BY <2>4, <2>5, <2>6, <2>7, <2>8, <2>9, <2>10, <2>11, <2>12 DEF Step
<1>. QED  BY <1>1, <1>2 DEF StageOK

\* mv of a verified staging directory is the only command that puts anything
\* at the destination.
LEMMA DestStep ==
  ASSUME FTypeOK, StageOK, NEW p \in Pids, Step(p)
  PROVE  \/ dest' = dest
         \/ SetAside(p) /\ dest' = Absent
         \/ /\ Publish(p) /\ Movable(StageName(p), stage[p], dest)
            /\ dest' = Moved(StageName(p), stage[p], dest)
            /\ stage[p] \in Dir
            /\ stage[p].files \in Manifests
<1>1. CASE Launch(p) \/ CheckFile(p) \/ Checked(p) \/ MakeStage(p) \/ Fetch(p)
  BY <1>1 DEF Launch, CheckFile, Checked, MakeStage, Fetch, Die, Trap, fs
<1>2. CASE Fetched(p) \/ Verified(p) \/ Look(p) \/ Clean(p) \/ Fail(p) \/ Kill(p)
  BY <1>2 DEF Fetched, Verified, Look, Clean, Fail, Kill, Die, Trap, fs
<1>3. CASE SetAside(p)
  BY <1>3 DEF SetAside, Die, Trap
<1>4. CASE Publish(p)
  <2>1. CASE Movable(StageName(p), stage[p], dest)
    <3>1. stage[p] \in Dir /\ stage[p].files = manifest[p]
      BY <1>4 DEF Publish, StageOK, Staged, At, HasStage, HasVerified
    <3>. QED  BY <1>4, <2>1, <3>1 DEF Publish, FTypeOK
  <2>. QED  BY <1>4, <2>1 DEF Publish, Die, Trap
<1>. QED  BY <1>1, <1>2, <1>3, <1>4 DEF Step

\* Every step leaves the destination complete or absent.
LEMMA CompleteStep == ASSUME StageInv, FNext PROVE DestComplete'
<1>. USE DEF StageInv
<1>1. PICK p \in Pids : Step(p)
  BY DEF FNext
<1>2. CASE dest' = dest
  BY <1>2 DEF DestComplete, IsDir, Whole
<1>3. CASE dest' = Absent
  BY <1>3 DEF DestComplete, IsDir
<1>4. CASE /\ dest' = Moved(StageName(p), stage[p], dest)
           /\ stage[p] \in Dir
           /\ stage[p].files \in Manifests
  <2>1. dest'.files = IF IsDir(dest) THEN dest.files ELSE stage[p].files
    BY <1>4, MovedInDir, NamesOK DEF FTypeOK
  <2>. QED  BY <1>4, <2>1 DEF DestComplete, Whole
<1>. QED  BY <1>1, <1>2, <1>3, <1>4, DestStep

\* fetch-model.sh:18: what stands under the final path is what the user had
\* there, or matches one manifest in every file, at every instant of any number
\* of runs at once, whichever of them fail or are killed.
THEOREM Complete == FSpec => []DestComplete
<1>1. FInit => StageInv
  BY InitStage
<1>2. StageInv /\ [FNext]_fvars => StageInv'
  <2>1. CASE FNext
    BY <2>1, TypeStep, StageStep, CompleteStep DEF StageInv
  <2>2. CASE UNCHANGED fvars
    BY <2>2 DEF StageInv, FTypeOK, StageOK, Staged, At, DestComplete, IsDir, Whole, fvars, fs
  <2>. QED  BY <2>1, <2>2
<1>3. StageInv => DestComplete
  BY DEF StageInv
<1>. QED  BY <1>1, <1>2, <1>3, PTL DEF FSpec

-----------------------------------------------------------------------------
\* A run that looked and saw nothing, or set aside what it saw, can only find
\* a verified install in its way; and a run about to delete what it set aside
\* is not deleting the last whole install.
Late == {"replacing", "installing", "cleaning"}

WholeDest == IsDir(dest) /\ Whole(dest.files)

LateInv ==
  (\E p \in Pids : pc[p] \in Late) /\ IsDir(dest) => Whole(dest.files)

CleanInv ==
  (\E p \in Pids : At(p, "cleaning")) =>
    \/ WholeDest
    \/ \E q \in Pids : ~At(q, "cleaning") /\ Kept(old[q])

KeepInv == StageInv /\ LateInv /\ CleanInv

\* A whole directory is kept where it is moved to.
LEMMA KeptMoved ==
  ASSUME NEW name \in Names, NEW d \in Dir, NEW path \in Dir \cup {Absent},
         Whole(d.files) \/ Kept(path)
  PROVE  Kept(Moved(name, d, path))
<1>1. CASE ~IsDir(path)
  BY <1>1, AbsentIsNotDir DEF Moved, Kept
<1>2. CASE IsDir(path)
  <2>1. path \in Dir
    BY <1>2 DEF IsDir
  <2>2. /\ Moved(name, d, path).files = path.files
        /\ Moved(name, d, path).inside = path.inside \cup {<<name, d.files>>}
    BY <1>2, <2>1 DEF Moved, Dir
  <2>3. IsDir(Moved(name, d, path))
    BY MovedInDir
  <2>4. CASE Whole(d.files)
    <3>1. <<name, d.files>> \in Moved(name, d, path).inside /\ Whole(<<name, d.files>>[2])
      BY <2>2, <2>4
    <3>. QED  BY <2>3, <3>1 DEF Kept
  <2>5. CASE Kept(path)
    BY <2>2, <2>3, <2>5 DEF Kept
  <2>. QED  BY <2>4, <2>5
<1>. QED  BY <1>1, <1>2

\* What a step does to what an installer had set aside.
LEMMA OldStep ==
  ASSUME FTypeOK, NEW p \in Pids, Step(p)
  PROVE  \/ old' = old /\ ~(SetAside(p) /\ Movable(DestName, dest, old[p]))
         \/ /\ SetAside(p) /\ Movable(DestName, dest, old[p])
            /\ dest \in Dir
            /\ old' = [old EXCEPT ![p] = Moved(DestName, dest, @)]
         \/ Clean(p) /\ dest' = dest
<1>1. CASE Launch(p) \/ CheckFile(p) \/ Checked(p) \/ MakeStage(p) \/ Fetch(p)
  BY <1>1 DEF Launch, CheckFile, Checked, MakeStage, Fetch, Die, Trap, fs, SetAside, At
<1>2. CASE Fetched(p) \/ Verified(p) \/ Look(p) \/ Publish(p)
  BY <1>2 DEF Fetched, Verified, Look, Publish, Die, Trap, fs, SetAside, At
<1>3. CASE Clean(p)
  BY <1>3 DEF Clean
<1>4. CASE SetAside(p)
  BY <1>4 DEF SetAside, Die, Trap, Movable, IsDir, FTypeOK
<1>5. CASE Fail(p) \/ Kill(p)
  BY <1>5 DEF Fail, Kill, Die, Exit, Goto, Trap, fs, SetAside, At, FTypeOK
<1>. QED  BY <1>1, <1>2, <1>3, <1>4, <1>5 DEF Step

\* Which label a run can reach one of the late ones from.
LEMMA LateLabels ==
  ASSUME FTypeOK, NEW p \in Pids, Step(p)
  PROVE  /\ pc'[p] = "installing" => Look(p) /\ ~IsDir(dest) /\ dest' = dest
         /\ pc'[p] = "replacing" => SetAside(p) /\ dest' = Absent
         /\ pc'[p] = "cleaning" => Publish(p) /\ Movable(StageName(p), stage[p], dest)
<1>. USE DEF FTypeOK
<1>1. CASE Launch(p) \/ CheckFile(p) \/ Checked(p) \/ MakeStage(p)
  BY <1>1 DEF Launch, CheckFile, Checked, MakeStage, Die, Exit, Goto, At
<1>2. CASE Fetch(p) \/ Fetched(p) \/ Verified(p) \/ Look(p)
  BY <1>2 DEF Fetch, Fetched, Verified, Look, Die, Exit, Goto, At, fs
<1>3. CASE SetAside(p) \/ Publish(p) \/ Clean(p)
  BY <1>3 DEF SetAside, Publish, Clean, Die, Exit, Goto, At
<1>4. CASE Fail(p) \/ Kill(p)
  BY <1>4 DEF Fail, Kill, Die, Exit, Goto, At
<1>. QED  BY <1>1, <1>2, <1>3, <1>4 DEF Step

\* What a successful publication leaves at the destination is whole.
LEMMA PublishWhole ==
  ASSUME KeepInv, NEW p \in Pids, Publish(p), Movable(StageName(p), stage[p], dest)
  PROVE  WholeDest'
<1>. USE DEF KeepInv, StageInv
<1>1. /\ dest' = Moved(StageName(p), stage[p], dest)
      /\ stage[p] \in Dir
      /\ stage[p].files \in Manifests
  BY DEF Publish, StageOK, Staged, At, HasStage, HasVerified, FTypeOK
<1>2. IsDir(dest) => Whole(dest.files)
  BY DEF Publish, LateInv, Late, At
<1>. QED  BY <1>1, <1>2, MovedInDir, NamesOK DEF WholeDest, IsDir, Whole, FTypeOK

\* Every step leaves an installer past its check with a whole directory.
LEMMA LateStep == ASSUME KeepInv, FNext PROVE LateInv'
<1>. USE DEF KeepInv, StageInv
<1>1. PICK p \in Pids : Step(p)
  BY DEF FNext
<1>2. SUFFICES ASSUME IsDir(dest)', NEW q \in Pids, pc'[q] \in Late PROVE Whole(dest.files)'
  BY DEF LateInv
<1>3. CASE dest' = Absent
  BY <1>2, <1>3 DEF IsDir
<1>4. CASE Publish(p) /\ Movable(StageName(p), stage[p], dest)
  BY <1>4, PublishWhole DEF WholeDest
<1>5. CASE dest' = dest /\ ~(Publish(p) /\ Movable(StageName(p), stage[p], dest))
  <2>1. pc[q] \in Late
    <3>1. CASE q # p
      BY <1>1, <1>2, <3>1, OtherRuns
    <3>2. CASE q = p
      BY <1>1, <1>2, <1>5, <3>2, LateLabels DEF IsDir, Late
    <3>. QED  BY <3>1, <3>2
  <2>2. Whole(dest.files)
    BY <1>2, <1>5, <2>1 DEF LateInv, IsDir
  <2>. QED  BY <1>5, <2>2 DEF Whole
<1>. QED  BY <1>1, <1>3, <1>4, <1>5, DestStep

\* Nothing is cleaned up that is the last whole directory.
LEMMA CleanStep == ASSUME KeepInv, FNext PROVE CleanInv'
<1>. USE DEF KeepInv, StageInv
<1>1. PICK p \in Pids : Step(p)
  BY DEF FNext
<1>2. SUFFICES ASSUME NEW r \in Pids, At(r, "cleaning")'
               PROVE  WholeDest' \/ \E q \in Pids : ~At(q, "cleaning")' /\ Kept(old[q])'
  BY DEF CleanInv
<1>3. CASE Publish(p) /\ Movable(StageName(p), stage[p], dest)
  BY <1>3, PublishWhole
<1>4. CASE ~(Publish(p) /\ Movable(StageName(p), stage[p], dest))
  <2>1. pc'[p] # "cleaning"
    BY <1>1, <1>4, LateLabels
  <2>2. At(r, "cleaning")
    BY <1>1, <1>2, <2>1, OtherRuns DEF At
  <2>3. CASE WholeDest
    <3>1. CASE dest' = dest
      BY <2>3, <3>1 DEF WholeDest, IsDir, Whole
    <3>2. CASE dest' # dest
      <4>1. SetAside(p) /\ dest' = Absent
        BY <1>1, <1>4, <3>2, DestStep
      <4>2. Movable(DestName, dest, old[p])
        BY <2>3, <3>2, <4>1 DEF SetAside, Die, Trap
      <4>3. Kept(Moved(DestName, dest, old[p]))
        BY <2>3, KeptMoved, NamesOK DEF WholeDest, IsDir, FTypeOK
      <4>4. old'[p] = Moved(DestName, dest, old[p])
        BY <4>1, <4>2 DEF SetAside, FTypeOK
      <4>. QED  BY <2>1, <4>3, <4>4 DEF Kept, IsDir, Whole, At
    <3>. QED  BY <3>1, <3>2
  <2>4. CASE \E q \in Pids : ~At(q, "cleaning") /\ Kept(old[q])
    <3>1. PICK q \in Pids : ~At(q, "cleaning") /\ Kept(old[q])
      BY <2>4
    <3>2. pc'[q] # "cleaning"
      BY <1>1, <2>1, <3>1, OtherRuns DEF At
    <3>3. Kept(old'[q])
      <4>1. CASE old'[q] = old[q]
        BY <3>1, <4>1
      <4>2. CASE q = p /\ Clean(p)
        BY <3>1, <4>2 DEF Clean
      <4>3. CASE q = p /\ dest \in Dir /\ old' = [old EXCEPT ![p] = Moved(DestName, dest, @)]
        BY <3>1, <4>3, KeptMoved, NamesOK DEF FTypeOK
      <4>. QED  BY <1>1, <4>1, <4>2, <4>3, OldStep, OtherRuns
    <3>. QED  BY <3>2, <3>3 DEF Kept, IsDir, Whole, At
  <2>. QED  BY <2>2, <2>3, <2>4 DEF CleanInv
<1>. QED  BY <1>3, <1>4

\* Every step leaves a whole directory somewhere, once there was one.
LEMMA KeepStep == ASSUME KeepInv, FNext, SomeKept PROVE SomeKept'
<1>. USE DEF KeepInv, StageInv
<1>1. PICK p \in Pids : Step(p)
  BY DEF FNext
<1>2. CASE Publish(p) /\ Movable(StageName(p), stage[p], dest)
  BY <1>2, PublishWhole DEF SomeKept, WholeDest
<1>3. CASE SetAside(p) /\ Movable(DestName, dest, old[p])
  <2>1. dest \in Dir /\ old' = [old EXCEPT ![p] = Moved(DestName, dest, @)]
    BY <1>3 DEF SetAside, Movable, IsDir, FTypeOK
  <2>2. PICK q \in Pids : (q = p /\ Whole(dest.files)) \/ Kept(old[q])
    BY DEF SomeKept
  <2>3. CASE q = p
    <3>1. Kept(old'[p])
      BY <2>1, <2>2, <2>3, KeptMoved, NamesOK DEF FTypeOK
    <3>. QED  BY <3>1 DEF SomeKept, Kept, IsDir, Whole
  <2>4. CASE q # p
    <3>1. Kept(old'[q])
      BY <2>1, <2>2, <2>4 DEF FTypeOK
    <3>. QED  BY <3>1 DEF SomeKept, Kept, IsDir, Whole
  <2>. QED  BY <2>3, <2>4
<1>4. CASE Clean(p)
  <2>1. dest' = dest /\ \A q \in Pids : q # p => old'[q] = old[q]
    BY <1>4 DEF Clean, FTypeOK
  <2>2. WholeDest \/ \E q \in Pids : q # p /\ Kept(old[q])
    BY <1>4 DEF CleanInv, Clean, At
  <2>3. WholeDest' \/ \E q \in Pids : Kept(old'[q])
    BY <2>1, <2>2 DEF WholeDest, IsDir, Whole
  <2>. QED  BY <2>3 DEF SomeKept, WholeDest, Kept, IsDir, Whole
<1>5. CASE dest' = dest /\ old' = old
  BY <1>5 DEF SomeKept, Kept, IsDir, Whole
<1>. QED
  <2>1. \/ dest' = dest
        \/ SetAside(p) /\ dest' = Absent
        \/ Publish(p) /\ Movable(StageName(p), stage[p], dest)
    BY <1>1, DestStep
  <2>2. \/ old' = old
        \/ SetAside(p) /\ Movable(DestName, dest, old[p])
        \/ Clean(p)
    BY <1>1, OldStep
  <2>3. SetAside(p) /\ ~Movable(DestName, dest, old[p]) => dest' = dest /\ old' = old
    BY DEF SetAside, Die, Trap
  <2>. QED  BY <1>2, <1>3, <1>4, <1>5, <2>1, <2>2, <2>3

\* README.md:60: a whole install is never lost, however many runs of the script
\* replace it at once and wherever they fail or are killed.
THEOREM NeverLost == FSpec => NothingLost
<1>1. FInit => KeepInv
  <2>1. FInit => LateInv /\ CleanInv
    BY DEF FInit, LateInv, CleanInv, Late, At
  <2>. QED  BY <2>1, InitStage DEF KeepInv
<1>2. KeepInv /\ [FNext]_fvars => KeepInv'
  <2>1. CASE FNext
    BY <2>1, TypeStep, StageStep, CompleteStep, LateStep, CleanStep DEF KeepInv, StageInv
  <2>2. CASE UNCHANGED fvars
    BY <2>2 DEF KeepInv, StageInv, FTypeOK, StageOK, Staged, At, DestComplete, LateInv,
                CleanInv, WholeDest, Kept, IsDir, Whole, fvars, fs
  <2>. QED  BY <2>1, <2>2
<1>3. KeepInv /\ [FNext]_fvars => [SomeKept => SomeKept']_fvars
  BY KeepStep
<1>. QED  BY <1>1, <1>2, <1>3, PTL DEF FSpec, NothingLost

-----------------------------------------------------------------------------
\* What a run that has been alone from its first command knows: no other run is
\* under way; the install it reads is there and has matched so far; the place
\* it saw empty, or emptied, is empty; and what it published is its manifest.
Undisturbed(p) ==
  /\ \A q \in Pids \ {p} : At(q, "idle")
  /\ At(p, "checking") =>
       /\ IsDir(dest)
       /\ ~bad[p] => \A k \in Index : k < next[p] => dest.files[k] = manifest[p][k]
  /\ pc[p] \in {"replacing", "installing"} => ~IsDir(dest)
  /\ At(p, "cleaning") => IsDir(dest) /\ dest.files = manifest[p]

AloneInv == \A p \in Pids : alone[p] /\ ~At(p, "idle") => Undisturbed(p)

\* Only the start of a run changes who is alone, and it leaves nobody else so.
LEMMA AloneStep ==
  ASSUME FTypeOK, NEW p \in Pids, Step(p)
  PROVE  \/ At(p, "idle") /\ Launch(p) /\ \A q \in Pids : alone'[q] => q = p
         \/ ~At(p, "idle") /\ alone' = alone
<1>1. CASE Launch(p)
  BY <1>1 DEF Launch
<1>2. CASE CheckFile(p) \/ Checked(p) \/ MakeStage(p) \/ Fetch(p) \/ Fetched(p)
  BY <1>2 DEF CheckFile, Checked, MakeStage, Fetch, Fetched, At
<1>3. CASE Verified(p) \/ Look(p) \/ SetAside(p) \/ Publish(p) \/ Clean(p)
  BY <1>3 DEF Verified, Look, SetAside, Publish, Clean, At
<1>4. CASE Fail(p) \/ Kill(p)
  BY <1>4 DEF Fail, Kill
<1>. QED  BY <1>1, <1>2, <1>3, <1>4 DEF Step

\* A run that starts alone finds every other one idle.
LEMMA UndisturbedStart ==
  ASSUME FTypeOK, NEW p \in Pids, Launch(p), alone'[p], ~At(p, "idle")'
  PROVE  Undisturbed(p)'
<1>. USE DEF FTypeOK, At
<1>1. \A q \in Pids \ {p} : At(q, "idle")
  BY DEF Launch
<1>2. \A q \in Pids \ {p} : At(q, "idle")'
  BY <1>1, OtherRuns DEF Step
<1>3. next'[p] = 1 /\ dest' = dest
  BY DEF Launch, fs
<1>4. pc'[p] \in {"checking", "staging"}
  BY DEF Launch, Exit, Goto
<1>5. pc'[p] = "checking" => IsDir(dest)
  BY DEF Launch, Exit, Goto
<1>6. \A k \in Index : ~(k < 1)
  BY NAssumption DEF Index
<1>. QED  BY <1>2, <1>3, <1>4, <1>5, <1>6 DEF Undisturbed, IsDir

\* A file checked by an installer that nobody disturbs leaves it undisturbed.
LEMMA UndisturbedRead ==
  ASSUME FTypeOK, NEW p \in Pids, Undisturbed(p), CheckFile(p)
  PROVE  Undisturbed(p)'
<1>. USE DEF CheckFile, fs
<1>1. pc' = pc /\ dest' = dest /\ manifest' = manifest
  OBVIOUS
<1>2. CASE At(p, "checking")
  <2>1. next'[p] = next[p] + 1 /\ next[p] \in Nat
    BY DEF FTypeOK
  <2>2. ~bad'[p] => ~bad[p] /\ Matches(p, dest)
    BY <1>2 DEF FTypeOK, At
  <2>3. ASSUME ~bad'[p], NEW k \in Index, k < next'[p]
        PROVE  dest.files[k] = manifest[p][k]
    <3>1. CASE k < next[p]
      BY <1>2, <2>2, <2>3, <3>1 DEF Undisturbed
    <3>2. CASE k = next[p]
      BY <2>2, <2>3, <3>2 DEF Matches
    <3>3. k < next[p] \/ k = next[p]
      BY <2>1, <2>3 DEF Index
    <3>. QED  BY <3>1, <3>2, <3>3
  <2>. QED  BY <1>1, <1>2, <2>3 DEF Undisturbed, At, IsDir
<1>3. CASE At(p, "verifying")
  BY <1>1, <1>3 DEF Undisturbed, At, IsDir
<1>. QED  BY <1>2, <1>3

\* What an undisturbed run publishes lands in an empty place, and is what its
\* manifest pins.
LEMMA UndisturbedPublish ==
  ASSUME FTypeOK, StageOK, NEW p \in Pids, Undisturbed(p), Publish(p),
         Movable(StageName(p), stage[p], dest)
  PROVE  IsDir(dest') /\ dest'.files = manifest[p] /\ manifest' = manifest
<1>1. ~IsDir(dest)
  BY DEF Publish, Undisturbed, At
<1>2. stage[p] \in Dir /\ stage[p].files = manifest[p]
  BY DEF Publish, StageOK, Staged, At, HasStage, HasVerified
<1>3. dest' = stage[p] /\ manifest' = manifest
  BY <1>1 DEF Publish, Moved
<1>. QED  BY <1>2, <1>3, AbsentIsNotDir

\* Every step of an installer that runs alone leaves what it believes true.
LEMMA AloneInvStep == ASSUME FTypeOK, StageOK, AloneInv, FNext PROVE AloneInv'
<1>1. PICK p \in Pids : Step(p)
  BY DEF FNext
<1>2. SUFFICES ASSUME NEW q \in Pids, alone'[q], ~At(q, "idle")' PROVE Undisturbed(q)'
  BY DEF AloneInv
<1>3. CASE q # p
  <2>1. ~At(q, "idle")
    BY <1>1, <1>2, <1>3, OtherRuns DEF At
  <2>2. ~At(p, "idle") /\ alone[q]
    BY <1>1, <1>2, <1>3, AloneStep
  <2>. QED  BY <1>3, <2>1, <2>2 DEF AloneInv, Undisturbed
<1>4. CASE q = p /\ Launch(p)
  BY <1>2, <1>4, UndisturbedStart
<1>5. CASE q = p /\ ~Launch(p)
  <2>1. ~At(p, "idle") /\ alone[p]
    BY <1>1, <1>2, <1>5, AloneStep
  <2>2. Undisturbed(p)
    BY <2>1 DEF AloneInv
  <2>3. \A r \in Pids \ {p} : At(r, "idle")'
    BY <1>1, <2>2, OtherRuns DEF Undisturbed, At
  <2>4. CASE CheckFile(p)
    BY <1>5, <2>2, <2>4, UndisturbedRead
  <2>5. CASE pc'[p] \in {"fetching", "verifying", "publishing", "setting aside"}
    BY <1>5, <2>3, <2>5 DEF Undisturbed, At
  <2>6. CASE pc'[p] \in {"installing", "replacing", "cleaning"}
    <3>1. pc'[p] = "installing" => ~IsDir(dest)'
      BY <1>1, LateLabels DEF IsDir
    <3>2. pc'[p] = "replacing" => ~IsDir(dest)'
      BY <1>1, LateLabels DEF IsDir
    <3>3. pc'[p] = "cleaning" => IsDir(dest)' /\ dest'.files = manifest'[p]
      BY <1>1, <2>2, LateLabels, UndisturbedPublish DEF IsDir
    <3>. QED  BY <1>5, <2>3, <2>6, <3>1, <3>2, <3>3 DEF Undisturbed, At
  <2>7. \/ CheckFile(p)
        \/ pc'[p] \in {"idle", "fetching", "verifying", "publishing", "setting aside",
                       "installing", "replacing", "cleaning"}
    <3>. USE DEF FTypeOK, Die, Exit, Goto
    <3>1. CASE Checked(p) \/ MakeStage(p) \/ Fetched(p) \/ Verified(p) \/ Look(p)
      BY <3>1 DEF Checked, MakeStage, Fetched, Verified, Look
    <3>2. CASE Fetch(p)
      BY <3>2 DEF Fetch, At
    <3>3. CASE SetAside(p) \/ Publish(p) \/ Clean(p) \/ Fail(p) \/ Kill(p)
      BY <3>3 DEF SetAside, Publish, Clean, Fail, Kill
    <3>. QED  BY <1>1, <1>5, <3>1, <3>2, <3>3 DEF Step
  <2>. QED  BY <1>2, <1>5, <2>4, <2>5, <2>6, <2>7 DEF At
<1>. QED  BY <1>3, <1>4, <1>5

\* The word a run leaves with.
LEMMA TrueStep ==
  ASSUME FTypeOK, StageOK, AloneInv, NEW p \in Pids, FNext,
         ~At(p, "idle"), pc'[p] = "idle", said'[p] \in {"installed", "verified"}, alone[p]
  PROVE  IsDir(dest') /\ dest'.files = manifest[p]
<1>1. Step(p)
  BY OtherRuns DEF FNext, At
<1>2. Undisturbed(p)
  BY DEF AloneInv
<1>3. ~Die(p)
  BY DEF Die, Exit, FTypeOK
<1>4. CASE Checked(p)
  <2>1. At(p, "checking") /\ ~bad[p] /\ dest' = dest
    BY <1>3, <1>4 DEF Checked, fs
  <2>2. \A k \in Index : k < next[p]
    BY <1>4, NAssumption DEF Checked, FTypeOK, Index
  <2>3. IsDir(dest) /\ \A k \in Index : dest.files[k] = manifest[p][k]
    BY <1>2, <2>1, <2>2 DEF Undisturbed
  <2>4. dest.files = manifest[p]
    BY <2>3, FilesEqual DEF Dir, FTypeOK, IsDir
  <2>. QED  BY <2>1, <2>3, <2>4
<1>5. CASE Publish(p)
  BY <1>2, <1>3, <1>5, UndisturbedPublish DEF Publish
<1>6. CASE Clean(p)
  BY <1>2, <1>6 DEF Clean, Undisturbed
<1>7. CASE Launch(p) \/ CheckFile(p) \/ MakeStage(p) \/ Fetch(p) \/ Fetched(p)
  BY <1>3, <1>7 DEF Launch, CheckFile, MakeStage, Fetch, Fetched, Goto, At, FTypeOK
<1>8. CASE Verified(p) \/ Look(p) \/ SetAside(p) \/ Fail(p) \/ Kill(p)
  BY <1>3, <1>8 DEF Verified, Look, SetAside, Fail, Kill, Exit, Goto, At, FTypeOK
<1>. QED  BY <1>1, <1>4, <1>5, <1>6, <1>7, <1>8 DEF Step

\* A run that nobody disturbed tells the truth: when it says installed or
\* verified, every file at the destination is the one its manifest pins,
\* whatever the runs before it left behind.
THEOREM AloneTellsTheTruth == FSpec => TrueWhenAlone
<1>1. FInit => StageInv /\ AloneInv
  BY InitStage DEF FInit, AloneInv
<1>2. StageInv /\ AloneInv /\ [FNext]_fvars => (StageInv /\ AloneInv)'
  <2>1. CASE FNext
    BY <2>1, TypeStep, StageStep, CompleteStep, AloneInvStep DEF StageInv
  <2>2. CASE UNCHANGED fvars
    BY <2>2 DEF StageInv, FTypeOK, StageOK, Staged, At, DestComplete, IsDir, Whole,
                AloneInv, Undisturbed, fvars, fs
  <2>. QED  BY <2>1, <2>2
<1>3. StageInv /\ AloneInv /\ [FNext]_fvars
        => [ \A p \in Pids :
               /\ ~At(p, "idle") /\ pc'[p] = "idle"
               /\ said'[p] \in {"installed", "verified"}
               /\ alone[p]
               => IsDir(dest') /\ dest'.files = manifest[p] ]_fvars
  BY TrueStep DEF StageInv
<1>. QED  BY <1>1, <1>2, <1>3, PTL DEF FSpec, TrueWhenAlone
=============================================================================
