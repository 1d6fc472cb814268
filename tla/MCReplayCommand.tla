-------------------------- MODULE MCReplayCommand ---------------------------
(* Command lines of two files out of a few, under several floors.           *)
EXTENDS ReplayCommand, MCGwScore

SceneFile(rules, events, found) ==
  [kind |-> "scene", rules |-> rules, truth |-> events, detections |-> found]
Asked(files, precision, recall) ==
  [files |-> files, min_precision |-> precision, min_recall |-> recall]

Expected(at) == [rule |-> 0, at |-> at, before |-> 0, after |-> 1]
Alarm(r, at) == [rule |-> r, at |-> at]

MCFiles ==
  { [kind |-> "unreadable"], [kind |-> "refused"], [kind |-> "limit"],
    SceneFile(1, <<>>, <<>>), SceneFile(1, <<>>, <<Alarm(0, 1)>>),
    SceneFile(1, <<Expected(0)>>, <<>>), SceneFile(1, <<Expected(0)>>, <<Alarm(0, 0)>>),
    SceneFile(2, <<Expected(0)>>, <<Alarm(0, 0), Alarm(1, 1)>>),
    SceneFile(1, <<Expected(0), Expected(2)>>, <<Alarm(0, 1), Alarm(0, 2)>>),
    SceneFile(2, <<Expected(0), Expected(2)>>, <<Alarm(0, 1)>>) }

MCCommandLines ==
  { Asked(files, precision, recall) :
      files \in Upto(MCFiles, 2), precision \in {NoFloor, 0, 50, 100},
      recall \in {NoFloor, 50, 100} }
=============================================================================
