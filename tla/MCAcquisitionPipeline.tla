----------------------- MODULE MCAcquisitionPipeline -----------------------
(* Instances of the acquisition pipeline for TLC.                           *)
EXTENDS AcquisitionPipeline, TLC

CONSTANTS a1, a2, h1, h2, h3, t1, t2, w1, w2

(* Every magnet holds the video.                                            *)
AllVideo == [h \in Hashes |-> "video"]

(* The first magnet holds nothing usable, the others the video.             *)
JunkFirst == [h \in Hashes |-> IF h = h1 THEN "junk" ELSE "video"]

(* The first magnet holds another title.                                    *)
WrongFirst == [h \in Hashes |-> IF h = h1 THEN "wrong" ELSE "video"]

(* Every download's folder reads as the first title.                        *)
OneTitle == [h \in Hashes |-> a1]
============================================================================
