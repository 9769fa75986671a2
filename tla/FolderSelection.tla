---------------------------- MODULE FolderSelection ----------------------------
(***************************************************************************)
(* Which of a folder's videos ArchivePipeline files, in which order, and   *)
(* under which AVID.  What it does not select is deleted with the folder.  *)
(* A video's name is the title followed by an index or a letter, a quality *)
(* tag and perhaps " (1)"; its size stands for its content as well.        *)
(***************************************************************************)
EXTENDS Integers, FiniteSets, Sequences

CONSTANTS
    Names,          \* records: index, letter, tag, copy
    Sizes,          \* sizes above the threshold
    MaxVideos,
    Dashed          \* letters are written -A; otherwise a

Tags == {"none", "4k", "2160p", "1080p"}
HighResolution == {"4k", "2160p"}
Phone == 5

ASSUME SelectionAssumption ==
    /\ Names \subseteq [index : 0..9, letter : 0..3, tag : Tags, copy : BOOLEAN]
    /\ Sizes \subseteq Nat /\ MaxVideos \in Nat /\ Dashed \in BOOLEAN

\* What an AVID reads as: the title's, the same with a zero more, another's.
Readings == {"own", "padded", "other", "unread"}

VARIABLES
    folder,     \* the videos, the AVIDs their names and the folder's name read as, what was expected
    verdict     \* what is filed: outcome, avid, videos

selectionVars == <<folder, verdict>>

Unjudged == [outcome |-> "none", avid |-> "unread", videos |-> <<>>]
Attention == [outcome |-> "needs_attention", avid |-> "unread", videos |-> <<>>]

\* One file has one name, and a folder has at most MaxVideos of them.
NameSets == {{}} \cup {{f[k] : k \in 1..MaxVideos} : f \in [1..MaxVideos -> Names]}
Contents == UNION {[N -> Sizes] : N \in NameSets}
Videos(content) == {[index |-> n.index, letter |-> n.letter, tag |-> n.tag, copy |-> n.copy, size |-> content[n]] : n \in DOMAIN content}

SelectionInit ==
    /\ \E content \in Contents, avids \in (SUBSET Readings) \ {{}}, name \in Readings \ {"padded"}, wanted \in {"own", "unread"} :
          /\ Cardinality(DOMAIN content) = 2 \/ (avids = {"own"} /\ name = "own" /\ wanted = "own")
          /\ folder = [videos |-> Videos(content), avids |-> avids, name |-> name, wanted |-> wanted]
    /\ verdict = Unjudged

Base(v) == <<v.index, v.letter>>
High(v) == v.tag \in HighResolution

\* sorted(..., key=name) among names of one shape: "-1.mp4" and "-A.mp4" come
\* before ".mp4".
OrLast(n, none) == IF n = 0 THEN none ELSE n
NameRank(v) == 100 * OrLast(v.index, 10) + 10 * OrLast(v.letter, 4) + (IF v.tag = "2160p" THEN 1 ELSE 0)
PlaceIn(v, S) == Cardinality({w \in S : NameRank(w) <= NameRank(v)})
ByName(S) == [k \in 1..Cardinality(S) |-> CHOOSE v \in S : PlaceIn(v, S) = k]

-----------------------------------------------------------------------------
\* _drop_duplicate_copies: "name (1)" of the size of "name".
Originals(S) == {v \in S : ~(v.copy /\ \E w \in S : ~w.copy /\ [w EXCEPT !.copy = TRUE] = v)}

\* _avids_are_padding_equivalent, with the title's own.
Equivalent(a) == a \in {"own", "padded"}

\* _identify_avid; unread stands for a folder that needs attention.
Identify(avids, name, wanted) ==
    LET avid == IF avids = {"unread"} THEN name ELSE CHOOSE a \in avids : TRUE
    IN  IF Cardinality(avids) > 1
        THEN IF wanted = "own" /\ \A a \in avids : Equivalent(a) THEN "own" ELSE "unread"
        ELSE IF wanted = "own" THEN IF Equivalent(avid) THEN "own" ELSE "unread"
        ELSE avid

\* multi_part_video_check: the names differ in their digits only, or in "-A".
TagLetters(t) == IF t \in {"1080p", "2160p"} THEN "p" ELSE t
MultiPart(S) ==
    /\ Cardinality(S) >= 2
    /\ \/ \A v, w \in S : /\ (v.index = 0) = (w.index = 0) /\ v.letter = w.letter
                          /\ TagLetters(v.tag) = TagLetters(w.tag) /\ v.copy = w.copy
       \/ Dashed /\ \A v, w \in S : v.index = w.index /\ v.tag = w.tag /\ v.copy = w.copy

\* Mutant: of several cuts the larger is kept.
CollapseBySize(S) == [told |-> TRUE, kept |-> {v \in S : \A w \in S : Base(w) = Base(v) => w.size <= v.size}]

\* _collapse_resolution_variants: told when every cut but one is the lesser.
Collapse(S) ==
    LET Cuts(v) == {w \in S : Base(w) = Base(v) /\ w.copy = v.copy}
    IN  [told |-> \A v \in S : Cardinality(Cuts(v)) > 1 => Cardinality({w \in Cuts(v) : High(w)}) = 1,
         kept |-> {v \in S : Cuts(v) = {v} \/ High(v)}]

\* _indexed_run, _unindexed_first and _letter_run: the number each gives a video.
Indexed(S) == [v \in S |-> v.index]
LeadFirst(S) == [v \in S |-> IF v.index = 0 THEN 1 ELSE v.index]
Lettered(S) == [v \in S |-> v.letter]
RunOf(number) == {number[v] : v \in DOMAIN number} = 1..Cardinality(DOMAIN number)
Sorted(number) == [k \in 1..Cardinality(DOMAIN number) |-> CHOOSE v \in DOMAIN number : number[v] = k]
Plain(S) == \A v \in S : v.letter = 0 /\ ~v.copy

OrderAsParts(S) ==
    IF Plain(S) /\ RunOf(Indexed(S)) THEN Sorted(Indexed(S))
    ELSE IF Plain(S) /\ RunOf(LeadFirst(S)) /\ \E v \in S : v.index = 0 THEN Sorted(LeadFirst(S))
    ELSE IF (\A v \in S : v.index = 0 /\ v.letter > 0 /\ ~v.copy) /\ RunOf(Lettered(S)) THEN Sorted(Lettered(S))
    ELSE <<>>

\* _drop_phone_rips: the rest are "-5" and at most half the main video's size.
Mains(S) == {v \in S : \A w \in S \ {v} : w.index = Phone /\ w.letter = 0 /\ ~w.copy /\ 2 * w.size <= v.size}

\* _arrange_videos; nothing when the folder is not understood.
Arrange(S) ==
    LET cuts == Collapse(S)
    IN  IF Cardinality(S) = 1 \/ MultiPart(S) THEN ByName(S)
        ELSE IF ~cuts.told THEN <<>>
        ELSE IF Cardinality(cuts.kept) = 1 THEN ByName(cuts.kept)
        ELSE IF OrderAsParts(cuts.kept) # <<>> THEN OrderAsParts(cuts.kept)
        ELSE IF Mains(cuts.kept) # {} THEN <<CHOOSE v \in Mains(cuts.kept) : TRUE>>
        ELSE <<>>

Judge ==
    /\ verdict = Unjudged
    /\ LET S == Originals(folder.videos)
           avid == Identify(folder.avids, folder.name, folder.wanted)
           videos == Arrange(S)
       IN  verdict' = IF S = {} THEN [Attention EXCEPT !.outcome = "junk"]
                      ELSE IF avid = "unread" THEN Attention
                      ELSE IF videos = <<>> THEN [Attention EXCEPT !.avid = avid]
                      ELSE [outcome |-> "selected", avid |-> avid, videos |-> videos]
    /\ UNCHANGED folder

SelectionNext == Judge
SelectionSpec == SelectionInit /\ [][SelectionNext]_selectionVars
-----------------------------------------------------------------------------
(* Properties. *)

Selected == verdict.outcome = "selected"
Kept == {verdict.videos[k] : k \in DOMAIN verdict.videos}

Lesser(v, w) ==
    \/ v = [w EXCEPT !.copy = TRUE] /\ ~w.copy
    \/ Base(v) = Base(w) /\ v.copy = w.copy /\ High(w) /\ ~High(v)
    \/ v.index = Phone /\ w.index # Phone /\ 2 * v.size <= w.size

\* What is deleted with the folder is a copy, a lesser cut or a phone rip of
\* another video, which is kept or is such a lesser one itself: no part of a
\* set is dropped, and no cut that nothing stands for.
OnlyLesserCutsDropped ==
    Selected => \A v \in folder.videos \ Kept : \E w \in folder.videos : Lesser(v, w)

\* The parts are numbered as their names number them.
PartsInOrder ==
    Selected => \A k, l \in DOMAIN verdict.videos : k < l =>
        LET v == verdict.videos[k]
            w == verdict.videos[l]
        IN  v.index < w.index \/ (v.index = w.index /\ v.letter <= w.letter)

\* "Files whose tag-stripped names are equal are the same cut; the one marked
\* high-resolution wins": no two of them are filed as parts.  Does not hold:
\* names that differ in digits only are parts first (README, section 6).
OneOfEachCut ==
    Selected => \A k, l \in DOMAIN verdict.videos :
        Base(verdict.videos[k]) = Base(verdict.videos[l]) /\ ~verdict.videos[k].copy /\ ~verdict.videos[l].copy => k = l

\* "anything else found is reported rather than filed under a guess".
FiledAsExpected ==
    Selected /\ folder.wanted = "own" =>
        /\ verdict.avid = "own"
        /\ \A a \in folder.avids : a # "other" /\ (a = "unread" => folder.avids = {"unread"} /\ folder.name = "own")

\* What the selection promises of a folder: whole, in order and of one title.
SelectionRight == OnlyLesserCutsDropped /\ PartsInOrder /\ FiledAsExpected
===============================================================================
