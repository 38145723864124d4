------------------------------- MODULE MCFat -------------------------------
(* Values of Fat's constants that a configuration cannot write.            *)
EXTENDS Fat, TLC

MCUpper == [c \in Char |-> IF c = "b" THEN "B" ELSE c]

(* Two names that are the same file, one that is cut to the same eleven    *)
(* characters but never found, and a file of its own.                      *)
Lower == [i \in 1 .. 8 |-> "b"]
Mixed == [i \in 1 .. 8 |-> IF i = 1 THEN "B" ELSE "b"]
Long  == [i \in 1 .. 9 |-> "b"]
Other == <<"b", ".", "b">>
MCName == {Lower, Mixed, Long, Other}

(* The directory of the volume starts in cluster 2, as the root does.      *)
MCDirectory == {2}

(* With clusters of two bytes: a buffer that fills a cluster, and one that *)
(* ends in the middle of one, and that needs two clusters at once where    *)
(* the file ends with a full cluster.                                      *)
MCBuffer == {<<1, 2>>, <<1, 2, 1>>}

(* One file may grow to three clusters, one is only created; the others    *)
(* stay within one.                                                        *)
MCMaxBytes == [name \in Name |-> CASE name = Lower -> 5 [] name = Other -> 0 [] OTHER -> 2]
-----------------------------------------------------------------------------
(* The loop of fat::NameIsEqual as it is written, at name[i] and           *)
(* name83[i83]: what it has filled in, or the empty sequence for `false`.  *)
RECURSIVE NameLoop(_, _, _, _, _)
NameLoop(name, i, i83, found_dot, name83) ==
  IF i = Len(name) \/ i83 = 11 THEN IF i = Len(name) THEN name83 ELSE <<>>
  ELSE IF name[i + 1] = Dot
       THEN IF found_dot THEN <<>> ELSE NameLoop(name, i + 1, 8, TRUE, name83)
  ELSE IF ~found_dot /\ i > 7 THEN <<>>
  ELSE NameLoop(name, i + 1, i83 + 1, found_dot,
                [name83 EXCEPT ![i83 + 1] = Upper[name[i + 1]]])

Blanks == [i \in 1 .. 11 |-> Space]

(* It accepts the 8.3 names, and fills in what SetFileName does.           *)
ASSUME NameLoopIsNameIsEqual ==
  \A n \in 0 .. 13 : \A name \in [1 .. n -> {"b", Dot}] :
    NameLoop(name, 0, 0, FALSE, Blanks) =
      IF Is83(name) THEN SetFileName(name) ELSE <<>>
=============================================================================
