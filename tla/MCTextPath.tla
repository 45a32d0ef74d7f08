----------------------------- MODULE MCTextPath -----------------------------
(***************************************************************************)
(* Instance of TextPath for TLC.                                           *)
(***************************************************************************)
EXTENDS TextPath

(* Two letters of a word, one in capitals, a blank, a per cent sign, a     *)
(* line feed, and a control character of two bytes.                        *)
Characters == {"a", "s", "S", " ", "%", "LF", "CSI"}
MCTitles == BoundedSeq(Characters, 4)

MCLetters == {"a", "s", "S", "x"}
MCLower == [c \in {"S"} |-> "s"]
MCBytes == [c \in {"LF", "CSI"} |-> IF c = "LF" THEN 1 ELSE 2]

MCLists == { << >>, << << "a", "s" >>, << "s" >> >>, << << >>, << "s", "a", "s" >>, << " ", "a" >> >>,
             << << "a" >>, << "s", "(" >> >> }

MCPatterns == { << "%", "t" >>, << "%", "p", " ", "%", "t", "s", "%", "s" >>,
                << "%", "%", "t", "%" >>, << "%", "b", "%", "m", "%", "a", "%", "r" >> }
MCArtists == { << >>, << "a", "%", "t" >> }
MCSaved == { << "s", "a" >> }
MCClocks == { << 0, 0 >>, << 7, 9 >>, << 12, 10 >>, << 5, -1 >>, << 0, -1 >> }
=============================================================================
