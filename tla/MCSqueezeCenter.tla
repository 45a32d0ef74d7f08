-------------------------- MODULE MCSqueezeCenter --------------------------
(***************************************************************************)
(* Instances of SqueezeCenter for TLC.                                     *)
(***************************************************************************)
EXTENDS SqueezeCenter

CONSTANTS s1, s2, b1, b2

On(mode)   == [mode |-> mode, power |-> TRUE,  remote |-> FALSE]
Off(mode)  == [mode |-> mode, power |-> FALSE, remote |-> FALSE]
Streaming  == [mode |-> "play", power |-> TRUE, remote |-> TRUE]

OnlyPlaying == {On("play")}
OffOrStream == {Off("pause"), Streaming}

UpToTwo == {<< b1 >>, << b1, b2 >>}
EitherFirst == {<< b1, b2 >>, << b2, b1 >>}

Alike == Permutations({s1, s2}) \cup Permutations({b1, b2})

FirstServer  == {<< s1 >>}
EachServer   == {<< s1 >>, << s2 >>}
ServerLists  == {<< s1 >>, << s2 >>, << s1, s2 >>}

FindPlaying == {<< [kind |-> "#", who |-> Null] >>}
=============================================================================
