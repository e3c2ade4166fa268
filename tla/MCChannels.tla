----------------------------- MODULE MCChannels -----------------------------
(***************************************************************************)
(* Instances of Channels for TLC.                                          *)
(***************************************************************************)
EXTENDS Channels, TLC

Line(letters, args) == [letters |-> letters, args |-> args]

\* Arguments in both orders, the same letter twice, a missing argument, removal
\* with and without an argument, two signs, no sign, a letter without the plus.
MCModeLines == {Line(<<"+", "k", "l">>, <<"red", "ten">>),
                Line(<<"+", "l", "k">>, <<"ten", "red">>),
                Line(<<"-", "k">>, <<"red">>),
                Line(<<"-", "l">>, <<>>),
                Line(<<"+", "t", "-", "a">>, <<>>),
                Line(<<"+", "a", "t">>, <<>>),
                Line(<<"t", "i">>, <<>>)}

MCOldData == {NoData,
              [topic |-> "welcome", greeting |-> "hello",
               modes |-> [sign |-> "+", flags |-> {"k", "l", "t"}, keyword |-> "red",
                          limit |-> "ten"]]}

WorkerSymmetry == Permutations(Workers)
=============================================================================
