---------------------------- MODULE MCPollTimer ----------------------------
(* A small instance of PollTimer: words of five bits, four milliseconds and    *)
(* two ticks a second, so that the ticks of one, two and three seconds fit,    *)
(* four seconds have none, and longer intervals wrap around.                   *)
EXTENDS PollTimer, TLC

Cells == {"zero", "one", "two", "four", "minus_one", "a", "b"}
Ints == [zero |-> 0, one |-> 1, two |-> 2, four |-> 4, minus_one |-> -1]

File(interval, version, file) ==
    [k \in Keys |-> CASE k = "INTERVAL=" -> interval [] k = "VERSION=" -> version [] OTHER -> file]

\* The order of the lines, and how they and the last one end.
Texts(file) ==
    {[file |-> file, order |-> o, eol |-> e, last |-> l] :
        o \in {<<"INTERVAL=", "VERSION=", "FILE=">>, <<"FILE=", "INTERVAL=", "VERSION=">>},
        e \in {<<"LF">>, <<"CR", "LF">>}, l \in {<< >>, <<"LF">>}}

\* A server that moves between no polling, two intervals that fit, one of no ticks, and
\* one that is negative; with a key missing, and paths that just fit and do not.
PublishedTexts ==
    Texts(File(<<"one">>, <<"two">>, <<"b", "a", "b">>))
        \cup {[file |-> f, order |-> <<"VERSION=", "FILE=", "INTERVAL=">>, eol |-> <<"LF">>,
               last |-> << >>] : f \in {File(<<"two">>, <<"one">>, <<"b", "a", "b">>),
                                        File(<<"zero">>, <<"two">>, Absent),
                                        File(<<"minus_one">>, Absent, <<"a">>),
                                        File(<<"four">>, <<"one">>, <<"b", "a">>),
                                        File(Absent, <<"two">>, <<"b", "a">>)}}

\* Timers differ only in their names.
Symmetry == Permutations(Timer)
=============================================================================
