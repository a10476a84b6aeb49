------------------------------- MODULE MCReplay -------------------------------
(* Command lines of up to two pieces out of one for every kind of slot, with  *)
(* the texts that scripts treat specially.                                    *)
EXTENDS ReplayProperties

MCNumerals ==
    ("0" :> 0) @@ ("0.8" :> 8000) @@ ("0.85" :> 8500) @@ ("0.95" :> 9500) @@ ("1" :> One)
    @@ ("1.5" :> 15000) @@ ("0.015" :> 150) @@ ("2" :> 2 * One) @@ ("3" :> 3 * One) @@ ("5" :> 5 * One)
    @@ ("10" :> 10 * One) @@ ("30" :> 30 * One) @@ ("60" :> 60 * One) @@ ("90" :> 90 * One) @@ ("0.9" :> 9000)
    @@ ("150" :> 150 * One) @@ ("300" :> 300 * One) @@ ("500" :> 500 * One) @@ ("1000" :> 1000 * One)
    @@ ("44" :> 44 * One) @@ ("2000" :> 2000 * One)

MCRegions == {"1,2,3x4"}
MCLayouts == ("8x6" :> "8x6") @@ ("8X6+8x6" :> "8x6+8x6") @@ ("8x6+8x6" :> "8x6+8x6")
MCVars == (<<"server">> :> <<"host">>) @@ (<<"env:X">> :> <<"quote">>)

W(a) == <<a>>
Say(text) == << W("type"), text >>

MCInputs ==
    { Say(W("hi")), Say(<<"a", "sp", "b">>), Say(<<"sp">>), Say(<<>>), Say(<<"a", "quote", "b">>),
      Say(<<"a", "tab", "b">>), Say(<<"a", "nl", "key", "sp", "b">>), Say(<<"back", "close", "hash">>),
      Say(<<"open", "server", "close">>), Say(<<"open", "env:X", "close">>), Say(<<"open", "else", "close">>),
      Say(W("30")), Say(W("key")),
      << W("key"), W("a") >>, << W("key"), W("a"), W("--hold-ms"), W("500") >>,
      << W("click"), W("center") >>, << W("click"), W("center"), W("right") >>,
      << W("scroll"), W("up"), W("3") >>, << W("wait"), W("1.5") >>,
      << W("capture"), W("f") >>, << W("capture"), W("f"), W("1,2,3x4") >>,
      << W("expect"), W("f"), W("90"), W("5"), W("--tag"), W("t") >>, << W("expect"), W("f"), W("150") >>,
      << W("measure"), W("f"), W("--label"), W("l") >>,
      << W("repeat-key"), W("a"), W("f"), W("0.8"), W("5"), W("300"), W("2") >>,
      << W("repeat-key"), W("a"), W("f") >>,
      << W("find-color"), W("red"), W("1,2,3x4"), W("10") >>,
      << W("baseline"), W("check"), W("n"), W("0.8"), W("--dir"), W("d") >>, << W("baseline"), W("ls") >>,
      << W("monitor"), W("set"), W("8X6+8x6") >>, << W("monitor"), W("set"), W("wide") >>,
      << W("assert-pixel"), W("1,2"), W("red"), W("300") >>,
      << W("timelapse"), W("f"), W("--interval"), W("2"), W("--count"), W("3") >>, << W("timelapse"), W("f") >>,
      << W("calibrate"), W("--grid"), W("2x2"), W("--quick") >>,
      << W("type-password"), W("secret") >>, << W("login"), W("me"), W("p"), W("--verify") >>,
      << W("login"), <<"a", "sp", "b">>, W("p") >>, << W("login"), <<"open", "password", "close">>, W("p") >>,
      << W("unlock"), W("kde"), W("p") >>, << W("play"), W("f"), W("2") >>, << W("help"), W("key") >>,
      << W("wait-still"), W("500") >>, << W("soft"), W("retry"), W("3"), W("key"), W("a") >>, << W("diff"), W("f"), W("f"), W("--mode") >>,
      << W("diff"), W("f"), W("f"), W("--mode"), W("fancy") >> }

MCProfile ==
    [login  |-> <<"hash", "nl", "type", "sp", "quote", "open", "username", "close", "quote", "nl",
                  "key", "sp", "a", "nl", "type-password", "sp", "open", "password", "close", "nl">>,
     unlock |-> <<"key", "sp", "a", "nl", "pause", "sp", "1.5", "nl",
                  "type-password", "sp", "open", "password", "close", "nl">>]

MCPasswords == {<<"p">>, <<"p", "sp", "q">>, <<"hash", "back">>}

\* A pause takes as long as it says, in units of half a second; the rest no time.
MCTakes(c) == IF c.verb = "pause" THEN c.args[1] \div 5000 ELSE 0
===============================================================================
