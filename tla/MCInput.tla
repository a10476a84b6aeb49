-------------------------------- MODULE MCInput --------------------------------
(* Two keys, shift, and a desktop of ten columns whose server puts clicks   *)
(* one column to the right.                                                   *)
EXTENDS InputProperties

MCLayout == [a |-> [key |-> "k_a", shift |-> FALSE], A |-> [key |-> "k_a", shift |-> TRUE],
             b |-> [key |-> "k_b", shift |-> FALSE]]
MCKeyNames == [shift |-> "shift", ctrl |-> "ctrl", enter |-> "k_enter", f11 |-> "k_f11"]

Key(spec, hold) == [do |-> "key", spec |-> spec, hold |-> hold]
Plain(verb, spec) == [do |-> verb, spec |-> spec]
Text(verb, text) == [do |-> verb, text |-> text]
Grid(cols, deploy) == [do |-> "calibrate", cols |-> cols, deploy |-> deploy, shell |-> <<"?">>]

MCCommands ==
    { Text("type", <<"A", "b">>), Text("utype", <<"?">>),
      Key(<<"ctrl", "shift", "a">>, FALSE), Key(<<"shift", "b">>, TRUE),
      Plain("keydown", <<"shift">>), Plain("keyup", <<"shift">>),
      Plain("keydown", <<"a">>), Plain("keyup", <<"a">>), Plain("keydown", <<"ctrl", "a">>),
      [do |-> "move", to |-> Place("center")], [do |-> "mouse-hide"],
      [do |-> "click", to |-> Percent(50), button |-> "right"],
      [do |-> "click", to |-> Pixel(0), button |-> "left"],
      [do |-> "click", to |-> Pixel(100), button |-> "left"],
      [do |-> "doubleclick", to |-> Place("last")],
      [do |-> "drag", from |-> Place("first"), to |-> Pixel(3)],
      [do |-> "scroll", direction |-> "up", notches |-> 2],
      [do |-> "scroll", direction |-> "left", notches |-> 2],
      Grid(1, FALSE), Grid(2, FALSE), Grid(1, TRUE) }
===============================================================================
