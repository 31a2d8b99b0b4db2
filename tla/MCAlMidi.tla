------------------------------ MODULE MCAlMidi ------------------------------
(***************************************************************************)
(* Songs for AlMidi: each has a few kinds of events, as all of them        *)
(* together have too many states.                                          *)
(***************************************************************************)
EXTENDS AlMidi

\* Two programs and two drums.  Of program 1, both operators are heard.
MCBank(level) ==
    [p \in {0, 1, 129, 132} |->
        CASE p = 0 -> [transpose |-> 0, velocity |-> 0, level |-> <<20, 63>>,
                       additive |-> FALSE]
          [] p = 1 -> [transpose |-> 12, velocity |-> -10, level |-> <<50, level>>,
                       additive |-> TRUE]
          [] OTHER -> [transpose |-> 40, velocity |-> 60, level |-> <<30, 60>>,
                       additive |-> FALSE]]
MCDefault == MCBank(40)

Song(events) == [cards |-> {FALSE}, events |-> events, modes |-> {}, limits |-> {},
                 banks |-> {}, volumes |-> {}]

Key(c, k) == <<"note", c, k, 100>>
Sets(type, c, values) == {<<type, c, v>> : v \in values}
Off(c) == <<"off", c>>
Wheel == Sets("bend", 0, {0, -4097})

MCSongs ==
    { \* notes that are held and give way to each other
      Song({Key(0, 1), Key(0, 4), Key(9, 1), Off(0)} \cup Sets("pedal", 0, {0, 127})
           \cup Sets("sostenuto", 9, {0, 127})),
      \* both kinds of cards
      [Song({Key(0, 1), Key(9, 1)} \cup Sets("pan", 0, {0}))
            EXCEPT !.cards = BOOLEAN],
      [Song({Key(0, 1), Key(9, 1), Off(9)}) EXCEPT !.limits = {9, 16}],
      \* the pitch of a note
      Song({Key(0, 1)} \cup Wheel \cup Sets("dataMsb", 0, {2, 12})
           \cup Sets("pedal", 0, {0, 127})),
      Song({Key(0, 1)} \cup Wheel \cup Sets("dataMsb", 0, {12}) \cup Sets("dataLsb", 0, {64})
           \cup Sets("rpnLsb", 0, {0, 1}) \cup Sets("nrpnLsb", 0, {0})),
      Song({Key(0, 1)} \cup Wheel \cup Sets("modulation", 0, {0, 1})
           \cup Sets("touch", 0, {0, 2}) \cup Sets("pedal", 0, {0, 127})),
      Song({Key(0, 1), Key(0, 4), <<"reset", 0, 0>>}
           \cup Sets("portamento", 0, {0, 1}) \cup Sets("portamentoOn", 0, {0, 64})),
      \* its timbre and its volume
      [Song({Key(0, 1), Key(0, 4)} \cup Sets("program", 0, {0, 1}) \cup Wheel)
            EXCEPT !.banks = {MCDefault, MCBank(60)}, !.modes = BOOLEAN],
      Song({Key(0, 1)} \cup Sets("program", 0, {1}) \cup Sets("bankMsb", 0, {0, 127})
           \cup Sets("bankLsb", 0, {0, 1}) \cup Wheel),
      Song({Key(0, 1), <<"reset", 0, 0>>, <<"expression", 0, 90>>}
           \cup Sets("program", 0, {1}) \cup Sets("volume", 0, {127, 200, 50})
           \cup Sets("soft", 0, {0, 64})),
      \* volumes that the program sets in the midst of the messages
      [Song({Key(0, 1), Key(9, 1)} \cup Sets("program", 0, {1}))
            EXCEPT !.volumes = {<<0, 50>>}],
      [Song({Key(0, 1), Key(0, 4), <<"pedal", 0, 0>>, <<"expression", 0, 90>>})
            EXCEPT !.volumes = {<<0, 50>>}]}

\* The view: what the registers hold that a call has hit by mistake is no matter to
\* anything else, and the invariants leave it out.
LiveView ==
    <<al.lists, al.voice, al.channel, al.opl3,
      IF astray = {} THEN al.chip ELSE [x \in Cells \ astray |-> al.chip[x]],
      bank, mode, limit, ending, held, piece, call, late \ astray, astray>>

MCOneNote == {Song({Key(0, 1), <<"pedal", 0, 127>>, Off(0)})}
MCWaves == {0, 300000}
MCGlide == [p \in {1} |-> 1]
=============================================================================
