-------------------------------- MODULE MCSetup --------------------------------
(* Instances of Setup: the computers. *)
EXTENDS Setup, Sequences, TLC

MCMode(bits, channels) == [bits |-> bits, channels |-> channels]

MCRequests == {[rate |-> 8000,  mode |-> MCMode(8, 1)],
               [rate |-> 22050, mode |-> MCMode(16, 1)],
               [rate |-> 30000, mode |-> MCMode(8, 2)],
               [rate |-> 44100, mode |-> MCMode(16, 2)]}

MCNoConfig == [type |-> "none", dma8 |-> Undefined, dma16 |-> Undefined,
               address |-> Undefined, present |-> FALSE]

\* What all have; irq is that of the card.
MCBase(kind, irq, masked) ==
    [kind |-> kind, wired |-> irq, irq |-> irq, masked |-> masked, saved |-> {},
     vector |-> [i \in {x \in 0..15 : ValidIrq(x)} |-> "dos"], old |-> "dos",
     dma |-> [c \in 0..7 |-> Idle], stacks |-> 0, locked |-> FALSE, task |-> FALSE,
     fault |-> "none", status |-> "ok", exposed |-> FALSE, installed |-> FALSE,
     callback |-> "none", playing |-> "off", mode |-> Mono8, rate |-> 11000, length |-> 0,
     current |-> 0, present |-> TRUE, channel |-> 1,
     devices |-> {"FM"}, interface |-> "none"]

MCBlaster(dsp, env, irq, masked) ==
    [dsp |-> dsp, env |-> env, config |-> MCNoConfig, card |-> B!Silent, clock |-> 0,
     stereo |-> FALSE, mpu |-> TRUE, unpaired |-> FALSE, version |-> 0, mixer |-> "none", halt |-> 8,
     packet |-> 2, state |-> TRUE,
     mix |-> [voice |-> <<160, 160>>, midi |-> <<48, 48>>],
     volume |-> [voice |-> <<255, 255>>, midi |-> <<255, 255>>],
     user |-> [masked |-> masked, voice |-> <<160, 160>>, midi |-> <<48, 48>>]]
        @@ MCBase("SB", irq, masked)

MCEnv(type, irq, dma8, dma16) ==
    <<<<"A", 544>>>> \o <<<<"I", irq>>>>
    \o (IF dma8 = Undefined THEN <<>> ELSE <<<<"D", dma8>>>>)
    \o (IF dma16 = Undefined THEN <<>> ELSE <<<<"H", dma16>>>>) \o <<<<"T", type>>>>

\* With a MIDI interface, and what the music is played on.
MCMidi(machine, interface, devices) ==
    [machine EXCEPT !.interface = interface, !.devices = devices,
                    !.user = @ @@ [uart |-> interface = "uart"]]

MCBlasters ==
    {MCBlaster(100, MCEnv(1, 5, 1, Undefined), 5, {5}),
     MCBlaster(200, MCEnv(3, 7, 1, Undefined), 7, {}),
     MCBlaster(201, MCEnv(3, 7, 3, Undefined), 7, {7}),
     MCBlaster(300, MCEnv(4, 5, 1, Undefined), 5, {5}),
     MCBlaster(300, MCEnv(6, 5, 1, 5), 5, {5}),
     MCMidi(MCBlaster(400, MCEnv(6, 10, 1, 5), 10, {10}), "intelligent",
            {"FM", "WaveBlaster"}),
     MCMidi(MCBlaster(400, MCEnv(6, 10, 0, 6), 10, {2, 10}), "uart", {"WaveBlaster"}),
     MCMidi(MCBlaster(400, MCEnv(6, 5, 1, Undefined), 5, {5}), "intelligent", {"GenMidi"}),
     MCBlaster(400, MCEnv(6, 5, Undefined, 5), 5, {5}),
     MCMidi(MCBlaster(400, MCEnv(6, 5, 4, 5), 5, {5}), "none", {"WaveBlaster", "FM"}),
     MCBlaster(400, MCEnv(6, 7, 1, 5), 5, {7}),
     MCBlaster(300, <<<<"A", 544>>, <<"I", Undefined>>>>, 5, {5}),
     [MCBlaster(400, MCEnv(6, 5, 1, 5), 5, {5}) EXCEPT !.present = FALSE]}

MCPas(wide, irq, channel, masked) ==
    [wide |-> wide, flag |-> FALSE, sixteen |-> 8, interval |-> 1, timeInterval |-> 1,
     cross |-> [dma |-> FALSE, run |-> FALSE, dac |-> FALSE, mono |-> TRUE],
     count |-> 0, gates |-> FALSE, unmuted |-> FALSE, pcm |-> <<80, 80>>,
     fm |-> <<40, 40>>, func |-> FALSE,
     volume |-> [pcm |-> <<75, 75>>, fm |-> <<75, 75>>], channel |-> channel,
     user |-> [masked |-> masked, voice |-> <<80, 80>>, midi |-> <<40, 40>>]]
        @@ MCBase("PAS", irq, masked)

MCPases ==
    {MCPas(TRUE, 10, 5, {10}), MCPas(FALSE, 5, 1, {}), MCPas(TRUE, 9, 1, {}),
     [MCPas(TRUE, 5, 3, {5}) EXCEPT !.wired = 7],
     [MCPas(TRUE, 5, 1, {5}) EXCEPT !.present = FALSE]}

MCSoundscape(chip, irq, sbemul, codec) ==
    [chip |-> chip, ini |-> [irq |-> irq, channel |-> 1, sbemul |-> sbemul], run |-> FALSE,
     format |-> [rate |-> 11025, bits |-> 8, channels |-> 1], count |-> 0, pin |-> FALSE,
     codec |-> codec, sbline |-> sbemul, found |-> FALSE, cdrom |-> FALSE,
     user |-> [masked |-> {irq}, codec |-> codec]]
        @@ MCBase("SS", irq, {irq})

MCSoundscapes ==
    {MCMidi(MCSoundscape("ODIE", 5, TRUE, FALSE), "intelligent", {"SoundScape"}),
     MCMidi(MCSoundscape("OPUS", 10, FALSE, FALSE), "uart", {"SoundScape"}),
     MCSoundscape("MMIC", 7, TRUE, TRUE), MCSoundscape("OPUS", 2, TRUE, FALSE),
     [MCSoundscape("ODIE", 5, TRUE, TRUE) EXCEPT !.wired = 7]}

MCDisney(wired, takes, tandy, selected) ==
    [wired |-> wired, takes |-> takes, tandy |-> tandy, selected |-> selected,
     power |-> FALSE, port |-> 1, off |-> 12, channel |-> Undefined, rate |-> 7000,
     user |-> [masked |-> {}]]
        @@ MCBase("DSS", 7, {})

MCDisneys ==
    {MCDisney(1, 12, FALSE, Undefined), MCDisney(3, 14, TRUE, Undefined),
     MCDisney(2, 12, FALSE, 2), MCDisney(2, 12, FALSE, 3), MCDisney(0, 12, FALSE, Undefined)}

MCMachines == MCBlasters \cup MCPases \cup MCSoundscapes \cup MCDisneys
================================================================================
