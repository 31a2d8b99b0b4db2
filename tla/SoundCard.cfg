\* Every kind of card, with a buffer of three pages.
SPECIFICATION FairSpec
CONSTANTS
    Cards = {"dsp1", "dsp2", "pas", "scape", "source"}
    Pages = 3
    Skews = {0, 1}
INVARIANTS EveryPageOnce GivesWhatIsRecorded
PROPERTIES MixesAhead PlaybackGoesOn
