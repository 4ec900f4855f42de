SPECIFICATION Spec
CONSTANTS
    Keybindings <- MCKeybindings
    Invokes <- MCInvokes
    Trees <- MCTrees
    Profiles <- MCProfiles
    Texts = {"bread"}
    MaxSteps = 2
    MaxNoEffect = 2
    MaxStale = 1
    MaxPolls = 1
    MinConfidence = 750
    MaxChanges = 1
    MaxLost = 1
INVARIANTS ActsOnWhatItSaw ActActsOnce
PROPERTY RunEnds
