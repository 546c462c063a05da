CONSTANT MaxPieces = 3
SPECIFICATION FairSpec
INVARIANTS TypeOK ResolvedMeansTaken RejectedExplained
           TakenYetRejectedExplained NoMutualWait
PROPERTY SettlesUnlessClosed
