CONSTANTS Inputs <- UpToThree
          Deactivations = 2
SPECIFICATION ReplFairSpec
INVARIANT RunsWhatWasTyped
PROPERTIES ReplEnds PeerLossNoticed
