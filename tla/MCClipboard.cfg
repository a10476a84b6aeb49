CONSTANTS Texts = 2
          Copies = 2
          Queue = 1
SPECIFICATION FairSpec
INVARIANTS PasteServed NoStalePaste GetCurrent NoSpuriousError OfferKeepsText
PROPERTIES HandshakeCompletes PasteAnswered ExecFinishes
CHECK_DEADLOCK FALSE
