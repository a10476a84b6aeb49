CONSTANT Chains <- MCChains
SPECIFICATION FairSpec
INVARIANTS TypeOK ModifiersBind VerdictsEarned RunAccounted
PROPERTIES InOrder Terminates ImplementsContract
