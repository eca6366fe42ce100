SPECIFICATION FairSpec
PROPERTY
  TermHonoured
