CONSTANTS
  Commands = {"INTBACK", "SNDON", "CKCHG"}
  Delay <- MCDelay
  Lines = 2
  MaxOps = 3
SPECIFICATION Spec
PROPERTIES AsIssued OffIsSeen ContinueAnswered PollEnds
