CONSTANTS
  MaxChunks = 1
  MaxReads = 1
SPECIFICATION FairSpec
PROPERTY ResumeResends
