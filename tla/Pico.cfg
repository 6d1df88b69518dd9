CONSTANTS
  N = 64
  MaxResets = 1
  CallRecords <- MCCallRecords
  Contents <- MCContents
SPECIFICATION Spec
INVARIANT TypeOK FunctionsKeepPromise WordsAligned EntersReadableFlash NoStaleReply
PROPERTY Boots CallsReturn
