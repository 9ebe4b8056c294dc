\* The FIX fields and the IPC messages of all types; the process is an hour ahead of UTC.
SPECIFICATION Spec
CONSTANTS
  Zone = 3600
  Written <- MCWritten
  Foreign <- MCForeign
  Messages <- MCMessages
  Cuts <- MCCuts
  MaxSent = 2
INVARIANTS RoundTrip AcceptedAsStated FramesKept
CHECK_DEADLOCK FALSE
